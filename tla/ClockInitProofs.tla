--------------------------- MODULE ClockInitProofs ---------------------------
(***************************************************************************)
(* Proofs about ClockInit, for any length of the hold and any number of    *)
(* restarts.                                                               *)
(***************************************************************************)
EXTENDS ClockInit, TLAPS

USE ClockAssumption
-----------------------------------------------------------------------------
(* The clock and its wait states *)

\* The four AHB clocks and the wait states of each.
LEMMA Clocks ==
  /\ Ahb("HSI", 1) = 16 /\ Ahb("HSI", 2) = 8 /\ Ahb("PLL", 1) = 170 /\ Ahb("PLL", 2) = 85
  /\ WaitStates(16) = 0 /\ WaitStates(8) = 0 /\ WaitStates(170) = 4 /\ WaitStates(85) = 2
BY DEF Ahb, WaitStates

\* A counter that counts up to its cap.
LEMMA Saturation ==
  ASSUME NEW n \in 0 .. CounterCap
  PROVE  /\ Saturate(n + 1) \in 0 .. CounterCap
         /\ Saturate(n + 1) >= n
         /\ \A m \in 0 .. CounterCap : m <= n => Saturate(m + 1) <= Saturate(n + 1)
BY DEF Saturate, CounterCap
-----------------------------------------------------------------------------
(* The inductive invariant *)

\* What the clock tree needs once the PLL is asked for, whoever asked: it outlives
\* a re-entry of Reset_Handler.
ClockTree ==
  /\ latency \in {0, 4} /\ latencyReq \in {0, 4}
  /\ sw = "PLL" => latency = 4 /\ latencyReq = 4 /\ boost /\ pll = "ready"
  /\ sws = "PLL" => sw = "PLL"
  /\ sw = "PLL" /\ sws = "HSI" => hpre = 2

\* The simulated machine keeps its reset clock.
Simulated ==
  platform = "gem5" =>
    pc \in {"reset", "fpu", "acr", "bench"} /\ sw = "HSI" /\ sws = "HSI"

\* What the hardware start-up has established at each of its points.
Established ==
  platform = "hardware" =>
    /\ pc = "poll_latency" => latencyReq = 4
    /\ pc \in {"latency", "poll_latency", "boost"} => pwrClock
    /\ pc \notin {"reset", "clocks", "latency", "poll_latency"} => latency = 4 /\ latencyReq = 4
    /\ pc \notin {"reset", "clocks", "latency", "poll_latency", "boost"} => boost
    /\ pc = "poll_pll" => pll \in {"starting", "ready"}
    /\ pc = "switch" => pll = "ready"
    /\ pc \in {"poll_sws", "start_hold", "hold", "full_speed"} => sw = "PLL" /\ hpre = 2
    /\ pc \in {"start_hold", "hold", "full_speed"} => sws = "PLL"
    /\ pc \in {"fpu", "acr", "bench"} => sws = "PLL" /\ hpre = 1
    /\ pc = "bench" => acr = variant

\* The counter counts from the start of the hold and is never ahead of the clock's
\* age.
Hold ==
  /\ pc = "hold" => cyccnt <= held
  /\ pc = "full_speed" => held >= HoldCycles

FpuOn == pc \in {"acr", "bench"} => fpu

IInv == TypeOK /\ ClockTree /\ Simulated /\ Established /\ Hold /\ FpuOn
-----------------------------------------------------------------------------
(* Initial state and steps *)

LEMMA InitIInv == Init => IInv
<1> SUFFICES ASSUME Init PROVE IInv
  OBVIOUS
<1>1. ResetAcr \in CacheBits /\ variant \in CacheBits
  BY DEF Init, ResetAcr, CacheBits, Variants
<1>2. cyccnt \in 0 .. CounterCap /\ held \in 0 .. CounterCap /\ restarts \in 0 .. MaxRestarts
  BY DEF Init, CounterCap
<1>3. TypeOK
  <2>1. fpu \in BOOLEAN /\ pwrClock \in BOOLEAN /\ boost \in BOOLEAN /\ counting \in BOOLEAN
    BY Zenon DEF Init
  <2>2. acr \in CacheBits
    BY <1>1, Zenon DEF Init
  <2>3. latencyReq \in 0 .. 4 /\ latency \in 0 .. 4 /\ hpre \in {1, 2}
    BY DEF Init
  <2>4. platform \in {"hardware", "gem5"} /\ pc \in PCs /\ pll \in {"off", "starting", "ready"}
        /\ sw \in {"HSI", "PLL"} /\ sws \in {"HSI", "PLL"}
    BY DEF Init, PCs
  <2> QED
    BY <1>1, <1>2, <2>1, <2>2, <2>3, <2>4 DEF TypeOK
<1>4. ClockTree /\ Simulated /\ Established /\ Hold /\ FpuOn
  BY DEF Init, ClockTree, Simulated, Established, Hold, FpuOn
<1> QED
  BY <1>3, <1>4 DEF IInv

\* A write to the clock configuration restarts the age or leaves it.
LEMMA AgeTyped ==
  ASSUME TypeOK, NEW s, NEW d, ClockSet(s, d)
  PROVE  held' \in 0 .. CounterCap
BY DEF TypeOK, ClockSet, CounterCap

\* The program up to the PLL switch.
LEMMA PrepareKeeps ==
  ASSUME IInv, ResetHandler \/ EnablePwrClock \/ WriteLatency \/ PollLatency \/ SetBoost \/ PllOn \/ PollPll
  PROVE  IInv'
<1>1. CASE ResetHandler
  <2>1. TypeOK'
    BY <1>1 DEF ResetHandler, Goto, build, flash, clockTree, dwt, IInv, TypeOK, PCs
  <2>2. ClockTree' /\ Simulated' /\ Established'
    BY <1>1 DEF ResetHandler, Goto, build, flash, clockTree, IInv, ClockTree, Simulated,
       Established
  <2>3. Hold' /\ FpuOn'
    BY <1>1 DEF ResetHandler, Goto, Hold, FpuOn
  <2> QED
    BY <2>1, <2>2, <2>3 DEF IInv
<1>2. CASE EnablePwrClock
  <2>1. TypeOK'
    BY <1>2 DEF EnablePwrClock, Goto, build, flash, clockTree, dwt, IInv, TypeOK, PCs
  <2>2. ClockTree' /\ Simulated' /\ Established'
    BY <1>2 DEF EnablePwrClock, Goto, build, flash, clockTree, IInv, ClockTree, Simulated,
       Established
  <2>3. Hold' /\ FpuOn'
    BY <1>2 DEF EnablePwrClock, Goto, Hold, FpuOn
  <2> QED
    BY <2>1, <2>2, <2>3 DEF IInv
<1>3. CASE WriteLatency
  <2>1. TypeOK'
    BY <1>3 DEF WriteLatency, Goto, build, clockTree, dwt, IInv, TypeOK, PCs
  <2>2. ClockTree' /\ Simulated' /\ Established'
    BY <1>3 DEF WriteLatency, Goto, build, clockTree, IInv, ClockTree, Simulated, Established
  <2>3. Hold' /\ FpuOn'
    BY <1>3 DEF WriteLatency, Goto, Hold, FpuOn
  <2> QED
    BY <2>1, <2>2, <2>3 DEF IInv
<1>4. CASE PollLatency
  <2>1. TypeOK'
    BY <1>4 DEF PollLatency, Goto, build, flash, clockTree, dwt, IInv, TypeOK, PCs
  <2>2. ClockTree' /\ Simulated' /\ Established'
    BY <1>4 DEF PollLatency, Goto, build, flash, clockTree, IInv, ClockTree, Simulated,
       Established
  <2>3. Hold' /\ FpuOn'
    BY <1>4 DEF PollLatency, Goto, Hold, FpuOn
  <2> QED
    BY <2>1, <2>2, <2>3 DEF IInv
<1>5. CASE SetBoost
  <2>1. TypeOK'
    BY <1>5 DEF SetBoost, Goto, build, flash, clockTree, dwt, IInv, TypeOK, PCs
  <2>2. ClockTree' /\ Simulated' /\ Established'
    BY <1>5 DEF SetBoost, Goto, build, flash, clockTree, IInv, ClockTree, Simulated, Established
  <2>3. Hold' /\ FpuOn'
    BY <1>5 DEF SetBoost, Goto, Hold, FpuOn
  <2> QED
    BY <2>1, <2>2, <2>3 DEF IInv
<1>6. CASE PllOn
  <2>1. TypeOK'
    BY <1>6 DEF PllOn, Goto, build, flash, dwt, IInv, TypeOK, PCs
  <2>2. ClockTree' /\ Simulated' /\ Established'
    BY <1>6 DEF PllOn, Goto, build, flash, IInv, TypeOK, ClockTree, Simulated, Established
  <2>3. Hold' /\ FpuOn'
    BY <1>6 DEF PllOn, Goto, Hold, FpuOn
  <2> QED
    BY <2>1, <2>2, <2>3 DEF IInv
<1>7. CASE PollPll
  <2>1. TypeOK'
    BY <1>7 DEF PollPll, Goto, build, flash, clockTree, dwt, IInv, TypeOK, PCs
  <2>2. ClockTree' /\ Simulated' /\ Established'
    BY <1>7 DEF PollPll, Goto, build, flash, clockTree, IInv, ClockTree, Simulated, Established
  <2>3. Hold' /\ FpuOn'
    BY <1>7 DEF PollPll, Goto, Hold, FpuOn
  <2> QED
    BY <2>1, <2>2, <2>3 DEF IInv
<1> QED
  BY <1>1, <1>2, <1>3, <1>4, <1>5, <1>6, <1>7

\* The switch, the hold and the rest of the start-up.
LEMMA SwitchKeeps ==
  ASSUME IInv, SwitchSysclk \/ PollSws \/ StartHold \/ PollHold \/ FullSpeed \/ EnableFpu \/ ApplyFlashAcr
  PROVE  IInv'
<1>1. CASE SwitchSysclk
  <2>1. TypeOK'
    BY AgeTyped, <1>1 DEF SwitchSysclk, Goto, build, flash, dwt, IInv, TypeOK, PCs
  <2>2. ClockTree' /\ Simulated' /\ Established'
    BY <1>1 DEF SwitchSysclk, Goto, build, flash, IInv, TypeOK, ClockTree, Simulated,
       Established
  <2>3. Hold' /\ FpuOn'
    BY <1>1 DEF SwitchSysclk, Goto, Hold, FpuOn
  <2> QED
    BY <2>1, <2>2, <2>3 DEF IInv
<1>2. CASE PollSws
  <2>1. TypeOK'
    BY <1>2 DEF PollSws, Goto, build, flash, clockTree, dwt, IInv, TypeOK, PCs
  <2>2. ClockTree' /\ Simulated' /\ Established'
    BY <1>2 DEF PollSws, Goto, build, flash, clockTree, IInv, ClockTree, Simulated, Established
  <2>3. Hold' /\ FpuOn'
    BY <1>2 DEF PollSws, Goto, Hold, FpuOn
  <2> QED
    BY <2>1, <2>2, <2>3 DEF IInv
<1>3. CASE StartHold
  <2>1. TypeOK'
    BY <1>3 DEF StartHold, Goto, build, flash, clockTree, IInv, TypeOK, PCs, CounterCap
  <2>2. ClockTree' /\ Simulated' /\ Established'
    BY <1>3 DEF StartHold, Goto, build, flash, clockTree, IInv, ClockTree, Simulated,
       Established
  <2>3. Hold' /\ FpuOn'
    BY <1>3 DEF StartHold, Goto, IInv, TypeOK, Hold, FpuOn
  <2> QED
    BY <2>1, <2>2, <2>3 DEF IInv
<1>4. CASE PollHold
  <2>1. TypeOK'
    BY <1>4 DEF PollHold, Goto, build, flash, clockTree, dwt, IInv, TypeOK, PCs
  <2>2. ClockTree' /\ Simulated' /\ Established'
    BY <1>4 DEF PollHold, Goto, build, flash, clockTree, IInv, ClockTree, Simulated, Established
  <2>3. Hold' /\ FpuOn'
    BY <1>4 DEF PollHold, Goto, IInv, TypeOK, Hold, FpuOn
  <2> QED
    BY <2>1, <2>2, <2>3 DEF IInv
<1>5. CASE FullSpeed
  <2>1. TypeOK'
    BY AgeTyped, <1>5 DEF FullSpeed, Goto, build, flash, dwt, IInv, TypeOK, PCs
  <2>2. ClockTree' /\ Simulated' /\ Established'
    BY <1>5 DEF FullSpeed, Goto, build, flash, IInv, TypeOK, ClockTree, Simulated, Established
  <2>3. Hold' /\ FpuOn'
    BY <1>5 DEF FullSpeed, Goto, Hold, FpuOn
  <2> QED
    BY <2>1, <2>2, <2>3 DEF IInv
<1>6. CASE EnableFpu
  <2>1. TypeOK'
    BY <1>6 DEF EnableFpu, Goto, build, flash, clockTree, dwt, IInv, TypeOK, PCs
  <2>2. ClockTree' /\ Simulated' /\ Established'
    BY <1>6 DEF EnableFpu, Goto, build, flash, clockTree, IInv, ClockTree, Simulated,
       Established
  <2>3. Hold' /\ FpuOn'
    BY <1>6 DEF EnableFpu, Goto, Hold, FpuOn
  <2> QED
    BY <2>1, <2>2, <2>3 DEF IInv
<1>7. CASE ApplyFlashAcr
  <2>1. TypeOK'
    BY <1>7 DEF ApplyFlashAcr, Goto, OverlayAcr, build, clockTree, dwt, IInv, TypeOK, PCs
  <2>2. ClockTree' /\ Simulated' /\ Established'
    BY <1>7 DEF ApplyFlashAcr, Goto, OverlayAcr, build, clockTree, IInv, ClockTree, Simulated,
       Established
  <2>3. Hold' /\ FpuOn'
    BY <1>7 DEF ApplyFlashAcr, Goto, IInv, Hold, FpuOn
  <2> QED
    BY <2>1, <2>2, <2>3 DEF IInv
<1> QED
  BY <1>1, <1>2, <1>3, <1>4, <1>5, <1>6, <1>7

\* The hardware.
LEMMA HardwareKeeps ==
  ASSUME IInv, FlashAdopts \/ PllLocks \/ SwitchDone \/ Tick
  PROVE  IInv'
<1>1. CASE FlashAdopts
  <2>1. TypeOK'
    BY <1>1 DEF FlashAdopts, build, clockTree, dwt, IInv, TypeOK
  <2>2. ClockTree' /\ Simulated' /\ Established'
    BY <1>1 DEF FlashAdopts, build, clockTree, IInv, ClockTree, Simulated, Established
  <2>3. Hold' /\ FpuOn'
    BY <1>1 DEF FlashAdopts, dwt, IInv, Hold, FpuOn
  <2> QED
    BY <2>1, <2>2, <2>3 DEF IInv
<1>2. CASE PllLocks
  <2>1. TypeOK'
    BY <1>2 DEF PllLocks, build, flash, dwt, IInv, TypeOK
  <2>2. ClockTree' /\ Simulated' /\ Established'
    BY <1>2 DEF PllLocks, build, flash, IInv, ClockTree, Simulated, Established
  <2>3. Hold' /\ FpuOn'
    BY <1>2 DEF PllLocks, dwt, IInv, Hold, FpuOn
  <2> QED
    BY <2>1, <2>2, <2>3 DEF IInv
<1>3. CASE SwitchDone
  <2>1. TypeOK'
    BY AgeTyped, <1>3 DEF SwitchDone, build, flash, dwt, IInv, TypeOK
  <2>2. ClockTree' /\ Simulated' /\ Established'
    BY <1>3 DEF SwitchDone, build, flash, IInv, ClockTree, Simulated, Established
  <2>3. Hold' /\ FpuOn'
    BY <1>3 DEF SwitchDone, IInv, TypeOK, Simulated, Established, Hold, FpuOn
  <2> QED
    BY <2>1, <2>2, <2>3 DEF IInv
<1>4. CASE Tick
  <2>1. TypeOK'
    BY Saturation, <1>4 DEF Tick, build, flash, clockTree, IInv, TypeOK
  <2>2. ClockTree' /\ Simulated' /\ Established'
    BY <1>4 DEF Tick, build, flash, clockTree, IInv, ClockTree, Simulated, Established
  <2>3. Hold' /\ FpuOn'
    BY Saturation, <1>4 DEF Tick, IInv, TypeOK, Hold, FpuOn
  <2> QED
    BY <2>1, <2>2, <2>3 DEF IInv
<1> QED
  BY <1>1, <1>2, <1>3, <1>4

\* Restarts.
LEMMA RestartKeeps ==
  ASSUME IInv, Reenter \/ SystemReset
  PROVE  IInv'
<1>1. CASE Reenter
  <2>1. TypeOK'
    BY <1>1 DEF Reenter, build, flash, clockTree, dwt, IInv, TypeOK, PCs
  <2>2. ClockTree' /\ Simulated' /\ Established'
    BY <1>1 DEF Reenter, build, flash, clockTree, IInv, ClockTree, Simulated, Established
  <2>3. Hold' /\ FpuOn'
    BY <1>1 DEF Reenter, Hold, FpuOn
  <2> QED
    BY <2>1, <2>2, <2>3 DEF IInv
<1>2. CASE SystemReset
  <2>1. TypeOK'
    <3>1. ResetAcr \in CacheBits
      BY DEF ResetAcr, CacheBits
    <3>2. restarts' \in 0 .. MaxRestarts /\ held' \in 0 .. CounterCap
      BY <1>2 DEF SystemReset, IInv, TypeOK, CounterCap
    <3>3. fpu' \in BOOLEAN /\ pwrClock' \in BOOLEAN /\ boost' \in BOOLEAN /\ counting' \in BOOLEAN
      BY <1>2, Zenon DEF SystemReset, dwt, IInv, TypeOK
    <3>4. acr' \in CacheBits
      BY <1>2, <3>1, Zenon DEF SystemReset
    <3>5. latencyReq' \in 0 .. 4 /\ latency' \in 0 .. 4 /\ hpre' \in {1, 2}
      BY <1>2 DEF SystemReset
    <3>6. /\ platform' \in {"hardware", "gem5"} /\ variant' \in CacheBits /\ pc' \in PCs
          /\ pll' \in {"off", "starting", "ready"}
          /\ sw' \in {"HSI", "PLL"} /\ sws' \in {"HSI", "PLL"} /\ cyccnt' \in 0 .. CounterCap
      BY <1>2 DEF SystemReset, build, dwt, IInv, TypeOK, PCs
    <3> QED
      BY <3>2, <3>3, <3>4, <3>5, <3>6 DEF TypeOK
  <2>2. ClockTree' /\ Simulated' /\ Established'
    BY <1>2 DEF SystemReset, ClockTree, Simulated, Established
  <2>3. Hold' /\ FpuOn'
    BY <1>2 DEF SystemReset, Hold, FpuOn
  <2> QED
    BY <2>1, <2>2, <2>3 DEF IInv
<1> QED
  BY <1>1, <1>2

\* Every step keeps the invariant.
LEMMA NextKeeps ==
  ASSUME IInv, [Next]_vars
  PROVE  IInv'
<1>1. CASE UNCHANGED vars \/ Bench
  BY <1>1 DEF Bench, vars, build, flash, clockTree, dwt, IInv, TypeOK, ClockTree, Simulated,
     Established, Hold, FpuOn
<1>2. CASE Program
  BY <1>2, PrepareKeeps, SwitchKeeps DEF Program
<1>3. CASE Hardware \/ Reenter \/ SystemReset
  BY <1>3, HardwareKeeps, RestartKeeps DEF Hardware
<1> QED
  BY <1>1, <1>2, <1>3 DEF Next

\* The clock passes 85 MHz only from 85 MHz, after the hold.
LEMMA Rise ==
  ASSUME IInv, [Next]_vars, Ahb(sws', hpre') > 85, Ahb(sws, hpre) <= 85
  PROVE  Ahb(sws, hpre) = 85 /\ held >= HoldCycles
<1>1. sws' = "PLL" /\ hpre' = 1 /\ sws \in {"HSI", "PLL"} /\ hpre \in {1, 2}
  <2>1. IInv'
    BY NextKeeps
  <2> QED
    BY <2>1, Clocks DEF IInv, TypeOK
<1>2. CASE FullSpeed
  BY <1>2, Clocks DEF FullSpeed, Goto, IInv, TypeOK, Hold
<1>3. CASE SwitchDone
  <2>1. sw = "PLL" /\ sws = "HSI" /\ hpre' = hpre
    BY <1>1, <1>3 DEF SwitchDone, IInv, TypeOK
  <2> QED
    BY <1>1, <2>1 DEF IInv, ClockTree
<1>4. CASE UNCHANGED <<sws, hpre>>
  BY <1>1, <1>4, Clocks
<1>5. CASE SwitchSysclk \/ SystemReset
  BY <1>1, <1>5 DEF SwitchSysclk, SystemReset
<1>6. FullSpeed \/ SwitchDone \/ SwitchSysclk \/ SystemReset \/ UNCHANGED <<sws, hpre>>
  BY DEF Next, Program, Hardware, ResetHandler, EnablePwrClock, WriteLatency, PollLatency, SetBoost,
     PllOn, PollPll, PollSws, StartHold, PollHold, EnableFpu, ApplyFlashAcr, FlashAdopts, PllLocks,
     Tick, Bench, Reenter, vars, clockTree
<1> QED
  BY <1>2, <1>3, <1>4, <1>5, <1>6
-----------------------------------------------------------------------------
(* Theorems *)

\* The invariant holds of every reachable state.
THEOREM Invariance == Spec => []IInv
BY InitIInv, NextKeeps, PTL DEF Spec

\* Every register and program point keeps its type.
THEOREM TypeCorrect == Spec => []TypeOK
<1>1. IInv => TypeOK
  BY DEF IInv
<1> QED
  BY <1>1, Invariance, PTL

\* The flash is never read faster than its wait states and the supply allow
\* (system_init.c, steps 2 to 9; flash_config.c).
THEOREM FlashIsSafe == Spec => []ClockIsSafe
<1>1. IInv => ClockIsSafe
  BY Clocks DEF IInv, TypeOK, ClockTree, ClockIsSafe
<1> QED
  BY <1>1, Invariance, PTL

\* bench_entry finds the machine of its build (main.c, main).
THEOREM KernelFindsBuild == Spec => []BenchFindsBuild
<1>1. IInv => BenchFindsBuild
  BY Clocks DEF IInv, Established, FpuOn, BenchFindsBuild
<1> QED
  BY <1>1, Invariance, PTL

\* The AHB clock rises to full speed only after the hold at half speed, whatever
\* the cycle counter held before (system_init.c, step 8).
THEOREM RiseIsGradual == Spec => RisesThroughHalfSpeed
<1>1. IInv /\ [Next]_vars =>
        [Ahb(sws', hpre') > 85 /\ Ahb(sws, hpre) <= 85 =>
           Ahb(sws, hpre) = 85 /\ held >= HoldCycles]_vars
  BY Rise
<1> QED
  BY <1>1, Invariance, PTL DEF Spec, RisesThroughHalfSpeed
=============================================================================
