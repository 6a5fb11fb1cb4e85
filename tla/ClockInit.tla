------------------------------ MODULE ClockInit ------------------------------
(***************************************************************************)
(* From reset to bench_entry on the STM32G474RE: Reset_Handler             *)
(* (src/startup.c), system_init (src/system_init.c) and apply_flash_acr    *)
(* (src/flash_config.c) against the clock, power and flash hardware they   *)
(* poll.  Addresses and bit positions are abstracted to named fields; the  *)
(* order of accesses, the polls and the read-modify-writes are kept.       *)
(***************************************************************************)
EXTENDS Integers

CONSTANTS
  HoldCycles,     \* cycles to stay at half speed (100 in the code)
  MaxRestarts     \* bound: faults that are followed by a restart

ASSUME ClockAssumption == HoldCycles \in Nat \ {0} /\ MaxRestarts \in Nat

VARIABLES
  platform,       \* "hardware" or "gem5", fixed by the build
  variant,        \* ENABLE_PREFETCH, ENABLE_ICACHE, ENABLE_DCACHE of the build
  pc,
  fpu,            \* CPACR grants CP10/CP11
  pwrClock,       \* RCC_APB1ENR1: PWR registers can be written
  boost,          \* PWR_CR5.R1MODE cleared
  latencyReq,     \* FLASH_ACR.LATENCY as written ...
  latency,        \* ... and as the flash controller has adopted it
  acr,            \* FLASH_ACR.PRFTEN, ICEN, DCEN
  pll,            \* PLL: "off", "starting" or "ready"
  sw, sws,        \* RCC_CFGR.SW and the source in use, SWS
  hpre,           \* AHB prescaler: 1 or 2
  counting,       \* DWT_CTRL.CYCCNTENA
  cyccnt,         \* DWT_CYCCNT, saturating at CounterCap
  held,           \* history: cycles at the present AHB clock, saturating
  restarts

clockTree == <<pll, sw, sws, hpre>>
flash == <<latencyReq, latency, acr>>
dwt == <<counting, cyccnt>>
build == <<platform, variant>>
vars == <<build, pc, fpu, pwrClock, boost, flash, clockTree, dwt, held, restarts>>

\* Bound on the two counters: enough to tell "held long enough" from "not yet".
CounterCap == HoldCycles + 1
Saturate(n) == IF n < CounterCap THEN n ELSE CounterCap

CacheBits == [prefetch : BOOLEAN, icache : BOOLEAN, dcache : BOOLEAN]
\* configs/hardware-{full,nocache,noprefetch,none}.cmake
Variants == {v \in CacheBits : v.icache = v.dcache}
\* FLASH_ACR at reset: caches on, prefetch off.
ResetAcr == [prefetch |-> FALSE, icache |-> TRUE, dcache |-> TRUE]

\* The AHB clock in MHz, and the wait states the flash needs at that clock.
Ahb(source, div) == (IF source = "PLL" THEN 170 ELSE 16) \div div
WaitStates(mhz) == (mhz - 1) \div 34

\* The present clock's age restarts whenever the clock changes.
ClockSet(source, div) ==
  held' = IF Ahb(source, div) = Ahb(sws, hpre) THEN held ELSE 0
-----------------------------------------------------------------------------
Init ==
  /\ platform \in {"hardware", "gem5"}
  /\ variant \in Variants
  /\ pc = "reset"
  /\ fpu = FALSE
  /\ pwrClock = FALSE /\ boost = FALSE
  /\ latencyReq = 0 /\ latency = 0
  /\ acr = ResetAcr
  /\ pll = "off"
  /\ sw = "HSI" /\ sws = "HSI" /\ hpre = 1
  /\ counting \in BOOLEAN            \* a debugger may have left it running
  /\ cyccnt \in {0, CounterCap}
  /\ held = 0
  /\ restarts = 0

Goto(from, to) == pc = from /\ pc' = to

\* Reset_Handler: .data, .bss, cpsie i, main(), system_init().
ResetHandler ==
  /\ Goto("reset", IF platform = "hardware" THEN "clocks" ELSE "fpu")
  /\ UNCHANGED <<build, fpu, pwrClock, boost, flash, clockTree, dwt, held, restarts>>

EnablePwrClock ==
  /\ Goto("clocks", "latency")
  /\ pwrClock' = TRUE
  /\ UNCHANGED <<build, fpu, boost, flash, clockTree, dwt, held, restarts>>

WriteLatency ==
  /\ Goto("latency", "poll_latency")
  /\ latencyReq' = 4
  /\ UNCHANGED <<build, fpu, pwrClock, boost, latency, acr, clockTree, dwt, held,
                 restarts>>

\* A wait loop that does not look at what the controller has adopted.
SkipPollLatency ==
  /\ Goto("poll_latency", "boost")
  /\ UNCHANGED <<build, fpu, pwrClock, boost, flash, clockTree, dwt, held, restarts>>

PollLatency ==
  /\ Goto("poll_latency", "boost")
  /\ latency = 4
  /\ UNCHANGED <<build, fpu, pwrClock, boost, flash, clockTree, dwt, held, restarts>>

\* PWR_CR5.R1MODE = 0, which has an effect only on a clocked PWR block.  Then
\* HSION and its poll, HSITRIM and PLLCFGR: HSI is the reset clock and always
\* ready, and the values are constants (PLLCFGR of a running PLL is read-only).
SetBoost ==
  /\ Goto("boost", "pll")
  /\ boost' = (boost \/ pwrClock)
  /\ UNCHANGED <<build, fpu, pwrClock, flash, clockTree, dwt, held, restarts>>

PllOn ==
  /\ Goto("pll", "poll_pll")
  /\ pll' = IF pll = "off" THEN "starting" ELSE pll
  /\ UNCHANGED <<build, fpu, pwrClock, boost, flash, sw, sws, hpre, dwt, held,
                 restarts>>

PollPll ==
  /\ Goto("poll_pll", "switch")
  /\ pll = "ready"
  /\ UNCHANGED <<build, fpu, pwrClock, boost, flash, clockTree, dwt, held, restarts>>

\* One CFGR write: HPRE = /2 at once, SW = PLL as a request.
SwitchSysclk ==
  /\ Goto("switch", "poll_sws")
  /\ sw' = "PLL"
  /\ hpre' = 2
  /\ ClockSet(sws, 2)
  /\ UNCHANGED <<build, fpu, pwrClock, boost, flash, pll, sws, dwt, restarts>>

PollSws ==
  /\ Goto("poll_sws", "start_hold")
  /\ sws = "PLL"
  /\ UNCHANGED <<build, fpu, pwrClock, boost, flash, clockTree, dwt, held, restarts>>

\* A hold that trusts the counter to start at zero.
StartHoldUncleared ==
  /\ Goto("start_hold", "hold")
  /\ counting' = TRUE
  /\ UNCHANGED <<build, fpu, pwrClock, boost, flash, clockTree, cyccnt, held, restarts>>

\* A hold that forgets to enable the counter.
StartHoldUncounted ==
  /\ Goto("start_hold", "hold")
  /\ cyccnt' = 0
  /\ UNCHANGED <<build, fpu, pwrClock, boost, flash, clockTree, counting, held,
                 restarts>>

\* DEMCR.TRCENA, CYCCNT = 0, CYCCNTENA.
StartHold ==
  /\ Goto("start_hold", "hold")
  /\ counting' = TRUE
  /\ cyccnt' = 0
  /\ UNCHANGED <<build, fpu, pwrClock, boost, flash, clockTree, held, restarts>>

PollHold ==
  /\ Goto("hold", "full_speed")
  /\ cyccnt >= HoldCycles
  /\ UNCHANGED <<build, fpu, pwrClock, boost, flash, clockTree, dwt, held, restarts>>

\* HPRE = /1 (PPRE1, PPRE2 = /1).
FullSpeed ==
  /\ Goto("full_speed", "fpu")
  /\ hpre' = 1
  /\ ClockSet(sws, 1)
  /\ UNCHANGED <<build, fpu, pwrClock, boost, flash, pll, sw, sws, dwt, restarts>>

EnableFpu ==
  /\ Goto("fpu", "acr")
  /\ fpu' = TRUE
  /\ UNCHANGED <<build, pwrClock, boost, flash, clockTree, dwt, held, restarts>>

\* An overlay that only sets bits and leaves the reset value's caches on.
OrIntoAcr ==
  /\ latencyReq' = latency
  /\ acr' = [b \in DOMAIN acr |-> acr[b] \/ variant[b]]

\* FLASH_ACR & ~(PRFTEN|ICEN|DCEN) | variant: LATENCY goes back as it was read.
OverlayAcr == latencyReq' = latency /\ acr' = variant

ApplyFlashAcr ==
  /\ Goto("acr", "bench")
  /\ IF platform = "hardware" THEN OverlayAcr ELSE UNCHANGED <<latencyReq, acr>>
  /\ UNCHANGED <<build, fpu, pwrClock, boost, latency, clockTree, dwt, held, restarts>>

\* bench_entry() and what follows: BenchHarness.
Bench == pc = "bench" /\ UNCHANGED vars

Program ==
  \/ ResetHandler \/ EnablePwrClock \/ WriteLatency \/ PollLatency \/ SetBoost
  \/ PllOn \/ PollPll \/ SwitchSysclk \/ PollSws
  \/ StartHold \/ PollHold \/ FullSpeed \/ EnableFpu \/ ApplyFlashAcr
-----------------------------------------------------------------------------
(* The hardware.                                                            *)

FlashAdopts ==
  /\ latency # latencyReq
  /\ latency' = latencyReq
  /\ UNCHANGED <<build, pc, fpu, pwrClock, boost, latencyReq, acr, clockTree, dwt,
                 held, restarts>>

PllLocks ==
  /\ pll = "starting" /\ pll' = "ready"
  /\ UNCHANGED <<build, pc, fpu, pwrClock, boost, flash, sw, sws, hpre, dwt,
                 held, restarts>>

SwitchDone ==
  /\ sws # sw
  /\ sw = "PLL" => pll = "ready"
  /\ sws' = sw
  /\ ClockSet(sw, hpre)
  /\ UNCHANGED <<build, pc, fpu, pwrClock, boost, flash, pll, sw, hpre, dwt,
                 restarts>>

\* One AHB cycle.
Tick ==
  /\ platform = "hardware" /\ pc # "bench"
  /\ held' = Saturate(held + 1)
  /\ cyccnt' = IF counting THEN Saturate(cyccnt + 1) ELSE cyccnt
  /\ <<held', cyccnt'>> # <<held, cyccnt>>
  /\ UNCHANGED <<build, pc, fpu, pwrClock, boost, flash, clockTree, counting, restarts>>

Hardware == FlashAdopts \/ PllLocks \/ SwitchDone \/ Tick
-----------------------------------------------------------------------------
(* Restarts.                                                                *)

\* A fault handler spins; a debugger then runs Reset_Handler again with the
\* peripherals as they are (the re-entry startup.c prepares for).
Reenter ==
  /\ restarts < MaxRestarts
  /\ pc' = "reset"
  /\ restarts' = restarts + 1
  /\ UNCHANGED <<build, fpu, pwrClock, boost, flash, clockTree, dwt, held>>

\* A system reset: every peripheral is back at its reset value; the debug unit
\* keeps its state.
SystemReset ==
  /\ restarts < MaxRestarts
  /\ pc' = "reset"
  /\ restarts' = restarts + 1
  /\ fpu' = FALSE /\ pwrClock' = FALSE /\ boost' = FALSE
  /\ latencyReq' = 0 /\ latency' = 0 /\ acr' = ResetAcr
  /\ pll' = "off" /\ sw' = "HSI" /\ sws' = "HSI" /\ hpre' = 1
  /\ held' = 0
  /\ UNCHANGED <<build, dwt>>

Next == Program \/ Hardware \/ Bench \/ Reenter \/ SystemReset

\* The processor executes, and each piece of hardware does in the end what it
\* was asked to; nothing forces a restart.
Spec ==
  /\ Init /\ [][Next]_vars
  /\ WF_vars(Program)
  /\ WF_vars(FlashAdopts) /\ WF_vars(PllLocks)
  /\ WF_vars(SwitchDone) /\ WF_vars(Tick)
-----------------------------------------------------------------------------
PCs == {"reset", "clocks", "latency", "poll_latency", "boost", "pll", "poll_pll",
        "switch", "poll_sws", "start_hold", "hold", "full_speed",
        "fpu", "acr", "bench"}

TypeOK ==
  /\ platform \in {"hardware", "gem5"}
  /\ variant \in CacheBits
  /\ pc \in PCs
  /\ fpu \in BOOLEAN /\ pwrClock \in BOOLEAN /\ boost \in BOOLEAN
  /\ latencyReq \in 0 .. 4 /\ latency \in 0 .. 4
  /\ acr \in CacheBits
  /\ pll \in {"off", "starting", "ready"}
  /\ sw \in {"HSI", "PLL"} /\ sws \in {"HSI", "PLL"}
  /\ hpre \in {1, 2}
  /\ counting \in BOOLEAN
  /\ cyccnt \in 0 .. CounterCap /\ held \in 0 .. CounterCap
  /\ restarts \in 0 .. MaxRestarts

\* The flash is never read faster than its wait states and the supply range
\* allow, on any path through polls, restarts and the later ACR overlay
\* (main.c: "sets LATENCY=4 BEFORE raising the clock to 170 MHz").
ClockIsSafe ==
  /\ latency >= WaitStates(Ahb(sws, hpre))
  /\ Ahb(sws, hpre) > 150 => boost

\* The AHB clock never rises past 85 MHz in a jump: it does so only after
\* HoldCycles cycles at half speed (system_init.c step 8), whatever the cycle
\* counter held before.
RisesThroughHalfSpeed ==
  [][Ahb(sws', hpre') > 85 /\ Ahb(sws, hpre) <= 85 =>
       Ahb(sws, hpre) = 85 /\ held >= HoldCycles]_vars

\* bench_entry always finds the machine its build describes: 170 MHz, four
\* wait states, the variant's cache bits, the FPU on.
BenchFindsBuild ==
  pc = "bench" =>
    /\ fpu
    /\ platform = "hardware" =>
         /\ Ahb(sws, hpre) = 170
         /\ latency = 4 /\ latencyReq = 4
         /\ acr = variant

\* Every poll ends: the kernel is reached after every (re)start.
BenchIsReached == (pc = "reset") ~> (pc = "bench")
=============================================================================
