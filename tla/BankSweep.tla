------------------------------- MODULE BankSweep -------------------------------
(***************************************************************************)
(* The EntoBench sweep over cache configurations, inline policies and      *)
(* flash bank modes: benchmark/scripts/run_all_benchmarks.sh, run again    *)
(* and again on one build directory, one board and one log directory.      *)
(*                                                                         *)
(* The script is a nest of loops under `set -euo pipefail`: the first      *)
(* command that fails ends it, with the bank mode, the build and the logs  *)
(* as they are.  The option bytes of the board outlive it.                 *)
(***************************************************************************)
EXTENDS Integers, Sequences, Functions

CONSTANTS
  Configs,        \* the names config_json_for knows
  Selections,     \* the sequences RUN_CONFIGS may be, unknown names included
  MaxRuns         \* bound: runs of the script

ASSUME SweepAssumption ==
  /\ Configs \subseteq STRING
  /\ \A s \in Selections : s \in Seq(STRING) /\ s # <<>>
  /\ MaxRuns \in Nat

Banks == {"dual", "single"}
Policies == {"inline", "noinline"}

\* Benchmarks of inner_reps as configured, and LONG_BENCHMARKS with 100.
Kinds == {"standard", "long"}

\* --config, --bank, --policy and --skip-build; a policy mode is the sequence of
\* its policies, which an unknown one has none of.
Options == [configs : Selections,
            mode : Banks \cup {"both", "unknown"},
            policy : {<<"inline">>, <<"noinline">>, <<"inline", "noinline">>, <<>>},
            skip : BOOLEAN]

\* A configuration of the build directory, and so of what is built in it.
Settings(c, policy, low) == [config |-> c, policy |-> policy, lowreps |-> low]
None == Settings("none", "inline", FALSE)

\* A log: <config>[_singlebank][_noinline]/<name>.log
Names == [config : Configs, bank : Banks, policy : Policies, kind : Kinds]
Log(b, image, skip) == [bank |-> b, image |-> image, skip |-> skip]
Absent == Log("none", None, FALSE)
Cut == Log("cut", None, FALSE)
-----------------------------------------------------------------------------
(* The commands *)

SetBank(mode) == [op |-> "bank", mode |-> mode]
RunForBank(mode) == [op |-> "sweep", mode |-> mode]

\* A main that takes the board to be in its default mode.
TrustingMain(o) ==
  CASE o.mode = "dual"   -> <<RunForBank("dual")>>
    [] o.mode = "single" -> <<SetBank("single"), RunForBank("single"), SetBank("dual")>>
    [] o.mode = "both"   -> <<RunForBank("dual"), SetBank("single"), RunForBank("single"), SetBank("dual")>>
    [] OTHER             -> <<>>

Main(o) ==
  CASE o.mode = "dual"   -> <<SetBank("dual"), RunForBank("dual")>>
    [] o.mode = "single" -> <<SetBank("single"), RunForBank("single"), SetBank("dual")>>
    [] o.mode = "both"   -> <<SetBank("dual"), RunForBank("dual"),
                              SetBank("single"), RunForBank("single"), SetBank("dual")>>
    [] OTHER             -> <<>>

Configure(low) == [op |-> "configure", low |-> low]
Build(kind) == [op |-> "build", kind |-> kind]
FlashAndLog(kind) == [op |-> "flash", kind |-> kind]

RunConfig(skip) ==
  IF skip
  THEN <<FlashAndLog("standard"), FlashAndLog("long")>>
  ELSE <<Configure(FALSE), Build("standard"), Build("long"), FlashAndLog("standard"),
         Configure(TRUE), Build("long"), FlashAndLog("long")>>
-----------------------------------------------------------------------------
VARIABLES
  bank,           \* the DBANK option bit of the board
  settings,       \* MICROBENCH_CONFIG_FILE the build directory is configured for
  built,          \* the settings each kind of benchmark was built with
  logs,           \* $LOG_DIR
  item,           \* where main is
  pol,            \* where run_for_bank is in it, which policy
  cfg,            \* where run_all_configs_for_bank_and_policy is, which configuration
  step,           \* where run_config is
  status,         \* "idle", "running", "done" or "failed"
  options,        \* of this run
  runs            \* runs so far

board == <<bank, settings, built>>
at == <<item, pol, cfg, step>>
script == <<at, status, options, runs>>
vars == <<board, logs, script>>

Item == Main(options)[item]
Config == options.configs[cfg]
Policy == options.policy[pol]
Command == RunConfig(options.skip)[step]
Name(kind) == [config |-> Config, bank |-> Item.mode, policy |-> Policy, kind |-> kind]

Begin == item' = 1 /\ pol' = 1 /\ cfg' = 1 /\ step' = 1

Init ==
  /\ bank \in Banks
  /\ settings = None
  /\ built = [k \in Kinds |-> None]
  /\ logs = [n \in Names |-> Absent]
  /\ item = 1 /\ pol = 1 /\ cfg = 1 /\ step = 1
  /\ status = "idle" /\ runs = 0
  /\ options \in {o \in Options : o.mode = "dual" /\ o.policy = <<"inline">> /\ ~o.skip}

\* An unknown bank mode ends the script at once.
Start ==
  /\ status # "running" /\ runs < MaxRuns
  /\ options' \in Options
  /\ Begin
  /\ status' = IF Main(options') = <<>> THEN "failed" ELSE "running"
  /\ runs' = runs + 1
  /\ UNCHANGED <<board, logs>>

\* The sweep of a bank: an unknown policy or configuration is noticed only here.
Sweeping == status = "running" /\ Item.op = "sweep"
Known == options.policy # <<>> /\ Config \in Configs
Now(op) == Sweeping /\ Known /\ Command.op = op

\* The item of main has succeeded; behind the last one the script is done.
NextItem ==
  /\ pol' = 1 /\ cfg' = 1 /\ step' = 1
  /\ \/ /\ item < Len(Main(options)) /\ item' = item + 1
        /\ UNCHANGED status
     \/ /\ item = Len(Main(options)) /\ status' = "done"
        /\ UNCHANGED item
  /\ UNCHANGED <<options, runs>>

\* The command has succeeded: the next one, of the innermost loop that has one.
Succeed ==
  \/ /\ step < Len(RunConfig(options.skip)) /\ step' = step + 1
     /\ UNCHANGED <<item, pol, cfg, status, options, runs>>
  \/ /\ step = Len(RunConfig(options.skip))
     /\ \/ /\ cfg < Len(options.configs) /\ cfg' = cfg + 1 /\ step' = 1
           /\ UNCHANGED <<item, pol, status, options, runs>>
        \/ /\ cfg = Len(options.configs) /\ pol < Len(options.policy)
           /\ pol' = pol + 1 /\ cfg' = 1 /\ step' = 1
           /\ UNCHANGED <<item, status, options, runs>>
        \/ /\ cfg = Len(options.configs) /\ pol = Len(options.policy)
           /\ NextItem

\* It has failed: set -e.
Stop ==
  /\ Begin /\ status' = "failed"
  /\ UNCHANGED <<options, runs>>

\* set_bank_mode; a target that exits with 0 has written and loaded the option.
SetBankMode ==
  /\ status = "running" /\ Item.op = "bank"
  /\ \/ bank' = Item.mode /\ NextItem
     \/ bank' \in {bank, Item.mode} /\ Stop
  /\ UNCHANGED <<settings, built, logs>>

UsageError ==
  /\ Sweeping /\ ~Known
  /\ Stop
  /\ UNCHANGED <<board, logs>>

CMakeConfigure ==
  /\ Now("configure")
  /\ LET new == Settings(Config, Policy, Command.low) IN
       \/ settings' = new /\ Succeed
       \/ settings' \in {settings, new} /\ Stop
  /\ UNCHANGED <<bank, built, logs>>

CMakeBuild ==
  /\ Now("build")
  /\ \/ built' = [built EXCEPT ![Command.kind] = settings] /\ Succeed
     \/ built' \in {built, [built EXCEPT ![Command.kind] = None]} /\ Stop
  /\ UNCHANGED <<bank, settings, logs>>

\* A pipeline whose status is that of its last command.
FlashWithoutPipefail ==
  /\ Now("flash")
  /\ logs' = [logs EXCEPT ![Name(Command.kind)] = Cut]
  /\ Succeed
  /\ UNCHANGED <<bank, settings, built>>

\* make stm32-flash-<target>-semihosted, which may bring the image up to date
\* first.  tee empties the log, and without an average in it the pipeline fails; so it may
\* after a whole one, when another of its commands has failed.
Flash ==
  /\ Now("flash")
  /\ built' \in {built, [built EXCEPT ![Command.kind] = settings]}
  /\ LET n == Name(Command.kind) IN
       \/ /\ built'[n.kind] # None
          /\ logs' = [logs EXCEPT ![n] = Log(bank, built'[n.kind], options.skip)]
          /\ Succeed \/ Stop
       \/ logs' = [logs EXCEPT ![n] = Cut] /\ Stop
  /\ UNCHANGED <<bank, settings>>

\* The user interrupts the script, or the terminal is closed.
Kill ==
  /\ status = "running"
  /\ Stop
  /\ UNCHANGED <<board, logs>>

Next ==
  Start \/ SetBankMode \/ UsageError \/ CMakeConfigure \/ CMakeBuild \/ Flash \/ Kill

Spec == Init /\ [][Next]_vars
-----------------------------------------------------------------------------
\* What a log says is what its path says, after whatever failures, kills and
\* option changes: it was read in the bank mode of its directory, and, when its
\* run has built, from an image of its configuration, policy and repetitions.
LogsAreAsNamed ==
  \A n \in Names : logs[n].bank \in Banks =>
    /\ logs[n].bank = n.bank
    /\ ~logs[n].skip => logs[n].image = Settings(n.config, n.policy, n.kind = "long")

\* A run that ends well leaves the board in dual mode and a whole log for
\* everything it was asked to measure.
DoneMeansMeasured ==
  status = "done" =>
    /\ bank = "dual"
    /\ \A n \in Names :
         /\ n.config \in Range(options.configs) /\ n.policy \in Range(options.policy)
         /\ options.mode \in {n.bank, "both"}
         => logs[n].bank = n.bank /\ logs[n].skip = options.skip
=============================================================================
