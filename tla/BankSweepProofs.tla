---------------------------- MODULE BankSweepProofs ----------------------------
(***************************************************************************)
(* Proofs about BankSweep, for any configurations, any selections of them  *)
(* and any number of runs of the script.                                   *)
(***************************************************************************)
EXTENDS BankSweep, SequenceTheorems, TLAPS

USE SweepAssumption
-----------------------------------------------------------------------------
(* The commands *)

\* What follows from main alone: a bank is set before it is swept, each bank the
\* options name is swept, and the board ends in dual mode.
LEMMA MainIs ==
  ASSUME NEW o \in Options
  PROVE  /\ Len(Main(o)) \in 0 .. 5
         /\ \A i \in 1 .. Len(Main(o)) :
              /\ Main(o)[i].op \in {"bank", "sweep"} /\ Main(o)[i].mode \in Banks
              /\ Main(o)[i].op = "sweep" =>
                   i - 1 \in 1 .. Len(Main(o)) /\ Main(o)[i - 1].mode = Main(o)[i].mode
         /\ Main(o) # <<>> =>
              /\ Len(Main(o)) \in 1 .. 5
              /\ Main(o)[Len(Main(o))].mode = "dual"
         /\ \A b \in Banks : o.mode \in {b, "both"} =>
              \E i \in 1 .. Len(Main(o)) : Main(o)[i].op = "sweep" /\ Main(o)[i].mode = b
<1>1. o.mode \in {"dual", "single", "both", "unknown"}
  BY DEF Options, Banks
<1>2. CASE o.mode = "dual"
  <2>1. Main(o) = <<SetBank("dual"), RunForBank("dual")>>
    BY <1>2 DEF Main
  <2> QED
    BY <1>2, <2>1 DEF SetBank, RunForBank, Banks
<1>3. CASE o.mode = "single"
  <2>1. Main(o) = <<SetBank("single"), RunForBank("single"), SetBank("dual")>>
    BY <1>3 DEF Main
  <2> QED
    BY <1>3, <2>1 DEF SetBank, RunForBank, Banks
<1>4. CASE o.mode = "both"
  <2>1. Main(o) = <<SetBank("dual"), RunForBank("dual"),
                    SetBank("single"), RunForBank("single"), SetBank("dual")>>
    BY <1>4 DEF Main
  <2> QED
    BY <1>4, <2>1 DEF SetBank, RunForBank, Banks
<1>5. CASE o.mode = "unknown"
  <2>1. Main(o) = <<>>
    BY <1>5 DEF Main
  <2> QED
    BY <1>5, <2>1 DEF Banks
<1> QED
  BY <1>1, <1>2, <1>3, <1>4, <1>5

\* Where run_config flashes the benchmarks of a kind.
FlashStep(skip, kind) ==
  IF skip THEN (IF kind = "standard" THEN 1 ELSE 2) ELSE (IF kind = "standard" THEN 4 ELSE 7)

Steps(skip) == IF skip THEN 2 ELSE 7

\* What follows from run_config alone: which command is where.
LEMMA StepsAre ==
  ASSUME NEW skip \in BOOLEAN
  PROVE  /\ Len(RunConfig(skip)) = Steps(skip)
         /\ \A k \in Kinds : /\ RunConfig(skip)[FlashStep(skip, k)] = FlashAndLog(k)
                             /\ FlashStep(skip, k) \in 1 .. Steps(skip)
         /\ skip => \A i \in 1 .. Steps(skip) : RunConfig(skip)[i].op = "flash"
         /\ ~skip => /\ RunConfig(skip)[1] = Configure(FALSE) /\ RunConfig(skip)[5] = Configure(TRUE)
                     /\ RunConfig(skip)[2] = Build("standard")
                     /\ RunConfig(skip)[3] = Build("long") /\ RunConfig(skip)[6] = Build("long")
<1>1. ASSUME skip = TRUE
      PROVE  /\ Len(RunConfig(skip)) = 2
             /\ RunConfig(skip)[1] = FlashAndLog("standard") /\ RunConfig(skip)[2] = FlashAndLog("long")
             /\ Steps(skip) = 2 /\ FlashStep(skip, "standard") = 1 /\ FlashStep(skip, "long") = 2
  <2>1. RunConfig(skip) = <<FlashAndLog("standard"), FlashAndLog("long")>>
    BY <1>1 DEF RunConfig
  <2>2. Steps(skip) = 2 /\ FlashStep(skip, "standard") = 1 /\ FlashStep(skip, "long") = 2
    BY <1>1 DEF Steps, FlashStep
  <2> QED
    BY <2>1, <2>2
<1>2. ASSUME skip = FALSE
      PROVE  /\ Len(RunConfig(skip)) = 7
             /\ RunConfig(skip)[1] = Configure(FALSE) /\ RunConfig(skip)[5] = Configure(TRUE)
             /\ RunConfig(skip)[2] = Build("standard")
             /\ RunConfig(skip)[3] = Build("long") /\ RunConfig(skip)[6] = Build("long")
             /\ RunConfig(skip)[4] = FlashAndLog("standard") /\ RunConfig(skip)[7] = FlashAndLog("long")
             /\ Steps(skip) = 7 /\ FlashStep(skip, "standard") = 4 /\ FlashStep(skip, "long") = 7
  <2>1. RunConfig(skip) = <<Configure(FALSE), Build("standard"), Build("long"), FlashAndLog("standard"),
                            Configure(TRUE), Build("long"), FlashAndLog("long")>>
    BY <1>2 DEF RunConfig
  <2>2. Steps(skip) = 7 /\ FlashStep(skip, "standard") = 4 /\ FlashStep(skip, "long") = 7
    BY <1>2 DEF Steps, FlashStep
  <2> QED
    BY <2>1, <2>2
<1>3. ASSUME NEW k \in Kinds
      PROVE  /\ RunConfig(skip)[FlashStep(skip, k)] = FlashAndLog(k)
             /\ FlashStep(skip, k) \in 1 .. Steps(skip)
  <2>1. k = "standard" \/ k = "long"
    BY DEF Kinds
  <2>2. CASE skip = TRUE
    <3>1. FlashStep(skip, k) \in 1 .. Steps(skip)
      <4>1. /\ FlashStep(skip, k) = 1 \/ FlashStep(skip, k) = 2
            /\ Steps(skip) = 2
        BY <1>1, <2>1, <2>2, Zenon
      <4> QED
        BY <4>1
    <3>2. RunConfig(skip)[FlashStep(skip, k)] = FlashAndLog(k)
      BY <1>1, <2>1, <2>2, Zenon
    <3> QED
      BY <3>1, <3>2
  <2>3. CASE skip = FALSE
    <3>1. FlashStep(skip, k) \in 1 .. Steps(skip)
      <4>1. /\ FlashStep(skip, k) = 4 \/ FlashStep(skip, k) = 7
            /\ Steps(skip) = 7
        BY <1>2, <2>1, <2>3, Zenon
      <4> QED
        BY <4>1
    <3>2. RunConfig(skip)[FlashStep(skip, k)] = FlashAndLog(k)
      BY <1>2, <2>1, <2>3, Zenon
    <3> QED
      BY <3>1, <3>2
  <2> QED
    BY <2>2, <2>3
<1>4. ASSUME skip = TRUE, NEW i \in 1 .. Steps(skip)
      PROVE  RunConfig(skip)[i].op = "flash"
  <2>1. i = 1 \/ i = 2
    <3>1. i \in 1 .. 2
      BY <1>1, <1>4
    <3> QED
      BY <3>1
  <2>2. FlashAndLog("standard").op = "flash" /\ FlashAndLog("long").op = "flash"
    BY DEF FlashAndLog
  <2> QED
    BY <2>1, <2>2, <1>1, <1>4
<1>5. Len(RunConfig(skip)) = Steps(skip)
  BY <1>1, <1>2
<1> QED
  BY <1>2, <1>3, <1>4, <1>5
-----------------------------------------------------------------------------
(* The inductive invariant *)

Images == [config : Configs \cup {"none"}, policy : Policies, lowreps : BOOLEAN]
Logs == [bank : Banks \cup {"none", "cut"}, image : Images, skip : BOOLEAN]

Type ==
  /\ bank \in Banks
  /\ settings \in Images /\ built \in [Kinds -> Images]
  /\ logs \in [Names -> Logs]
  /\ status \in {"idle", "running", "done", "failed"}
  /\ options \in Options
  /\ item \in Nat /\ pol \in Nat \ {0} /\ cfg \in Nat \ {0} /\ step \in Nat \ {0}
  /\ runs \in Nat

\* Where a running script may be: in an item of main, and inside of it only if
\* it is a sweep.
At ==
  status = "running" =>
    /\ item \in 1 .. Len(Main(options))
    /\ pol <= Len(options.policy) \/ pol = 1
    /\ cfg <= Len(options.configs) /\ step <= Steps(options.skip)
    /\ Item.op = "bank" => pol = 1 /\ cfg = 1 /\ step = 1

\* A sweep finds the board in its mode, and so does the end of main in dual.
BankInv ==
  /\ status = "running" /\ Item.op = "sweep" => bank = Item.mode
  /\ status = "done" => bank = "dual"

\* Inside run_config, from the first cmake on, the build directory is the one of
\* this configuration, and the images about to be flashed are of it.
BuildInv ==
  status = "running" /\ Item.op = "sweep" /\ ~options.skip =>
    /\ step \in {2, 3, 4, 5} => settings = Settings(Config, Policy, FALSE)
    /\ step \in {3, 4} => built["standard"] = Settings(Config, Policy, FALSE)
    /\ step \in {6, 7} => settings = Settings(Config, Policy, TRUE)
    /\ step = 7 => built["long"] = Settings(Config, Policy, TRUE)

\* A flash_and_log of this run: item i of main, policy p, configuration c.
Slot(i, p, c, k) == [config |-> options.configs[c], bank |-> Main(options)[i].mode,
                     policy |-> options.policy[p], kind |-> k]

\* It is behind the script: an earlier one in the order of the nested loops.
Behind(i, p, c, k) ==
  \/ status = "done"
  \/ /\ status = "running"
     /\ \/ i < item
        \/ i = item /\ p < pol
        \/ i = item /\ p = pol /\ c < cfg
        \/ i = item /\ p = pol /\ c = cfg /\ FlashStep(options.skip, k) < step

Whole(n) == logs[n].bank = n.bank /\ logs[n].skip = options.skip

\* What is behind the script is on disk: its log is whole and of a run like this.
MeasuredInv ==
  \A i \in 1 .. Len(Main(options)), p \in 1 .. Len(options.policy),
     c \in 1 .. Len(options.configs), k \in Kinds :
    Main(options)[i].op = "sweep" /\ Behind(i, p, c, k) =>
      Slot(i, p, c, k) \in Names /\ Whole(Slot(i, p, c, k))

IInv == Type /\ At /\ BankInv /\ BuildInv /\ MeasuredInv /\ LogsAreAsNamed
-----------------------------------------------------------------------------
(* Where the script is *)

\* What is known of a command of run_config about to run.
LEMMA SweepIs ==
  ASSUME IInv, Sweeping, Known
  PROVE  /\ item \in 1 .. Len(Main(options)) /\ pol \in 1 .. Len(options.policy)
         /\ cfg \in 1 .. Len(options.configs) /\ step \in 1 .. Steps(options.skip)
         /\ Item.mode \in Banks /\ Config \in Configs /\ Policy \in Policies
         /\ options.skip \in BOOLEAN /\ Len(RunConfig(options.skip)) = Steps(options.skip)
         /\ \A k \in Kinds : Name(k) \in Names /\ Name(k) = Slot(item, pol, cfg, k)
<1> USE DEF IInv
<1>1. /\ options \in Options /\ options.skip \in BOOLEAN /\ options.configs \in Seq(STRING)
      /\ options.policy \in {<<"inline">>, <<"noinline">>, <<"inline", "noinline">>}
  BY DEF Type, Options, Known
<1>2. item \in 1 .. Len(Main(options)) /\ Item.mode \in Banks
  BY <1>1, MainIs DEF At, Sweeping, Item
<1>3. /\ Len(options.policy) \in Nat \ {0}
      /\ \A p \in 1 .. Len(options.policy) : options.policy[p] \in Policies
  <2>1. CASE options.policy = <<"inline">>
    BY <2>1 DEF Policies
  <2>2. CASE options.policy = <<"noinline">>
    BY <2>2 DEF Policies
  <2>3. CASE options.policy = <<"inline", "noinline">>
    <3>1. \A p \in 1 .. Len(options.policy) : p = 1 \/ p = 2
      BY <2>3
    <3> QED
      BY <2>3, <3>1 DEF Policies
  <2> QED
    BY <1>1, <2>1, <2>2, <2>3
<1>4. pol \in 1 .. Len(options.policy)
  BY <1>3 DEF Type, At, Sweeping
<1>5. cfg \in 1 .. Len(options.configs)
  BY <1>1, LenProperties DEF Type, At, Sweeping
<1>6. step \in 1 .. Steps(options.skip)
  BY <1>1 DEF Type, At, Sweeping, Steps
<1>7. Policy \in Policies /\ Config \in Configs
  BY <1>3, <1>4 DEF Policy, Known
<1>8. ASSUME NEW k \in Kinds
      PROVE  Name(k) \in Names /\ Name(k) = Slot(item, pol, cfg, k)
  BY <1>2, <1>7 DEF Name, Names, Slot, Item, Policy, Config
<1>9. Len(RunConfig(options.skip)) = Steps(options.skip)
  BY <1>1, StepsAre
<1> QED
  BY <1>1, <1>2, <1>4, <1>5, <1>6, <1>7, <1>8, <1>9

\* Where NextItem goes.
LEMMA NextItemIs ==
  ASSUME IInv, status = "running", NextItem
  PROVE  /\ item' \in Nat /\ pol' = 1 /\ cfg' = 1 /\ step' = 1 /\ options' = options /\ runs' = runs
         /\ status' \in {"running", "done"}
         /\ At'
         /\ status' = "running" => item' = item + 1
         /\ status' = "running" /\ Item'.op = "sweep" => Item'.mode = Item.mode
         /\ status' = "done" => item = Len(Main(options)) /\ Item.mode = "dual"
<1> USE DEF IInv
<1>1. /\ options \in Options /\ options' = options /\ runs' = runs /\ pol' = 1 /\ cfg' = 1 /\ step' = 1
      /\ item \in 1 .. Len(Main(options)) /\ item \in Nat
  BY DEF Type, NextItem, At
<1>2. Len(options.configs) \in Nat \ {0} /\ options.skip \in BOOLEAN
  BY <1>1, LenProperties DEF Options
<1>3. CASE item < Len(Main(options)) /\ item' = item + 1 /\ status' = status
  <2>1. item' \in 1 .. Len(Main(options)) /\ item' - 1 = item
    BY <1>1, <1>3, MainIs
  <2>2. At'
    BY <1>1, <1>2, <2>1 DEF At, Steps
  <2>3. Item'.op = "sweep" => Item'.mode = Item.mode
    BY <1>1, <2>1, MainIs DEF Item
  <2> QED
    BY <1>1, <1>3, <2>1, <2>2, <2>3
<1>4. CASE item = Len(Main(options)) /\ status' = "done" /\ item' = item
  <2>1. Main(options) # <<>>
    BY <1>1, <1>4
  <2>2. Item.mode = "dual"
    BY <1>1, <1>4, <2>1, MainIs DEF Item
  <2> QED
    BY <1>1, <1>4, <2>2 DEF At
<1> QED
  BY <1>3, <1>4 DEF NextItem

\* Where Succeed goes: to the next command of the same run_config, or to the
\* first of another; and only the command itself comes to be behind the script.
LEMMA SucceedIs ==
  ASSUME IInv, Sweeping, Known, Succeed
  PROVE  /\ item' \in Nat /\ pol' \in Nat \ {0} /\ cfg' \in Nat \ {0} /\ step' \in Nat \ {0}
         /\ options' = options /\ runs' = runs
         /\ status' \in {"running", "done"}
         /\ At'
         /\ status' = "done" => Item.mode = "dual"
         /\ status' = "running" /\ Item'.op = "sweep" => Item'.mode = Item.mode
         /\ \/ step' = 1
            \/ UNCHANGED <<item, pol, cfg>> /\ step' = step + 1 /\ step < Steps(options.skip)
         /\ \A i \in 1 .. Len(Main(options)), p \in 1 .. Len(options.policy),
               c \in 1 .. Len(options.configs), k \in Kinds :
              Behind(i, p, c, k)' =>
                \/ Behind(i, p, c, k)
                \/ i = item /\ p = pol /\ c = cfg /\ FlashStep(options.skip, k) = step
<1> DEFINE Now0(i, p, c, k) == i = item /\ p = pol /\ c = cfg /\ FlashStep(options.skip, k) = step
           Here == \A i \in 1 .. Len(Main(options)), p \in 1 .. Len(options.policy),
                      c \in 1 .. Len(options.configs), k \in Kinds :
                     Behind(i, p, c, k)' => Behind(i, p, c, k) \/ Now0(i, p, c, k)
<1>0. /\ item \in Nat /\ pol \in Nat \ {0} /\ cfg \in Nat \ {0} /\ step \in Nat \ {0}
      /\ status = "running"
      /\ options.skip \in BOOLEAN /\ Len(options.configs) \in Nat /\ Len(options.policy) \in Nat
      /\ Len(Main(options)) \in Nat
      /\ \A k \in Kinds : FlashStep(options.skip, k) \in 1 .. Steps(options.skip)
      /\ Steps(options.skip) \in {2, 7}
  <2>1. options \in Options /\ options.configs \in Seq(STRING)
    BY DEF IInv, Type, Options
  <2>5. options.skip \in BOOLEAN
    BY <2>1 DEF Options
  <2>6. \A k \in Kinds : FlashStep(options.skip, k) \in 1 .. Steps(options.skip)
    BY <2>5, StepsAre
  <2> QED
    BY <2>5, <2>6 DEF IInv, Type, Sweeping, Steps
<1>1. CASE /\ step < Len(RunConfig(options.skip)) /\ step' = step + 1
           /\ UNCHANGED <<item, pol, cfg, status, options, runs>>
  <2>1. step < Steps(options.skip)
    BY <1>1, SweepIs
  <2>2. At'
    BY <1>0, <1>1, SweepIs DEF At, Item, Sweeping
  <2>3. Here
    BY <1>0, <1>1 DEF Behind
  <2> QED
    BY <1>0, <1>1, <2>1, <2>2, <2>3 DEF Item
<1>2. CASE /\ step = Len(RunConfig(options.skip)) /\ cfg < Len(options.configs) /\ cfg' = cfg + 1
           /\ step' = 1 /\ UNCHANGED <<item, pol, status, options, runs>>
  <2>1. step = Steps(options.skip)
    BY <1>2, SweepIs
  <2>2. At'
    BY <1>0, <1>2, SweepIs DEF At, Item, Sweeping
  <2>3. Here
    BY <1>0, <1>2, <2>1 DEF Behind
  <2> QED
    BY <1>0, <1>2, <2>2, <2>3 DEF Item, Sweeping
<1>3. CASE /\ step = Len(RunConfig(options.skip))
           /\ cfg = Len(options.configs) /\ pol < Len(options.policy) /\ pol' = pol + 1
           /\ cfg' = 1 /\ step' = 1 /\ UNCHANGED <<item, status, options, runs>>
  <2>1. step = Steps(options.skip)
    BY <1>3, SweepIs
  <2>2. At'
    BY <1>0, <1>3, SweepIs DEF At, Item, Sweeping
  <2>3. Here
    BY <1>0, <1>3, <2>1 DEF Behind
  <2> QED
    BY <1>0, <1>3, <2>2, <2>3 DEF Item, Sweeping
<1>4. CASE /\ step = Len(RunConfig(options.skip))
           /\ cfg = Len(options.configs) /\ pol = Len(options.policy) /\ NextItem
  <2>1. step = Steps(options.skip)
    BY <1>4, SweepIs
  <2>2. /\ item' \in Nat /\ pol' = 1 /\ cfg' = 1 /\ step' = 1 /\ options' = options /\ runs' = runs
        /\ status' \in {"running", "done"} /\ At'
        /\ status' = "running" => item' = item + 1
        /\ status' = "running" /\ Item'.op = "sweep" => Item'.mode = Item.mode
        /\ status' = "done" => item = Len(Main(options)) /\ Item.mode = "dual"
    BY <1>4, NextItemIs DEF Sweeping
  <2>3. Here
    BY <1>0, <1>4, <2>1, <2>2 DEF Behind
  <2> QED
    BY <2>2, <2>3
<1> QED
  BY <1>1, <1>2, <1>3, <1>4 DEF Succeed

\* Which command is where, read the other way round.
LEMMA CommandIs ==
  ASSUME IInv, Sweeping, Known
  PROVE  /\ Command.op = "configure" =>
              /\ options.skip = FALSE
              /\ \/ step = 1 /\ Command = Configure(FALSE)
                 \/ step = 5 /\ Command = Configure(TRUE)
         /\ Command.op = "build" =>
              /\ options.skip = FALSE
              /\ \/ step = 2 /\ Command.kind = "standard"
                 \/ step \in {3, 6} /\ Command.kind = "long"
         /\ Command.op = "flash" =>
              /\ Command.kind \in Kinds /\ step = FlashStep(options.skip, Command.kind)
              /\ \A k \in Kinds : step = FlashStep(options.skip, k) => k = Command.kind
         /\ Command.op # "flash" => \A k \in Kinds : step # FlashStep(options.skip, k)
<1>1. options.skip \in BOOLEAN /\ step \in 1 .. Steps(options.skip)
  BY SweepIs
<1>2. \A k : /\ FlashAndLog(k).op = "flash" /\ FlashAndLog(k).kind = k
             /\ Build(k).op = "build" /\ Build(k).kind = k
             /\ Configure(k).op = "configure" /\ Configure(k).low = k
  BY DEF FlashAndLog, Build, Configure
<1>3. \A k \in Kinds : step = FlashStep(options.skip, k) => Command = FlashAndLog(k)
  BY <1>1, StepsAre DEF Command
<1>4. CASE options.skip = TRUE
  <2>1. Steps(options.skip) = 2 /\ FlashStep(options.skip, "standard") = 1
                                /\ FlashStep(options.skip, "long") = 2
    BY <1>4 DEF Steps, FlashStep
  <2>2. step = 1 \/ step = 2
    BY <1>1, <2>1
  <2>3. \/ step = FlashStep(options.skip, "standard") /\ Command = FlashAndLog("standard")
        \/ step = FlashStep(options.skip, "long") /\ Command = FlashAndLog("long")
    BY <1>3, <2>1, <2>2 DEF Kinds
  <2> QED
    BY <1>2, <1>3, <2>3 DEF Kinds
<1>5. CASE options.skip = FALSE
  <2>1. Steps(options.skip) = 7 /\ FlashStep(options.skip, "standard") = 4
                                /\ FlashStep(options.skip, "long") = 7
    BY <1>5 DEF Steps, FlashStep
  <2>2. step = 1 \/ step = 2 \/ step = 3 \/ step = 4 \/ step = 5 \/ step = 6 \/ step = 7
    BY <1>1, <2>1
  <2>3. /\ step = 1 => Command = Configure(FALSE)
        /\ step = 2 => Command = Build("standard")
        /\ step = 3 => Command = Build("long")
        /\ step = 4 => Command = FlashAndLog("standard")
        /\ step = 5 => Command = Configure(TRUE)
        /\ step = 6 => Command = Build("long")
        /\ step = 7 => Command = FlashAndLog("long")
    BY <1>5, <2>1, StepsAre DEF Command, Kinds
  <2> HIDE DEF Command
  <2>4. CASE step = 1
    <3>1. Command.op = "configure" /\ Command = Configure(FALSE)
      BY <1>2, <2>3, <2>4, Zenon
    <3>2. \A k \in Kinds : step # FlashStep(options.skip, k)
      BY <2>1, <2>4 DEF Kinds
    <3> QED
      BY <1>5, <2>4, <3>1, <3>2, Zenon
  <2>5. CASE step = 2
    BY <1>2, <1>5, <2>1, <2>3, <2>5 DEF Kinds
  <2>6. CASE step = 3
    BY <1>2, <1>5, <2>1, <2>3, <2>6 DEF Kinds
  <2>7. CASE step = 4
    BY <1>2, <1>5, <2>1, <2>3, <2>7 DEF Kinds
  <2>8. CASE step = 5
    <3>1. Command.op = "configure" /\ Command = Configure(TRUE)
      BY <1>2, <2>3, <2>8, Zenon
    <3>2. \A k \in Kinds : step # FlashStep(options.skip, k)
      BY <2>1, <2>8 DEF Kinds
    <3> QED
      BY <1>5, <2>8, <3>1, <3>2, Zenon
  <2>9. CASE step = 6
    BY <1>2, <1>5, <2>1, <2>3, <2>9 DEF Kinds
  <2>10. CASE step = 7
    BY <1>2, <1>5, <2>1, <2>3, <2>10 DEF Kinds
  <2> QED
    BY <2>2, <2>4, <2>5, <2>6, <2>7, <2>8, <2>9, <2>10
<1> QED
  BY <1>1, <1>4, <1>5
-----------------------------------------------------------------------------
(* The steps *)

LEMMA SettingsIs ==
  /\ None \in Images
  /\ \A c \in Configs, p \in Policies, low \in BOOLEAN : Settings(c, p, low) \in Images
<1>1. \A c \in Configs \cup {"none"}, p \in Policies, low \in BOOLEAN : Settings(c, p, low) \in Images
  BY Zenon DEF Settings, Images
<1>2. "inline" \in Policies
  BY DEF Policies
<1>3. FALSE \in BOOLEAN
  BY Zenon
<1> QED
  BY <1>1, <1>2, <1>3 DEF None

\* One log is replaced by one that is as it is named, or cut.
LEMMA Logged ==
  ASSUME IInv, NEW n \in Names, NEW new \in Logs, logs' = [logs EXCEPT ![n] = new],
         new.bank \in Banks => /\ new.bank = n.bank
                               /\ ~new.skip => new.image = Settings(n.config, n.policy, n.kind = "long")
  PROVE  logs' \in [Names -> Logs] /\ LogsAreAsNamed'
<1>1. logs \in [Names -> Logs]
  BY DEF IInv, Type
<1>2. logs' \in [Names -> Logs]
  BY <1>1
<1>3. ASSUME NEW m \in Names, logs'[m].bank \in Banks
      PROVE  /\ logs'[m].bank = m.bank
             /\ ~logs'[m].skip => logs'[m].image = Settings(m.config, m.policy, m.kind = "long")
  <2>1. CASE m = n
    BY <1>1, <1>3, <2>1
  <2>2. CASE m # n
    BY <1>1, <1>3, <2>2 DEF IInv, LogsAreAsNamed
  <2> QED
    BY <2>1, <2>2
<1> QED
  BY <1>2, <1>3 DEF LogsAreAsNamed

\* The script ends: all that is left to show is what is on disk and on the board.
LEMMA Stopped ==
  ASSUME IInv, Stop, bank' \in Banks, settings' \in Images, built' \in [Kinds -> Images],
         logs' \in [Names -> Logs], LogsAreAsNamed'
  PROVE  IInv'
<1>1. status' = "failed" /\ options' = options /\ runs' = runs
  BY DEF Stop
<1>2. Type'
  BY <1>1 DEF IInv, Type, Stop, Begin
<1>3. At' /\ BankInv' /\ BuildInv' /\ MeasuredInv'
  BY <1>1 DEF At, BankInv, BuildInv, MeasuredInv, Behind
<1> QED
  BY <1>2, <1>3 DEF IInv

\* A step that leaves the disk alone keeps what is known of it, wherever it goes
\* in the loops without passing a flash_and_log.
LEMMA MeasuredKept ==
  ASSUME IInv, logs' = logs, options' = options,
         \A i \in 1 .. Len(Main(options)), p \in 1 .. Len(options.policy),
            c \in 1 .. Len(options.configs), k \in Kinds :
           Main(options)[i].op = "sweep" /\ Behind(i, p, c, k)' => Behind(i, p, c, k)
  PROVE  MeasuredInv'
BY DEF IInv, MeasuredInv, Slot, Whole

LEMMA NamesKept ==
  ASSUME IInv, logs' = logs
  PROVE  LogsAreAsNamed' /\ logs' \in [Names -> Logs]
BY DEF IInv, Type, LogsAreAsNamed

LEMMA InitOK ==
  ASSUME Init
  PROVE  IInv
<1>1. status = "idle" /\ options \in Options /\ logs = [n \in Names |-> Absent]
  BY DEF Init
<1>2. Absent \in Logs /\ Absent.bank \notin Banks
  BY SettingsIs DEF Absent, Log, Logs, Banks
<1>3. Type
  BY <1>1, <1>2, SettingsIs DEF Init, Type
<1>4. LogsAreAsNamed
  BY <1>1, <1>2 DEF LogsAreAsNamed
<1> QED
  BY <1>1, <1>3, <1>4 DEF IInv, At, BankInv, BuildInv, MeasuredInv, Behind

\* The first item of main is no sweep: the board's mode is not taken on trust.
LEMMA StartOK ==
  ASSUME IInv, Start
  PROVE  IInv'
<1>1. /\ options' \in Options /\ item' = 1 /\ pol' = 1 /\ cfg' = 1 /\ step' = 1
      /\ status' = (IF Main(options') = <<>> THEN "failed" ELSE "running")
      /\ runs' = runs + 1 /\ UNCHANGED <<bank, settings, built, logs>>
  BY DEF Start, Begin, board
<1>2. Type'
  BY <1>1 DEF IInv, Type
<1>3. LogsAreAsNamed'
  BY <1>1, NamesKept
<1>4. CASE Main(options') = <<>>
  BY <1>1, <1>2, <1>3, <1>4 DEF IInv, At, BankInv, BuildInv, MeasuredInv
<1>5. CASE Main(options') # <<>>
  <2>1. status' = "running" /\ 1 \in 1 .. Len(Main(options')) /\ Main(options')[1].op # "sweep"
    BY <1>1, <1>5, MainIs
  <2>2. Item'.op # "sweep"
    BY <1>1, <2>1 DEF Item
  <2>3. Len(options'.configs) \in Nat \ {0} /\ options'.skip \in BOOLEAN
    BY <1>1, LenProperties DEF Options
  <2>4. At'
    BY <1>1, <2>1, <2>3 DEF At, Steps
  <2>5. BankInv' /\ BuildInv'
    BY <2>1, <2>2 DEF BankInv, BuildInv
  <2>6. ASSUME NEW i \in 1 .. Len(Main(options')), NEW p \in 1 .. Len(options'.policy),
               NEW c \in 1 .. Len(options'.configs), NEW k \in Kinds, Main(options')[i].op = "sweep"
        PROVE  ~Behind(i, p, c, k)'
    <3>1. i # 1 /\ i \in Nat \ {0}
      BY <1>1, <2>1, <2>6, MainIs
    <3> QED
      BY <1>1, <2>1, <3>1 DEF Behind
  <2>7. MeasuredInv'
    BY <2>6 DEF MeasuredInv
  <2> QED
    BY <1>2, <1>3, <2>4, <2>5, <2>7 DEF IInv
<1> QED
  BY <1>4, <1>5

LEMMA SetBankModeOK ==
  ASSUME IInv, SetBankMode
  PROVE  IInv'
<1>1. /\ status = "running" /\ Item.op = "bank" /\ Item.mode \in Banks
      /\ UNCHANGED <<settings, built, logs>>
  BY MainIs DEF SetBankMode, IInv, Type, At, Item
<1>2. LogsAreAsNamed' /\ logs' \in [Names -> Logs]
  BY <1>1, NamesKept
<1>3. CASE bank' \in {bank, Item.mode} /\ Stop
  BY <1>1, <1>2, <1>3, Stopped DEF IInv, Type
<1>4. CASE bank' = Item.mode /\ NextItem
  <2>1. /\ item' \in Nat /\ pol' = 1 /\ cfg' = 1 /\ step' = 1 /\ options' = options /\ runs' = runs
        /\ status' \in {"running", "done"}
        /\ At'
        /\ status' = "running" => item' = item + 1
        /\ status' = "running" /\ Item'.op = "sweep" => Item'.mode = Item.mode
        /\ status' = "done" => item = Len(Main(options)) /\ Item.mode = "dual"
    BY <1>1, <1>4, NextItemIs
  <2>2. Type'
    BY <1>1, <1>2, <1>4, <2>1 DEF IInv, Type
  <2>3. BankInv'
    BY <1>4, <2>1 DEF BankInv
  <2>4. BuildInv'
    BY <2>1 DEF BuildInv
  <2>5. ASSUME NEW i \in 1 .. Len(Main(options)), NEW p \in 1 .. Len(options.policy),
               NEW c \in 1 .. Len(options.configs), NEW k \in Kinds,
               Main(options)[i].op = "sweep", Behind(i, p, c, k)'
        PROVE  Behind(i, p, c, k)
    <3>1. i # item /\ item \in Nat /\ i \in Nat /\ Len(Main(options)) \in Nat
      BY <1>1, <2>5, MainIs DEF Item, IInv, Type
    <3>2. FlashStep(options.skip, k) \in Nat \ {0}
      BY StepsAre DEF IInv, Type, Options, FlashStep
    <3> QED
      BY <1>1, <2>1, <2>5, <3>1, <3>2 DEF Behind
  <2>6. MeasuredInv'
    BY <1>1, <2>1, <2>5, MeasuredKept
  <2> QED
    BY <1>2, <2>1, <2>2, <2>3, <2>4, <2>6 DEF IInv
<1> QED
  BY <1>3, <1>4 DEF SetBankMode

LEMMA StoppedQuietly ==
  ASSUME IInv, Stop, UNCHANGED <<board, logs>>
  PROVE  IInv'
BY NamesKept, Stopped DEF IInv, Type, board

\* A command of run_config other than flash_and_log has succeeded.
LEMMA BuiltOK ==
  ASSUME IInv, Sweeping, Known, Command.op # "flash", Succeed,
         settings' \in Images, built' \in [Kinds -> Images], UNCHANGED <<bank, logs>>,
         BuildInv'
  PROVE  IInv'
<1>1. /\ item' \in Nat /\ pol' \in Nat \ {0} /\ cfg' \in Nat \ {0} /\ step' \in Nat \ {0}
      /\ options' = options /\ runs' = runs /\ status' \in {"running", "done"} /\ At'
      /\ status' = "done" => Item.mode = "dual"
      /\ status' = "running" /\ Item'.op = "sweep" => Item'.mode = Item.mode
  BY SucceedIs
<1>2. bank = Item.mode
  BY DEF IInv, BankInv, Sweeping
<1>3. BankInv'
  BY <1>1, <1>2 DEF BankInv
<1>4. Type'
  BY <1>1, NamesKept DEF IInv, Type
<1>5. \A k \in Kinds : step # FlashStep(options.skip, k)
  BY CommandIs
<1>6. MeasuredInv'
  <2>1. \A i \in 1 .. Len(Main(options)), p \in 1 .. Len(options.policy),
           c \in 1 .. Len(options.configs), k \in Kinds : Behind(i, p, c, k)' => Behind(i, p, c, k)
    BY <1>5, SucceedIs
  <2> QED
    BY <1>1, <2>1, MeasuredKept
<1> QED
  BY <1>1, <1>3, <1>4, <1>6, NamesKept DEF IInv

\* What is known of the build directory.
LEMMA BuildIs ==
  ASSUME IInv, Sweeping, options.skip = FALSE
  PROVE  /\ step \in {2, 3, 4, 5} => settings = Settings(Config, Policy, FALSE)
         /\ step \in {3, 4} => built["standard"] = Settings(Config, Policy, FALSE)
         /\ step \in {6, 7} => settings = Settings(Config, Policy, TRUE)
         /\ step = 7 => built["long"] = Settings(Config, Policy, TRUE)
BY Zenon DEF IInv, BuildInv, Sweeping

\* What has to be, behind the command, for it to be known at the next one.
LEMMA BuildNext ==
  ASSUME IInv, Sweeping, Known, Succeed,
         NEW standard, standard = Settings(Config, Policy, FALSE),
         NEW low, low = Settings(Config, Policy, TRUE),
         step \in {1, 2, 3, 4} => settings' = standard,
         step \in {2, 3} => built'["standard"] = standard,
         step \in {5, 6} => settings' = low,
         step = 6 => built'["long"] = low
  PROVE  BuildInv'
<1>1. step \in Nat \ {0}
  BY DEF IInv, Type
<1>2. CASE step' = 1
  BY <1>2 DEF BuildInv
<1>3. CASE UNCHANGED <<item, pol, cfg>> /\ step' = step + 1
  <2>1. Settings(Config, Policy, FALSE)' = standard /\ Settings(Config, Policy, TRUE)' = low
    BY <1>3, SucceedIs, Zenon DEF Config, Policy
  <2>2. /\ step' \in {2, 3, 4, 5} => settings' = standard
        /\ step' \in {3, 4} => built'["standard"] = standard
        /\ step' \in {6, 7} => settings' = low
        /\ step' = 7 => built'["long"] = low
    <3>1. /\ step' \in {2, 3, 4, 5} => step \in {1, 2, 3, 4}
          /\ step' \in {3, 4} => step \in {2, 3}
          /\ step' \in {6, 7} => step \in {5, 6}
          /\ step' = 7 => step = 6
      BY <1>1, <1>3
    <3> QED
      BY <3>1, Zenon
  <2> QED
    BY <2>1, <2>2, Zenon DEF BuildInv
<1> QED
  BY <1>2, <1>3, SucceedIs

LEMMA CMakeConfigureOK ==
  ASSUME IInv, CMakeConfigure
  PROVE  IInv'
<1>1. /\ Sweeping /\ Known /\ Command.op = "configure" /\ UNCHANGED <<bank, built, logs>>
      /\ options.skip = FALSE
      /\ \/ step = 1 /\ Command = Configure(FALSE)
         \/ step = 5 /\ Command = Configure(TRUE)
  BY CommandIs DEF CMakeConfigure, Now
<1> DEFINE new == Settings(Config, Policy, Command.low)
<1>2. /\ step = 1 => new = Settings(Config, Policy, FALSE)
      /\ step = 5 => new = Settings(Config, Policy, TRUE)
  <2>1. step = 1 => Command = Configure(FALSE)
    BY <1>1
  <2>2. step = 5 => Command = Configure(TRUE)
    BY <1>1
  <2>3. Configure(FALSE).low = FALSE /\ Configure(TRUE).low = TRUE
    BY Zenon DEF Configure
  <2> QED
    BY <2>1, <2>2, <2>3, Zenon
<1>3. new \in Images
  <2>1. Config \in Configs /\ Policy \in Policies /\ TRUE \in BOOLEAN /\ FALSE \in BOOLEAN
    BY <1>1, SweepIs, Zenon
  <2> QED
    BY <1>1, <1>2, <2>1, SettingsIs, Zenon
<1> HIDE DEF new
<1>4. CASE settings' \in {settings, new} /\ Stop
  BY <1>1, <1>3, <1>4, NamesKept, Stopped DEF IInv, Type
<1>5. CASE settings' = new /\ Succeed
  <2>1. step = 1 \/ step = 5
    BY <1>1
  <2>2. /\ step \in {1, 2, 3, 4} => settings' = Settings(Config, Policy, FALSE)
        /\ step \notin {2, 3} /\ step # 6
        /\ step \in {5, 6} => settings' = Settings(Config, Policy, TRUE)
    <3>1. /\ step \in {1, 2, 3, 4} => step = 1
          /\ step \in {5, 6} => step = 5
          /\ step \notin {2, 3} /\ step # 6
      BY <2>1
    <3> QED
      BY <1>2, <1>5, <3>1, Zenon
  <2>3. BuildInv'
    BY <1>1, <1>5, <2>2, BuildNext, Zenon
  <2> QED
    BY <1>1, <1>3, <1>5, <2>3, BuiltOK DEF IInv, Type
<1> QED
  BY <1>1, <1>4, <1>5 DEF CMakeConfigure, new

LEMMA CMakeBuildOK ==
  ASSUME IInv, CMakeBuild
  PROVE  IInv'
<1>1. /\ Sweeping /\ Known /\ Command.op = "build" /\ UNCHANGED <<bank, settings, logs>>
      /\ options.skip = FALSE
      /\ \/ step = 2 /\ Command.kind = "standard"
         \/ step \in {3, 6} /\ Command.kind = "long"
  BY CommandIs DEF CMakeBuild, Now
<1>2. settings \in Images /\ built \in [Kinds -> Images]
  BY DEF IInv, Type
<1>3. CASE built' \in {built, [built EXCEPT ![Command.kind] = None]} /\ Stop
  <2>1. built' \in [Kinds -> Images]
    BY <1>2, <1>3, SettingsIs
  <2> QED
    BY <1>1, <1>3, <2>1, NamesKept, Stopped DEF IInv, Type
<1>4. CASE built' = [built EXCEPT ![Command.kind] = settings] /\ Succeed
  <2>2. built' \in [Kinds -> Images]
    BY <1>2, <1>4
  <2>3. /\ step = 2 => built'["standard"] = settings
        /\ step = 3 => built'["standard"] = built["standard"]
        /\ step = 6 => built'["long"] = settings
    BY <1>1, <1>2, <1>4 DEF Kinds
  <2>4. BuildInv'
    <3>1. /\ step \in {1, 2, 3, 4} => step \in {2, 3}
          /\ step \in {5, 6} => step = 6
      BY <1>1
    <3>2. /\ step \in {1, 2, 3, 4} => settings' = Settings(Config, Policy, FALSE)
          /\ step \in {2, 3} => built'["standard"] = Settings(Config, Policy, FALSE)
          /\ step \in {5, 6} => settings' = Settings(Config, Policy, TRUE)
          /\ step = 6 => built'["long"] = Settings(Config, Policy, TRUE)
      BY <1>1, <1>4, <2>3, <3>1, BuildIs
    <3> QED
      BY <1>1, <1>4, <3>2, BuildNext, Zenon
  <2> QED
    BY <1>1, <1>2, <1>4, <2>2, <2>4, BuiltOK
<1> QED
  BY <1>3, <1>4 DEF CMakeBuild

LEMMA FlashOK ==
  ASSUME IInv, Flash
  PROVE  IInv'
<1> DEFINE k == Command.kind
           n == Name(k)
           whole == Log(bank, built'[k], options.skip)
<1>1. /\ Sweeping /\ Known /\ UNCHANGED <<bank, settings>>
      /\ k \in Kinds /\ step = FlashStep(options.skip, k)
      /\ \A l \in Kinds : step = FlashStep(options.skip, l) => l = k
      /\ n \in Names /\ n = Slot(item, pol, cfg, k) /\ bank \in Banks /\ bank = n.bank /\ n.kind = k
  <2>1. Sweeping /\ Known /\ UNCHANGED <<bank, settings>> /\ Command.op = "flash"
    BY DEF Flash, Now
  <2>2. bank \in Banks /\ bank = Item.mode
    BY <2>1 DEF IInv, Type, BankInv, Sweeping
  <2>3. n.bank = Item.mode /\ n.kind = k
    BY DEF Name
  <2> QED
    BY <2>1, <2>2, <2>3, CommandIs, SweepIs
<1>2. built' \in {built, [built EXCEPT ![k] = settings]} /\ built' \in [Kinds -> Images]
  <2>1. built' \in {built, [built EXCEPT ![k] = settings]}
    BY DEF Flash
  <2> QED
    BY <2>1 DEF IInv, Type
<1>3. whole \in Logs /\ Cut \in Logs /\ Cut.bank \notin Banks
  <2>1. built'[k] \in Images /\ None \in Images /\ options.skip \in BOOLEAN /\ FALSE \in BOOLEAN
    BY <1>1, <1>2, SettingsIs, SweepIs
  <2>2. \A b \in Banks \cup {"none", "cut"}, image \in Images, skip \in BOOLEAN :
          Log(b, image, skip) \in Logs
    BY Zenon DEF Log, Logs
  <2>3. bank \in Banks \cup {"none", "cut"} /\ "cut" \in Banks \cup {"none", "cut"}
    BY <1>1
  <2>4. Cut.bank = "cut"
    BY Zenon DEF Cut, Log
  <2> QED
    BY <2>1, <2>2, <2>3, <2>4 DEF Cut, Banks
<1>4. CASE logs' = [logs EXCEPT ![n] = Cut] /\ Stop
  <2>1. logs' \in [Names -> Logs] /\ LogsAreAsNamed'
    BY <1>1, <1>3, <1>4, Logged
  <2> QED
    BY <1>1, <1>2, <1>4, <2>1, Stopped DEF IInv, Type
\* What is flashed is the image that the log's name says, when this run has built it.
<1>b. options.skip = FALSE => built'[k] = Settings(n.config, n.policy, n.kind = "long")
  <2>1. options.skip = FALSE => built'[k] = Settings(Config, Policy, k = "long")
    <3>1. CASE options.skip = FALSE /\ k = "standard"
      <4>1. step = 4
        BY <1>1, <3>1 DEF FlashStep
      <4>2. settings = Settings(Config, Policy, FALSE) /\ built[k] = Settings(Config, Policy, FALSE)
        BY <1>1, <3>1, <4>1, BuildIs
      <4>3. built'[k] = Settings(Config, Policy, FALSE)
        BY <1>1, <1>2, <4>2 DEF IInv, Type
      <4>4. (k = "long") = FALSE
        BY <3>1
      <4> QED
        BY <4>3, <4>4, Zenon
    <3>2. CASE options.skip = FALSE /\ k = "long"
      <4>1. step = 7
        BY <1>1, <3>2 DEF FlashStep
      <4>2. settings = Settings(Config, Policy, TRUE) /\ built[k] = Settings(Config, Policy, TRUE)
        BY <1>1, <3>2, <4>1, BuildIs
      <4>3. built'[k] = Settings(Config, Policy, TRUE)
        BY <1>1, <1>2, <4>2 DEF IInv, Type
      <4>4. (k = "long") = TRUE
        BY <3>2
      <4> QED
        BY <4>3, <4>4, Zenon
    <3> QED
      BY <1>1, <3>1, <3>2 DEF Kinds
  <2>2. n.config = Config /\ n.policy = Policy /\ n.kind = k
    BY DEF Name
  <2> QED
    BY <2>1, <2>2, Zenon
<1>a. CASE logs' = [logs EXCEPT ![n] = whole] /\ Stop
  <2>1. whole.bank = bank /\ whole.image = built'[k] /\ whole.skip = options.skip
    BY Zenon DEF Log
  <2>2. ~whole.skip => whole.image = Settings(n.config, n.policy, n.kind = "long")
    BY <1>1, <1>b, <2>1, SweepIs, Zenon
  <2>3. logs' \in [Names -> Logs] /\ LogsAreAsNamed'
    BY <1>1, <1>3, <1>a, <2>1, <2>2, Logged
  <2> QED
    BY <1>1, <1>2, <1>a, <2>3, Stopped DEF IInv, Type
<1>5. CASE logs' = [logs EXCEPT ![n] = whole] /\ Succeed
  <2>1. /\ item' \in Nat /\ pol' \in Nat \ {0} /\ cfg' \in Nat \ {0} /\ step' \in Nat \ {0}
        /\ options' = options /\ runs' = runs /\ status' \in {"running", "done"} /\ At'
        /\ status' = "done" => Item.mode = "dual"
        /\ status' = "running" /\ Item'.op = "sweep" => Item'.mode = Item.mode
    BY <1>1, <1>5, SucceedIs
  <2>2. whole.bank = bank /\ whole.image = built'[k] /\ whole.skip = options.skip
    BY Zenon DEF Log
  <2>4. ~whole.skip => whole.image = Settings(n.config, n.policy, n.kind = "long")
    BY <1>1, <1>b, <2>2, SweepIs, Zenon
  <2>5. logs' \in [Names -> Logs] /\ LogsAreAsNamed'
    BY <1>1, <1>3, <1>5, <2>2, <2>4, Logged
  <2>6. BuildInv'
    <3>1. ASSUME options.skip = FALSE
          PROVE  BuildInv'
      <4>1. step = 4 \/ step = 7
        BY <1>1, <3>1 DEF FlashStep, Kinds
      <4>2. step \in {1, 2, 3, 4} => settings' = Settings(Config, Policy, FALSE)
        <5>1. /\ step \in {1, 2, 3, 4} => step \in {2, 3, 4, 5}
              /\ settings' = settings
          BY <1>1, <4>1
        <5> QED
          BY <1>1, <3>1, <5>1, BuildIs, Zenon
      <4>3. step \notin {2, 3, 5, 6}
        BY <4>1
      <4> QED
        BY <1>1, <1>5, <4>2, <4>3, BuildNext, Zenon
    <3>2. options'.skip = options.skip /\ options.skip \in BOOLEAN
      BY <1>1, <2>1, SweepIs
    <3> QED
      BY <3>1, <3>2 DEF BuildInv
  <2>7. BankInv'
    BY <1>1, <2>1 DEF BankInv, IInv, Sweeping
  <2>8. ASSUME NEW i \in 1 .. Len(Main(options)), NEW p \in 1 .. Len(options.policy),
               NEW c \in 1 .. Len(options.configs), NEW l \in Kinds,
               Main(options)[i].op = "sweep", Behind(i, p, c, l)'
        PROVE  /\ Slot(i, p, c, l) \in Names
               /\ logs'[Slot(i, p, c, l)].bank = Slot(i, p, c, l).bank
               /\ logs'[Slot(i, p, c, l)].skip = options.skip
    <3> DEFINE m == Slot(i, p, c, l)
    <3>1. CASE i = item /\ p = pol /\ c = cfg /\ FlashStep(options.skip, l) = step
      <4>1. m = n
        BY <1>1, <3>1
      <4>2. logs'[n] = whole
        BY <1>1, <1>5 DEF IInv, Type
      <4> HIDE DEF m, n, whole
      <4>3. m \in Names /\ logs'[m].bank = m.bank /\ logs'[m].skip = options.skip
        BY <1>1, <2>2, <4>1, <4>2
      <4> QED
        BY <4>3 DEF m
    <3>2. CASE Behind(i, p, c, l)
      <4>1. m \in Names /\ logs[m].bank = m.bank /\ logs[m].skip = options.skip
        BY <2>8, <3>2 DEF IInv, MeasuredInv, Whole
      <4>2. /\ m = n => logs'[m] = whole
            /\ m # n => logs'[m] = logs[m]
        BY <1>1, <1>5, <4>1 DEF IInv, Type
      <4> HIDE DEF m, n, whole
      <4>3. m \in Names /\ logs'[m].bank = m.bank /\ logs'[m].skip = options.skip
        BY <1>1, <2>2, <4>1, <4>2
      <4> QED
        BY <4>3 DEF m
    <3> QED
      BY <1>1, <1>5, <2>8, <3>1, <3>2, SucceedIs
  <2>9. MeasuredInv'
    <3>1. \A i, p, c, l : Slot(i, p, c, l)' = Slot(i, p, c, l)
      BY <2>1 DEF Slot
    <3> QED
      BY <2>1, <2>8, <3>1 DEF MeasuredInv, Whole
  <2>10. Type'
    BY <1>1, <1>2, <2>1, <2>5 DEF IInv, Type
  <2> QED
    BY <2>1, <2>5, <2>6, <2>7, <2>9, <2>10 DEF IInv
<1>6. \/ logs' = [logs EXCEPT ![n] = whole] /\ (Succeed \/ Stop)
      \/ logs' = [logs EXCEPT ![n] = Cut] /\ Stop
  BY <1>1 DEF Flash
<1> QED
  BY <1>a, <1>4, <1>5, <1>6

LEMMA StepOK ==
  ASSUME IInv, [Next]_vars
  PROVE  IInv'
<1>1. CASE UNCHANGED vars
  <2>1. UNCHANGED <<bank, settings, built, logs, item, pol, cfg, step, status, options, runs>>
    BY <1>1 DEF vars, board, script, at
  <2>2. Type' /\ LogsAreAsNamed'
    BY <2>1 DEF IInv, Type, LogsAreAsNamed
  <2>3. At' /\ BankInv'
    BY <2>1 DEF IInv, At, BankInv, Item
  <2>4. BuildInv'
    BY <2>1, Zenon DEF IInv, BuildInv, Item, Config, Policy
  <2>5. MeasuredInv'
    BY <2>1, MeasuredKept DEF Behind
  <2> QED
    BY <2>2, <2>3, <2>4, <2>5 DEF IInv
<1>2. CASE Next
  BY <1>2, StartOK, SetBankModeOK, CMakeConfigureOK, CMakeBuildOK, FlashOK, StoppedQuietly
     DEF Next, UsageError, Kill
<1> QED
  BY <1>1, <1>2
-----------------------------------------------------------------------------
(* The theorems *)

\* Whatever the options, the failures and the interruptions, the script is where
\* the invariant says, with the board, the build directory and the logs that are
\* behind it as run_all_benchmarks.sh takes them to be.
THEOREM Invariance == Spec => []IInv
<1>1. Init => IInv
  BY InitOK
<1>2. IInv /\ [Next]_vars => IInv'
  BY StepOK
<1> QED
  BY <1>1, <1>2, PTL DEF Spec

\* For any set of configurations and any selection of them, a log was read in
\* the bank mode of its directory, and from an image of its name when the run
\* that wrote it has built.
THEOREM LogsAreNamed == Spec => []LogsAreAsNamed
<1>1. IInv => LogsAreAsNamed
  BY DEF IInv
<1> QED
  BY <1>1, Invariance, PTL

\* A run that gets to its end has left the board in dual mode, and a whole log
\* for every configuration, bank, policy and kind its options name.
THEOREM DoneIsMeasured == Spec => []DoneMeansMeasured
<1>1. ASSUME IInv, status = "done"
      PROVE  DoneMeansMeasured
  <2>1. options \in Options /\ options.configs \in Seq(STRING)
    BY <1>1 DEF IInv, Type, Options
  <2>2. ASSUME NEW n \in Names, n.config \in Range(options.configs),
               n.policy \in Range(options.policy), options.mode \in {n.bank, "both"}
        PROVE  logs[n].bank = n.bank /\ logs[n].skip = options.skip
    <3>1. PICK c \in 1 .. Len(options.configs) : options.configs[c] = n.config
      BY <2>1, <2>2, LenProperties DEF Range
    <3>2. PICK p \in 1 .. Len(options.policy) : options.policy[p] = n.policy
      BY <2>1, <2>2 DEF Range, Options
    <3>3. PICK i \in 1 .. Len(Main(options)) : Main(options)[i].op = "sweep" /\ Main(options)[i].mode = n.bank
      BY <2>1, <2>2, MainIs DEF Names
    <3>4. Slot(i, p, c, n.kind) = n /\ n.kind \in Kinds
      BY <3>1, <3>2, <3>3 DEF Slot, Names
    <3> QED
      BY <1>1, <3>3, <3>4 DEF IInv, MeasuredInv, Behind, Whole
  <2> QED
    BY <1>1, <2>2 DEF DoneMeansMeasured, IInv, BankInv
<1>2. IInv => DoneMeansMeasured
  BY <1>1 DEF DoneMeansMeasured
<1> QED
  BY <1>2, Invariance, PTL
=============================================================================
