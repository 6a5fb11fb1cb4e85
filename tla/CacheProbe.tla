------------------------------ MODULE CacheProbe ------------------------------
(***************************************************************************)
(* The RP2350 cache probe: microbenchmark/rp2350/cache_probe/main.c and    *)
(* probe_kernels.S on the board, capture.py on the host.                   *)
(*                                                                         *)
(* Eight measurements per repetition read known streams of flash lines     *)
(* through the XIP cache, with the wrappers in SRAM.  The cache is two-way *)
(* and set-associative; a fill takes an empty way and evicts any line when *)
(* there is none.  Between measurements main() itself runs from flash, and *)
(* between repetitions so do printf and the USB interrupt handler.         *)
(***************************************************************************)
EXTENDS Integers, Sequences, FiniteSets

CONSTANTS
  Reps,           \* repetitions (20 in the code)
  Rept,           \* .rept of the streams (100 in the code)
  MissCost,       \* cycles a miss adds to an access
  ClashCost,      \* cycles a read adds that waits for the bank of the code
  Wrap            \* DWT_CYCCNT counts modulo Wrap (2^32)

\* No stream takes as long as the counter needs to wrap.
ASSUME ProbeAssumption ==
  /\ Reps \in Nat \ {0} /\ Rept \in Nat \ {0}
  /\ MissCost \in Nat \ {0} /\ ClashCost \in Nat \ {0}
  /\ Wrap \in Nat /\ Wrap > 3 * Rept * (1 + MissCost + ClashCost)

Sets == 0 .. Rept

\* A line of flash and the set it is cached in.
Line(n, s) == [name |-> n, set |-> s]

\* xip_data_a, b and c, 8 KiB apart: one set.
A == Line("a", 0)
B == Line("b", 0)
C == Line("c", 0)

\* The streams' lines: consecutive for xip_add32 and xip_chain_load, one for
\* xip_load; xip_bank_data has a line in either bank, wherever the linker puts it.
AddCode(i) == Line("add", i)
ChainCode(i) == Line("chain", i)
LoadCode == Line("load", 1)
BankData(bank) == Line(<<"data0", "data1">>[bank + 1], 1)

\* An access: the line, and whether it waits for the bank the code comes from.
Access(l, clash) == [line |-> l, clash |-> clash]
Free(l) == Access(l, FALSE)

\* probe_kernels.S.  An add has four bytes, and a movs of two is before the first: the
\* i-th one ends in line i \div 2 of the eight-byte lines.  The chain's code is always
\* in bank 0.
Add32 == [i \in 1 .. Rept |-> Free(AddCode(i \div 2))]
Conflict2 == [i \in 1 .. 2 * Rept |-> Free(<<A, B>>[1 + ((i - 1) % 2)])]
Conflict3 == [i \in 1 .. 3 * Rept |-> Free(<<A, B, C>>[1 + ((i - 1) % 3)])]
Mixed(code, bank) ==
  [i \in 1 .. 2 * Rept |->
     IF i % 2 = 1 THEN Free(LoadCode) ELSE Access(BankData(bank), bank = code)]
Chain(bank) ==
  [i \in 1 .. 2 * Rept |->
     IF i % 2 = 1 THEN Free(ChainCode((i + 1) \div 2)) ELSE Access(BankData(bank), bank = 0)]

\* The counts of a row, in the order main() takes them.
Fields == <<"cold_add32", "warm_add32", "conflict2", "conflict3",
            "mixed_same", "mixed_opposite", "chain_same", "chain_opposite">>

\* What each measures; code is bit 3 of xip_load's address.
Stream(f, code) ==
  CASE f \in {"cold_add32", "warm_add32"} -> Add32
    [] f = "conflict2"                    -> Conflict2
    [] f = "conflict3"                    -> Conflict3
    [] f = "mixed_same"                   -> Mixed(code, code)
    [] f = "mixed_opposite"               -> Mixed(code, 1 - code)
    [] f = "chain_same"                   -> Chain(0)
    [] f = "chain_opposite"               -> Chain(1)

\* The measure_* functions: which empty the cache first, and how often the stream
\* runs before the timed pass.
Invalidates(f) == f # "warm_add32"
WarmUps(f) == IF f = "cold_add32" THEN 0 ELSE 2

VARIABLES
  codeBank,       \* where the linker has put xip_load
  cache,          \* the lines held, per set
  cyccnt,         \* DWT_CYCCNT
  irq,            \* interrupts are enabled
  pc,             \* "between" repetitions, "main" between measurements, "pass"
  field,          \* the measurement at hand, an index of Fields
  pass,           \* passes left before the timed one; 0: this is the timed one
  pos,            \* position in the stream
  start,          \* the counter when the timed pass began
  row,            \* counts of this repetition so far
  rep,            \* the repetition at hand; rows 0 .. rep - 1 are printed
  \* capture.py
  read,           \* rows read to the end of the line
  tail,           \* of the next one: "none", "part" (a field is missing), "digits"
  captured        \* "reading", "refused" or "saved"

chip == <<cache, cyccnt>>
measuring == <<field, pass, pos, start, row>>
host == <<read, tail, captured>>
vars == <<codeBank, chip, irq, pc, measuring, rep, host>>

Field == Fields[field]
-----------------------------------------------------------------------------
(* The XIP cache and the cycle counter *)

Held(l) == l \in cache[l.set]

\* The line is in the cache afterwards.
Fetch(l) ==
  LET ways == cache[l.set] IN
  IF Held(l) THEN UNCHANGED cache
  ELSE \E victims \in {v \in SUBSET ways : Cardinality(v) = IF Cardinality(ways) < 2 THEN 0 ELSE 1} :
         cache' = [cache EXCEPT ![l.set] = (ways \ victims) \cup {l}]

Cost(a) ==
  1 + (IF Held(a.line) THEN 0 ELSE MissCost) + (IF a.clash THEN ClashCost ELSE 0)

After(n) == (cyccnt + n) % Wrap

\* Other code in flash runs: a fetch and its time.
Run(name) ==
  \E s \in Sets : LET l == Line(name, s) IN
    Fetch(l) /\ cyccnt' = After(Cost(Free(l)))
-----------------------------------------------------------------------------
(* main.c *)

Init ==
  /\ codeBank \in {0, 1}
  /\ cache = [s \in Sets |-> {}]
  /\ cyccnt = 0 /\ start = 0
  /\ irq = TRUE /\ pc = "between"
  /\ field = 1 /\ pass = 0 /\ pos = 1 /\ row = <<>> /\ rep = 0
  /\ read = 0 /\ tail = "none" /\ captured = "reading"

Running == rep < Reps

\* An interrupt that may come at any point of the repetition.
BeginRepUnmasked ==
  /\ pc = "between" /\ Running
  /\ pc' = "main"
  /\ cyccnt' \in 0 .. Wrap - 1
  /\ UNCHANGED <<codeBank, cache, irq, measuring, rep, host>>

\* save_and_disable_interrupts; the printing before has taken any time.
BeginRep ==
  /\ pc = "between" /\ Running
  /\ pc' = "main" /\ irq' = FALSE
  /\ cyccnt' \in 0 .. Wrap - 1
  /\ UNCHANGED <<codeBank, cache, measuring, rep, host>>

\* main() itself, and between repetitions printf, run from flash.
MainRuns ==
  /\ pc \in {"main", "between"} /\ Running
  /\ Run("main")
  /\ UNCHANGED <<codeBank, irq, pc, measuring, rep, host>>

UsbInterrupt ==
  /\ irq /\ Running
  /\ Run("usb")
  /\ UNCHANGED <<codeBank, irq, pc, measuring, rep, host>>

\* A measure_* function is entered.
Call ==
  /\ pc = "main" /\ field <= Len(Fields)
  /\ pc' = "pass" /\ pos' = 1 /\ pass' = WarmUps(Field)
  /\ cache' = IF Invalidates(Field) THEN [s \in Sets |-> {}] ELSE cache
  /\ start' = cyccnt
  /\ UNCHANGED <<codeBank, cyccnt, irq, field, row, rep, host>>

\* The next access of the stream; behind the last one the pass is over, and the
\* counter is read before the timed pass and after it.
Step ==
  /\ pc = "pass"
  /\ LET s == Stream(Field, codeBank)
         now == After(Cost(s[pos]))
     IN /\ Fetch(s[pos].line)
        /\ cyccnt' = now
        /\ \/ /\ pos < Len(s)
              /\ pos' = pos + 1
              /\ UNCHANGED <<pc, pass, start, field, row>>
           \/ /\ pos = Len(s) /\ pass > 0
              /\ pos' = 1 /\ pass' = pass - 1 /\ start' = now
              /\ UNCHANGED <<pc, field, row>>
           \/ /\ pos = Len(s) /\ pass = 0
              /\ row' = Append(row, (now - start) % Wrap)
              /\ field' = field + 1 /\ pc' = "main"
              /\ UNCHANGED <<pass, pos, start>>
  /\ UNCHANGED <<codeBank, irq, rep, host>>

\* restore_interrupts and printf; the locals of the repetition end with it.
EndRep ==
  /\ pc = "main" /\ field > Len(Fields)
  /\ pc' = "between" /\ irq' = TRUE
  /\ rep' = rep + 1
  /\ field' = 1 /\ row' = <<>> /\ start' = 0
  /\ UNCHANGED <<codeBank, chip, pass, pos, host>>

\* for (;;) tight_loop_contents();
TightLoop ==
  /\ ~Running /\ pc = "between"
  /\ UNCHANGED vars
-----------------------------------------------------------------------------
(* capture.py; the header has been read before the first row *)

\* RECORD matches a row from its first character behind the number on.
Matches == read + (IF tail = "none" THEN 0 ELSE 1)

\* os.read: the text ends in the middle of a row or behind one.
Read ==
  /\ captured = "reading" /\ Matches < Reps
  /\ \E r \in read .. rep, t \in {"none", "part", "digits"} :
       /\ t # "none" => r < rep
       /\ <<r, t>> # <<read, tail>>
       /\ r = read => <<tail, t>> \in {<<"none", "part">>, <<"none", "digits">>, <<"part", "digits">>}
       /\ read' = r /\ tail' = t
  /\ UNCHANGED <<codeBank, chip, irq, pc, measuring, rep, captured>>

\* A capture that leaves it to the reader of the table to find the gap.
AnyFields(i) == i <= read \/ tail # "none"

\* Rows with every field, whatever follows the last digit.
Complete(i) == i <= read \/ tail = "digits"

\* The loop breaks; the rows are in order and complete, or nothing is saved.
Finish ==
  /\ captured = "reading" /\ Matches >= Reps
  /\ captured' = IF \A i \in 1 .. Matches : Complete(i) THEN "saved" ELSE "refused"
  /\ UNCHANGED <<codeBank, chip, irq, pc, measuring, rep, read, tail>>

Timeout ==
  /\ captured = "reading"
  /\ captured' = "refused"
  /\ UNCHANGED <<codeBank, chip, irq, pc, measuring, rep, read, tail>>

Next ==
  \/ BeginRep \/ MainRuns \/ UsbInterrupt \/ Call \/ Step \/ EndRep \/ TightLoop
  \/ Read \/ Finish \/ Timeout

Spec == Init /\ [][Next]_vars
-----------------------------------------------------------------------------
Expected(f) ==
  CASE f = "cold_add32"                        -> Rept + (Rept \div 2 + 1) * MissCost
    [] f = "warm_add32"                        -> Rept
    [] f \in {"mixed_same", "chain_same"}      -> Rept * (2 + ClashCost)
    [] f \in {"conflict2", "mixed_opposite", "chain_opposite"} -> 2 * Rept

\* Every count of a repetition is of the effect in its name and of nothing else,
\* whatever ran from flash before it and wherever the linker has put xip_load: the
\* cold stream misses on every line, the warm ones and the two conflicting lines
\* on none, three conflicting lines at least once in every round whichever line
\* the cache evicts, and only the "same" streams wait for a bank.
EachCountIsOfItsEffect ==
  \A n \in 1 .. Len(row) :
    IF Fields[n] = "conflict3"
    THEN row[n] >= Rept * (3 + MissCost) /\ row[n] <= 3 * Rept * (1 + MissCost)
    ELSE row[n] = Expected(Fields[n])

\* A table that is written has the rows of the whole run in their order, every
\* field of each, and all digits of every count but the very last of the file,
\* whatever pieces the text came in.
SavedIsTheRun ==
  captured = "saved" => rep = Reps /\ read >= Reps - 1 /\ (read = Reps \/ tail = "digits")
=============================================================================
