------------------------------ MODULE UsbCapture ------------------------------
(***************************************************************************)
(* Capturing one RP2350 run over USB serial: capture_available_port,       *)
(* find_serial_port and capture of microbenchmark/rp2350/run_benchmark.py  *)
(* against a board that re-enumerates, prints once and may be reset.       *)
(*                                                                         *)
(* A run's output is a sequence of pieces, cut where it matters whether a  *)
(* read ends there: the header up to a digit of its reps=, its rest, and   *)
(* per repetition line the text before the cycle count, its first digits   *)
(* and its last digits with the line end.                                  *)
(***************************************************************************)
EXTENDS Integers, FiniteSets

CONSTANTS
  Reps,           \* INNER_REPS of the firmware (two digits in the code: 10)
  MaxRuns         \* bound: runs of the firmware during one capture

ASSUME CaptureAssumption == Reps \in Nat \ {0, 1} /\ MaxRuns \in Nat \ {0}

VARIABLES
  \* the board
  port,           \* the /dev entry: "none", "stale" (dead, not yet removed), "cdc"
  run,            \* which run of the firmware this is
  printed,        \* pieces this run has printed; it starts at the first open
  connected,      \* a client has the port of this run open
  \* the host
  pc,
  requested,      \* --port was given: no search
  expired,        \* time.monotonic() >= deadline
  lastError,      \* last_error is set
  opened,         \* the run whose port fd refers to, 0 for none
  data,           \* the bytearray: pieces read, as <<run, position>>
  header,         \* header_values' reps field, 0 for none
  reps,           \* the dictionary: per repetition the run and the digits seen
  \* history
  delivered       \* the last piece of this run that has left the board

board == <<port, run, printed, connected>>
host == <<requested, lastError, opened, data, header, reps>>
vars == <<board, pc, host, expired, delivered>>

Indices == 0 .. (Reps - 1)
HeaderCut == 1
HeaderEnd == 2
FirstDigits(i) == HeaderEnd + 3 * i + 2
LineEnd(i) == FirstDigits(i) + 1
Pieces == 1 .. LineEnd(Reps - 1)
Runs == 1 .. MaxRuns

Values == [run : Runs, digits : {"some", "all"}]
\* What "10" reads as when its last digit has not arrived.
CutCount == 1
-----------------------------------------------------------------------------
(* Regular expressions over everything read so far.                         *)

HeaderSeen(text, last) == \E r \in Runs : {<<r, HeaderCut>>, <<r, last>>} \subseteq text

\* header_values read from the group before: the clock in MHz.
ClockOf(text) == IF HeaderSeen(text, HeaderCut) THEN 150 ELSE 0

\* HEADER_RE.search: the announced count, with the digits that have arrived.
HeaderIn(text) ==
  CASE HeaderSeen(text, HeaderEnd)  -> Reps
    [] ~HeaderSeen(text, HeaderCut) -> 0
    [] OTHER                        -> CutCount

\* REP_RE needs the start of the line and at least one digit of the count.
LineOf(text, i, r) == {<<r, FirstDigits(i) - 1>>, <<r, FirstDigits(i)>>} \subseteq text

\* finditer goes through the text in order: of two runs the later one stays.
RepsIn(text) ==
  [i \in {j \in Indices : \E r \in Runs : LineOf(text, j, r)} |->
     LET r == CHOOSE q \in Runs :
                LineOf(text, i, q) /\ \A o \in Runs : LineOf(text, i, o) => o <= q
     IN [run |-> r, digits |-> IF <<r, LineEnd(i)>> \in text THEN "all" ELSE "some"]]

\* A dictionary that keeps the value it saw first.
KeepFirst(old, new) ==
  [i \in DOMAIN old \cup DOMAIN new |-> IF i \in DOMAIN old THEN old[i] ELSE new[i]]

\* reps[index] = cycles: the later match replaces the earlier one.
Update(old, new) ==
  [i \in DOMAIN old \cup DOMAIN new |-> IF i \in DOMAIN new THEN new[i] ELSE old[i]]

\* An off-by-one in the test for completeness.
AlmostComplete(count, found) == count # 0 /\ Cardinality(DOMAIN found) + 1 >= count

\* header_values is not None and len(reps) >= header_values[6]
Complete(count, found) == count # 0 /\ Cardinality(DOMAIN found) >= count
-----------------------------------------------------------------------------
NoReps == [i \in {} |-> {}]

Init ==
  /\ port \in {"none", "stale"}
  /\ run = 1 /\ printed = 0 /\ connected = FALSE
  /\ pc = "find" /\ requested \in BOOLEAN
  /\ expired = FALSE /\ lastError = FALSE
  /\ opened = 0 /\ data = {} /\ header = 0 /\ reps = NoReps
  /\ delivered = 0

\* A search that never gives up.
SearchOnly ==
  /\ pc = "find"
  /\ requested \/ port # "none"
  /\ pc' = "open"
  /\ UNCHANGED <<board, host, expired, delivered>>

\* requested_port or find_serial_port(deadline), whose time-out is not caught.
FindPort ==
  /\ pc = "find"
  /\ \/ (requested \/ (port # "none" /\ ~expired)) /\ pc' = "open"
     \/ ~requested /\ expired /\ pc' = "raised"
  /\ UNCHANGED <<board, host, expired, delivered>>

\* A retry that goes on with the bytes and repetitions of the attempt before.
KeepBytes == UNCHANGED <<data, header, reps>>

\* data = bytearray(); reps = {}; header_values = None
FreshBytes == data' = {} /\ header' = 0 /\ reps' = NoReps

\* os.open and configure_tty.  What was on its way to an earlier client of the same run may be
\* lost.  An OSError of os.open is caught; the termios.error of configure_tty is not one, and
\* ends the capture.
OpenPort ==
  /\ pc = "open"
  /\ FreshBytes
  /\ \/ /\ port = "cdc"
        /\ opened' = run /\ connected' = TRUE
        /\ delivered' \in delivered .. printed
        /\ pc' = "reading"
        /\ UNCHANGED lastError
     \/ /\ lastError' = TRUE
        /\ pc' = "retry"
        /\ UNCHANGED <<opened, connected, delivered>>
     \/ /\ port # "none"
        /\ pc' = "raised"
        /\ UNCHANGED <<lastError, opened, connected, delivered>>
  /\ UNCHANGED <<port, run, printed, requested, expired>>

\* One pass of the loop in capture with a chunk: read, match, return.
ReadChunk ==
  /\ pc = "reading" /\ ~expired
  /\ opened = run /\ port = "cdc"
  /\ \E upto \in (delivered + 1) .. printed :
       /\ delivered' = upto
       /\ data' = data \cup {<<run, p>> : p \in (delivered + 1) .. upto}
  /\ header' = HeaderIn(data')
  /\ reps' = Update(reps, RepsIn(data'))
  /\ pc' = IF Complete(header', reps') THEN "returned" ELSE "reading"
  /\ connected' = (pc' = "reading")
  /\ opened' = IF pc' = "reading" THEN opened ELSE 0
  /\ UNCHANGED <<port, run, printed, requested, expired, lastError>>

\* An OSError of the read: the descriptor is closed, the caller tries again.
ReadError ==
  /\ pc = "reading" /\ ~expired
  /\ pc' = "retry"
  /\ lastError' = TRUE
  /\ opened' = 0
  /\ connected' = (connected /\ opened # run)
  /\ UNCHANGED <<port, run, printed, requested, expired, data, header, reps, delivered>>

\* The deadline inside capture: a RuntimeError, which is not caught either.
ReadTimeout ==
  /\ pc = "reading" /\ expired
  /\ pc' = "raised"
  /\ opened' = 0
  /\ connected' = (connected /\ opened # run)
  /\ UNCHANGED <<port, run, printed, requested, expired, lastError, data, header, reps,
                 delivered>>

\* while time.monotonic() < deadline of capture_available_port.
Retry ==
  /\ pc = "retry"
  /\ pc' = IF expired THEN "raised" ELSE "find"
  /\ UNCHANGED <<board, host, expired, delivered>>

Done == pc \in {"returned", "raised"} /\ UNCHANGED vars

Host == FindPort \/ OpenPort \/ ReadChunk \/ ReadError \/ ReadTimeout \/ Retry
-----------------------------------------------------------------------------
(* The board, the operating system's device entries, and time.             *)

\* The firmware measures and prints once a client has connected; what it
\* prints without one is lost.
EmitPiece ==
  /\ printed < LineEnd(Reps - 1)
  /\ connected \/ printed > 0
  /\ printed' = printed + 1
  /\ delivered' = IF connected THEN delivered ELSE printed'
  /\ UNCHANGED <<port, run, connected, pc, host, expired>>

Enumerate ==
  /\ port # "cdc" /\ port' = "cdc"
  /\ UNCHANGED <<run, printed, connected, pc, host, expired, delivered>>

EntryRemoved ==
  /\ port = "stale" /\ port' = "none"
  /\ UNCHANGED <<run, printed, connected, pc, host, expired, delivered>>

\* A reset, by hand or by a second flash: the firmware starts over.
Reset ==
  /\ run < MaxRuns
  /\ run' = run + 1 /\ printed' = 0 /\ connected' = FALSE /\ delivered' = 0
  /\ port' \in {"none", "stale"}
  /\ UNCHANGED <<pc, host, expired>>

Expire ==
  /\ ~expired /\ expired' = TRUE
  /\ UNCHANGED <<board, pc, host, delivered>>

Next ==
  \/ Host \/ Done
  \/ EmitPiece \/ Enumerate \/ EntryRemoved \/ Reset \/ Expire

\* The script runs and time passes; the board need not do anything.
Spec == Init /\ [][Next]_vars /\ WF_vars(Host) /\ WF_vars(Expire)
-----------------------------------------------------------------------------
TypeOK ==
  /\ port \in {"none", "stale", "cdc"}
  /\ run \in Runs /\ printed \in Pieces \cup {0} /\ delivered \in 0 .. printed
  /\ connected \in BOOLEAN /\ requested \in BOOLEAN
  /\ expired \in BOOLEAN /\ lastError \in BOOLEAN
  /\ pc \in {"find", "open", "reading", "retry", "returned", "raised"}
  /\ opened \in Runs \cup {0}
  /\ data \subseteq Runs \X Pieces
  /\ header \in {0, CutCount, Reps}
  /\ DOMAIN reps \subseteq Indices /\ \A i \in DOMAIN reps : reps[i] \in Values

\* What is returned has every repetition the firmware announced, although the
\* announced number can be read before its last digit has arrived.
ReturnsEveryRepetition ==
  pc = "returned" => header = Reps /\ DOMAIN reps = Indices

\* Resets and retries never mix the repetitions of two runs of the firmware.
OneRunOnly ==
  pc = "returned" => \A i, j \in DOMAIN reps : reps[i].run = reps[j].run

\* Every count but the last one is returned with all its digits: a count that was
\* matched too early is corrected by a later pass.
EarlierCountsAreExact ==
  pc = "returned" => \A i \in DOMAIN reps \ {Reps - 1} : reps[i].digits = "all"

\* The capture ends, whatever the board does.
CaptureEnds == <>(pc \in {"returned", "raised"})

\* capture_available_port: "capture one complete result".
EveryCountIsExact ==
  pc = "returned" => \A i \in DOMAIN reps : reps[i].digits = "all"
=============================================================================
