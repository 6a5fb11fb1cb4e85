--------------------------- MODULE UsbCaptureProofs ---------------------------
(***************************************************************************)
(* Proofs about UsbCapture, for any number of repetitions and of resets of *)
(* the board.                                                              *)
(***************************************************************************)
EXTENDS UsbCapture, FiniteSetTheorems, TLAPS

USE CaptureAssumption
-----------------------------------------------------------------------------
(* What the expressions find in an unbroken stretch of one run's output *)

Last == LineEnd(Reps - 1)

Stretch(r, lo, hi) == {<<r, p>> : p \in (lo + 1) .. hi}

\* The pieces that lie within a run's output.
LEMMA Positions ==
  /\ Last \in Nat /\ Last = 3 * Reps + 2 /\ Pieces = 1 .. Last
  /\ \A i \in Indices :
       FirstDigits(i) = 3 * i + 4 /\ LineEnd(i) = 3 * i + 5 /\ LineEnd(i) <= Last
BY DEF Last, Pieces, Indices, FirstDigits, LineEnd, HeaderEnd

LEMMA InStretch ==
  ASSUME NEW r \in Runs, NEW lo \in 0 .. Last, NEW hi \in 0 .. Last, NEW o, NEW p \in Int
  PROVE  <<o, p>> \in Stretch(r, lo, hi) <=> o = r /\ lo < p /\ p <= hi
<1>1. lo \in Int /\ hi \in Int
  BY Positions
<1>2. \A q \in (lo + 1) .. hi : q \in Int
  BY <1>1
<1> QED
  BY <1>1, <1>2 DEF Stretch

\* A repetition's line counts once its first digits are there.
Found(lo, hi) == {i \in Indices : lo < FirstDigits(i) - 1 /\ FirstDigits(i) <= hi}

LEMMA LinesFound ==
  ASSUME NEW r \in Runs, NEW lo \in 0 .. Last, NEW hi \in 0 .. Last, NEW i \in Indices, NEW o
  PROVE  LineOf(Stretch(r, lo, hi), i, o) <=> o = r /\ i \in Found(lo, hi)
<1>1. FirstDigits(i) \in Int /\ FirstDigits(i) - 1 \in Int /\ lo \in Int /\ hi \in Int
  BY Positions DEF Indices
<1>2. LineOf(Stretch(r, lo, hi), i, o) <=>
        /\ <<o, FirstDigits(i) - 1>> \in Stretch(r, lo, hi)
        /\ <<o, FirstDigits(i)>> \in Stretch(r, lo, hi)
  BY DEF LineOf
<1>3. <<o, FirstDigits(i) - 1>> \in Stretch(r, lo, hi)
        <=> o = r /\ lo < FirstDigits(i) - 1 /\ FirstDigits(i) - 1 <= hi
  BY <1>1, InStretch
<1>4. <<o, FirstDigits(i)>> \in Stretch(r, lo, hi)
        <=> o = r /\ lo < FirstDigits(i) /\ FirstDigits(i) <= hi
  BY <1>1, InStretch
<1> QED
  BY <1>1, <1>2, <1>3, <1>4 DEF Found

LEMMA RepsFound ==
  ASSUME NEW r \in Runs, NEW lo \in 0 .. Last, NEW hi \in 0 .. Last
  PROVE  RepsIn(Stretch(r, lo, hi)) =
           [i \in Found(lo, hi) |->
              [run |-> r, digits |-> IF LineEnd(i) <= hi THEN "all" ELSE "some"]]
<1> DEFINE text == Stretch(r, lo, hi)
<1>1. {j \in Indices : \E o \in Runs : LineOf(text, j, o)} = Found(lo, hi)
  BY LinesFound DEF Found
<1>2. ASSUME NEW i \in Found(lo, hi)
      PROVE  (CHOOSE q \in Runs : LineOf(text, i, q) /\ \A o \in Runs : LineOf(text, i, o) => o <= q) = r
  <2>1. i \in Indices
    BY DEF Found
  <2>2. \A q \in Runs : LineOf(text, i, q) <=> q = r
    BY <2>1, LinesFound
  <2>3. r <= r
    BY DEF Runs
  <2>4. \A q \in Runs : (LineOf(text, i, q) /\ \A o \in Runs : LineOf(text, i, o) => o <= q) <=> q = r
    BY <2>2, <2>3
  <2> HIDE DEF text
  <2> QED
    BY <2>4
<1>3. ASSUME NEW i \in Found(lo, hi)
      PROVE  <<r, LineEnd(i)>> \in text <=> LineEnd(i) <= hi
  <2>1. i \in Indices /\ LineEnd(i) \in Int /\ lo < LineEnd(i) /\ lo \in Int /\ hi \in Int
    BY Positions DEF Found, Indices
  <2> QED
    BY <2>1, InStretch
<1> HIDE DEF text
<1>4. RepsIn(text) =
        [i \in Found(lo, hi) |->
           [run |-> r, digits |-> IF LineEnd(i) <= hi THEN "all" ELSE "some"]]
  BY <1>1, <1>2, <1>3 DEF RepsIn
<1> QED
  BY <1>4 DEF text

\* The announced count can be read too early, but not after a line was found.
LEMMA HeaderFound ==
  ASSUME NEW r \in Runs, NEW lo \in 0 .. Last, NEW hi \in 0 .. Last
  PROVE  /\ HeaderIn(Stretch(r, lo, hi)) \in {0, CutCount, Reps}
         /\ HeaderIn(Stretch(r, lo, hi)) = CutCount => hi = 1
<1> DEFINE text == Stretch(r, lo, hi)
<1>1. \A o : <<o, 1>> \in text <=> o = r /\ lo < 1 /\ 1 <= hi
  BY InStretch
<1>2. \A o : <<o, 2>> \in text <=> o = r /\ lo < 2 /\ 2 <= hi
  BY InStretch
<1> HIDE DEF text
<1>3. HeaderSeen(text, 1) <=> lo < 1 /\ 1 <= hi
  BY <1>1 DEF HeaderSeen, HeaderCut
<1>4. HeaderSeen(text, 2) <=> lo < 1 /\ 2 <= hi
  <2>1. lo \in Int /\ hi \in Int
    BY Positions
  <2> QED
    <3>1. HeaderSeen(text, 2) <=> \E q \in Runs : <<q, 1>> \in text /\ <<q, 2>> \in text
      BY DEF HeaderSeen, HeaderCut
    <3>2. (\E q \in Runs : <<q, 1>> \in text /\ <<q, 2>> \in text)
            <=> <<r, 1>> \in text /\ <<r, 2>> \in text
      BY <1>1
    <3>3. lo < 1 /\ 1 <= hi /\ lo < 2 /\ 2 <= hi <=> lo < 1 /\ 2 <= hi
      BY <2>1
    <3> QED
      BY <1>1, <1>2, <3>1, <3>2, <3>3
<1>5. HeaderIn(text) = IF lo < 1 /\ 2 <= hi THEN Reps ELSE IF lo < 1 /\ 1 <= hi THEN CutCount ELSE 0
  <2>1. lo \in Int /\ hi \in Int
    BY Positions
  <2>2. CASE HeaderSeen(text, 2)
    BY <1>3, <1>4, <2>1, <2>2 DEF HeaderIn, HeaderEnd, HeaderCut
  <2>3. CASE ~HeaderSeen(text, 2) /\ ~HeaderSeen(text, 1)
    BY <1>3, <1>4, <2>1, <2>3 DEF HeaderIn, HeaderEnd, HeaderCut
  <2>4. CASE ~HeaderSeen(text, 2) /\ HeaderSeen(text, 1)
    BY <1>3, <1>4, <2>1, <2>4 DEF HeaderIn, HeaderEnd, HeaderCut
  <2> QED
    BY <2>2, <2>3, <2>4
<1>6. CutCount = 1 /\ Reps # 1 /\ Reps # 0 /\ lo \in Int /\ hi \in Int
  BY Positions DEF CutCount
<1>7. /\ HeaderIn(text) \in {0, CutCount, Reps}
      /\ HeaderIn(text) = CutCount => hi = 1
  BY <1>5, <1>6
<1> QED
  BY <1>7 DEF text

\* A capture that is complete has every repetition, all but the last with all
\* its digits.
LEMMA CompleteStretch ==
  ASSUME NEW r \in Runs, NEW lo \in 0 .. Last, NEW hi \in 0 .. Last,
         Complete(HeaderIn(Stretch(r, lo, hi)), RepsIn(Stretch(r, lo, hi)))
  PROVE  /\ HeaderIn(Stretch(r, lo, hi)) = Reps
         /\ Found(lo, hi) = Indices
         /\ \A i \in Indices \ {Reps - 1} : LineEnd(i) <= hi
<1> DEFINE count == HeaderIn(Stretch(r, lo, hi))
<1>1. DOMAIN RepsIn(Stretch(r, lo, hi)) = Found(lo, hi)
  BY RepsFound
<1>2. count # 0 /\ Cardinality(Found(lo, hi)) >= count
  BY <1>1 DEF Complete
<1>3. IsFiniteSet(Indices) /\ Cardinality(Indices) = Reps /\ Found(lo, hi) \subseteq Indices
  <2>1. IsFiniteSet(0 .. (Reps - 1)) /\ Cardinality(0 .. (Reps - 1)) = Reps
    BY FS_Interval
  <2> QED
    BY <2>1 DEF Indices, Found
<1>4. IsFiniteSet(Found(lo, hi)) /\ Cardinality(Found(lo, hi)) \in Nat
      /\ Cardinality(Found(lo, hi)) <= Reps
      /\ (Cardinality(Found(lo, hi)) = Reps => Found(lo, hi) = Indices)
  BY <1>3, FS_Subset, FS_CardinalityType
<1>5. count # CutCount
  <2>1. SUFFICES ASSUME count = CutCount PROVE FALSE
    OBVIOUS
  <2>2. hi = 1
    BY <2>1, HeaderFound
  <2>3. Found(lo, hi) = {}
    BY <2>2, Positions DEF Found, Indices
  <2> QED
    BY <1>2, <2>1, <2>3, FS_EmptySet DEF CutCount
<1>6. count = Reps
  BY <1>2, <1>5, HeaderFound
<1>7. Found(lo, hi) = Indices
  BY <1>2, <1>4, <1>6
<1>8. ASSUME NEW i \in Indices \ {Reps - 1}
      PROVE  LineEnd(i) <= hi
  <2>1. i + 1 \in Found(lo, hi) /\ i \in Int /\ hi \in Int
    BY <1>7, <1>8, Positions DEF Indices
  <2>2. FirstDigits(i + 1) <= hi /\ FirstDigits(i + 1) = 3 * (i + 1) + 4 /\ LineEnd(i) = 3 * i + 5
    BY <1>8, <2>1, Positions DEF Found
  <2> QED
    BY <2>1, <2>2
<1> QED
  BY <1>6, <1>7, <1>8

\* A later pass finds what an earlier one found, and more.
LEMMA Grows ==
  ASSUME NEW r \in Runs, NEW lo \in 0 .. Last, NEW hi \in 0 .. Last, NEW upto \in 0 .. Last,
         hi <= upto
  PROVE  Update(RepsIn(Stretch(r, lo, hi)), RepsIn(Stretch(r, lo, upto)))
           = RepsIn(Stretch(r, lo, upto))
<1>1. Found(lo, hi) \subseteq Found(lo, upto)
  <2>1. hi \in Int /\ upto \in Int /\ \A i \in Indices : FirstDigits(i) \in Int
    BY Positions DEF Indices
  <2> QED
    BY <2>1 DEF Found
<1>2. DOMAIN RepsIn(Stretch(r, lo, hi)) = Found(lo, hi)
      /\ DOMAIN RepsIn(Stretch(r, lo, upto)) = Found(lo, upto)
  BY RepsFound
<1>3. RepsIn(Stretch(r, lo, upto)) = [i \in Found(lo, upto) |-> RepsIn(Stretch(r, lo, upto))[i]]
  BY RepsFound
<1> QED
  BY <1>1, <1>2, <1>3 DEF Update
-----------------------------------------------------------------------------
(* The inductive invariant *)

\* While a port is read, what has been read is an unbroken stretch of one run's
\* output, up to what has left the board if it is still that run, and header and
\* repetitions are what the expressions find in it.
Reading ==
  pc = "reading" =>
    /\ opened \in 1 .. run
    /\ opened = run => connected
    /\ \E lo \in 0 .. Last, hi \in 0 .. Last :
         data = Stretch(opened, lo, hi) /\ lo <= hi /\ (opened = run => hi = delivered)
    /\ header = HeaderIn(data)
    /\ reps = RepsIn(data)

Returned == ReturnsEveryRepetition /\ OneRunOnly /\ EarlierCountsAreExact

IInv == TypeOK /\ Reading /\ Returned
-----------------------------------------------------------------------------
(* Steps *)

LEMMA StretchTyped ==
  ASSUME NEW r \in Runs, NEW lo \in 0 .. Last, NEW hi \in 0 .. Last
  PROVE  /\ Stretch(r, lo, hi) \subseteq Runs \X Pieces
         /\ HeaderIn(Stretch(r, lo, hi)) \in {0, CutCount, Reps}
         /\ DOMAIN RepsIn(Stretch(r, lo, hi)) \subseteq Indices
         /\ \A i \in DOMAIN RepsIn(Stretch(r, lo, hi)) : RepsIn(Stretch(r, lo, hi))[i] \in Values
<1>1. \A p \in (lo + 1) .. hi : p \in Pieces
  BY Positions
<1>2. Stretch(r, lo, hi) \subseteq Runs \X Pieces
  BY <1>1 DEF Stretch
<1>3. DOMAIN RepsIn(Stretch(r, lo, hi)) = Found(lo, hi) /\ Found(lo, hi) \subseteq Indices
  <2>1. DOMAIN RepsIn(Stretch(r, lo, hi)) = Found(lo, hi)
    BY RepsFound
  <2> QED
    BY <2>1 DEF Found
<1>4. ASSUME NEW i \in Found(lo, hi)
      PROVE  RepsIn(Stretch(r, lo, hi))[i] \in Values
  BY RepsFound DEF Values
<1> QED
  BY <1>2, <1>3, <1>4, HeaderFound

\* A step that leaves the host alone.
LEMMA HostUntouched ==
  ASSUME IInv, UNCHANGED <<pc, host>>,
         pc = "reading" => /\ run <= run' /\ run' \in Runs
                           /\ opened = run' => run' = run /\ connected' = connected
                                               /\ delivered' = delivered
  PROVE  Reading' /\ Returned'
<1>1. Returned'
  BY DEF IInv, Returned, ReturnsEveryRepetition, OneRunOnly, EarlierCountsAreExact, host
<1>2. SUFFICES ASSUME pc = "reading" PROVE Reading'
  BY <1>1 DEF Reading
<1>3. /\ opened \in 1 .. run /\ (opened = run => connected)
      /\ header = HeaderIn(data) /\ reps = RepsIn(data) /\ run \in Runs
  BY <1>2 DEF IInv, Reading, TypeOK
<1>4. PICK lo \in 0 .. Last, hi \in 0 .. Last :
        data = Stretch(opened, lo, hi) /\ lo <= hi /\ (opened = run => hi = delivered)
  BY <1>2 DEF IInv, Reading
<1>5. opened' \in 1 .. run' /\ (opened' = run' => connected')
  BY <1>2, <1>3 DEF host, Runs
<1>6. data' = Stretch(opened', lo, hi) /\ lo <= hi /\ (opened' = run' => hi = delivered')
  BY <1>2, <1>4 DEF host
<1>7. header' = HeaderIn(data') /\ reps' = RepsIn(data')
  BY <1>3 DEF host
<1> QED
  BY <1>5, <1>6, <1>7 DEF Reading

\* One pass of the reading loop.
LEMMA ReadChunkKeeps ==
  ASSUME IInv, ReadChunk
  PROVE  IInv'
<1>1. /\ pc = "reading" /\ opened = run /\ run \in Runs /\ run' = run
      /\ opened \in 1 .. run /\ connected /\ reps = RepsIn(data)
  BY DEF ReadChunk, IInv, Reading, TypeOK
<1>2. PICK lo \in 0 .. Last, hi \in 0 .. Last :
        data = Stretch(run, lo, hi) /\ lo <= hi /\ hi = delivered
  BY <1>1 DEF IInv, Reading
<1>3. PICK upto \in (delivered + 1) .. printed :
        delivered' = upto /\ data' = data \cup {<<run, p>> : p \in (delivered + 1) .. upto}
  BY DEF ReadChunk
<1>4. upto \in 0 .. Last /\ lo <= upto /\ hi <= upto /\ delivered' \in 0 .. printed'
  <2>1. printed \in 0 .. Last /\ delivered \in 0 .. printed /\ printed' = printed
    BY Positions DEF IInv, TypeOK, ReadChunk
  <2> QED
    BY <1>2, <1>3, <2>1, Positions
<1>5. data' = Stretch(run, lo, upto)
  <2>1. hi \in Int /\ lo \in Int /\ upto \in Int
    BY <1>4, Positions
  <2>2. (lo + 1) .. upto = ((lo + 1) .. hi) \cup ((hi + 1) .. upto)
    BY <1>2, <1>4, <2>1
  <2> QED
    BY <1>2, <1>3, <2>2 DEF Stretch
<1>6. header' = HeaderIn(data') /\ reps' = RepsIn(data')
  BY <1>1, <1>2, <1>4, <1>5, Grows DEF ReadChunk
<1>7. TypeOK'
  <2>1. /\ data' \subseteq Runs \X Pieces /\ header' \in {0, CutCount, Reps}
        /\ DOMAIN reps' \subseteq Indices /\ \A i \in DOMAIN reps' : reps'[i] \in Values
    BY <1>1, <1>4, <1>5, <1>6, StretchTyped
  <2>2. connected' \in BOOLEAN
    BY Zenon DEF ReadChunk
  <2>3. opened' \in Runs \cup {0} /\ pc' \in {"reading", "returned"}
    BY <1>1 DEF ReadChunk
  <2> QED
    BY <1>4, <2>1, <2>2, <2>3 DEF ReadChunk, IInv, TypeOK
<1>8. CASE Complete(header', reps')
  <2>1. pc' = "returned"
    BY <1>8 DEF ReadChunk
  <2>2. /\ HeaderIn(Stretch(run, lo, upto)) = Reps /\ Found(lo, upto) = Indices
        /\ \A i \in Indices \ {Reps - 1} : LineEnd(i) <= upto
    BY <1>1, <1>4, <1>5, <1>6, <1>8, CompleteStretch
  <2>3. /\ DOMAIN reps' = Indices
        /\ \A i \in Indices : reps'[i] = [run |-> run, digits |-> IF LineEnd(i) <= upto THEN "all" ELSE "some"]
    BY <1>1, <1>4, <1>5, <1>6, <2>2, RepsFound
  <2>4. header' = Reps
    BY <1>5, <1>6, <2>2
  <2>5. Returned'
    BY <2>2, <2>3, <2>4 DEF Returned, ReturnsEveryRepetition, OneRunOnly, EarlierCountsAreExact
  <2> QED
    BY <1>7, <2>1, <2>5 DEF IInv, Reading
<1>9. CASE ~Complete(header', reps')
  <2>1. pc' = "reading" /\ opened' = run /\ connected'
    BY <1>1, <1>9 DEF ReadChunk
  <2>2. Reading'
    BY <1>1, <1>3, <1>4, <1>5, <1>6, <2>1 DEF Reading
  <2> QED
    BY <1>7, <2>1, <2>2 DEF IInv, Returned, ReturnsEveryRepetition, OneRunOnly, EarlierCountsAreExact
<1> QED
  BY <1>8, <1>9

\* Opening the port begins a new stretch.
LEMMA OpenPortKeeps ==
  ASSUME IInv, OpenPort
  PROVE  IInv'
<1>1. data' = {} /\ header' = 0 /\ reps' = NoReps /\ run' = run /\ printed' = printed
  BY DEF OpenPort, FreshBytes
<1>2. delivered' \in 0 .. printed' /\ opened' \in Runs \cup {0} /\ pc' \in {"reading", "retry", "raised"}
      /\ printed \in 0 .. Last
  BY Positions DEF OpenPort, IInv, TypeOK
<1>3. connected' \in BOOLEAN /\ lastError' \in BOOLEAN
  BY Zenon DEF OpenPort, IInv, TypeOK
<1>4. TypeOK'
  <2>1. DOMAIN reps' = {}
    BY <1>1 DEF NoReps
  <2> QED
    BY <1>1, <1>2, <1>3, <2>1 DEF OpenPort, IInv, TypeOK
<1>5. ASSUME pc' = "reading"
      PROVE  Reading'
  <2>1. opened' = run /\ connected' /\ run \in Runs
    BY <1>5 DEF OpenPort, IInv, TypeOK
  <2>2. delivered' \in 0 .. Last
    BY <1>1, <1>2, Positions
  <2>3. Stretch(run, delivered', delivered') = {}
    <3>1. delivered' \in Int
      BY <2>2, Positions
    <3>2. \A n \in Int : (n + 1) .. n = {}
      OBVIOUS
    <3>3. (delivered' + 1) .. delivered' = {}
      BY <3>1, <3>2
    <3> QED
      BY <3>3 DEF Stretch
  <2>4. HeaderIn({}) = 0 /\ RepsIn({}) = NoReps
    <3>1. ~HeaderSeen({}, HeaderEnd) /\ ~HeaderSeen({}, HeaderCut)
      BY DEF HeaderSeen
    <3>2. {j \in Indices : \E r \in Runs : LineOf({}, j, r)} = {}
      BY DEF LineOf
    <3>3. HeaderIn({}) = 0
      BY <3>1 DEF HeaderIn
    <3>4. RepsIn({}) = NoReps
      BY <3>2 DEF RepsIn, NoReps
    <3> QED
      BY <3>3, <3>4
  <2>5. opened' \in 1 .. run'
    BY <1>1, <2>1 DEF Runs
  <2> QED
    BY <1>1, <2>1, <2>2, <2>3, <2>4, <2>5 DEF Reading
<1> QED
  BY <1>2, <1>4, <1>5 DEF IInv, Reading, Returned, ReturnsEveryRepetition, OneRunOnly, EarlierCountsAreExact

LEMMA Idle ==
  ASSUME IInv, UNCHANGED vars
  PROVE  IInv'
<1>1. TypeOK'
  BY DEF IInv, TypeOK, vars, board, host
<1>2. Reading' /\ Returned'
  BY DEF IInv, Reading, Returned, ReturnsEveryRepetition, OneRunOnly, EarlierCountsAreExact, vars, board, host
<1> QED
  BY <1>1, <1>2 DEF IInv

\* The other steps of the script.
LEMMA HostKeeps ==
  ASSUME IInv, FindPort \/ ReadError \/ ReadTimeout \/ Retry \/ Done
  PROVE  IInv'
<1>1. TypeOK'
  <2>1. lastError' \in BOOLEAN /\ connected' \in BOOLEAN
    BY Zenon DEF FindPort, ReadError, ReadTimeout, Retry, Done, vars, IInv, TypeOK, board, host
  <2> QED
    BY <2>1 DEF FindPort, ReadError, ReadTimeout, Retry, Done, vars, IInv, TypeOK, board, host
<1>2. CASE Done
  BY <1>1, <1>2, Idle DEF Done
<1>3. CASE FindPort \/ ReadError \/ ReadTimeout \/ Retry
  BY <1>1, <1>3 DEF FindPort, ReadError, ReadTimeout, Retry, IInv, Reading, Returned,
     ReturnsEveryRepetition, OneRunOnly, EarlierCountsAreExact
<1> QED
  BY <1>2, <1>3

\* The board and the clock.
LEMMA BoardKeeps ==
  ASSUME IInv, EmitPiece \/ Enumerate \/ EntryRemoved \/ Reset \/ Expire
  PROVE  IInv'
<1>a. run \in Runs /\ printed \in 0 .. Last /\ delivered \in 0 .. printed
  BY Positions DEF IInv, TypeOK
<1>b. pc = "reading" => opened \in 1 .. run /\ (opened = run => connected)
  BY DEF IInv, Reading
<1>1. CASE EmitPiece
  <2>1. printed' \in Pieces \cup {0} /\ delivered' \in 0 .. printed'
    BY <1>a, <1>1, Positions DEF EmitPiece, Last
  <2>2. TypeOK'
    BY <1>1, <2>1 DEF EmitPiece, IInv, TypeOK, host
  <2>3. run <= run' /\ run' \in Runs /\ UNCHANGED <<run, pc, host>>
    BY <1>a, <1>1 DEF EmitPiece, Runs
  <2>4. pc = "reading" /\ opened = run' => connected' = connected /\ delivered' = delivered
    BY <1>b, <1>1 DEF EmitPiece
  <2> QED
    BY <2>2, <2>3, <2>4, HostUntouched DEF IInv
<1>2. CASE Enumerate \/ EntryRemoved
  <2>1. TypeOK'
    BY <1>2 DEF Enumerate, EntryRemoved, IInv, TypeOK, host
  <2>2. run <= run' /\ run' \in Runs /\ UNCHANGED <<run, connected, delivered, pc, host>>
    BY <1>a, <1>2 DEF Enumerate, EntryRemoved, Runs
  <2> QED
    BY <2>1, <2>2, HostUntouched DEF IInv
<1>3. CASE Reset
  <2>1. TypeOK'
    <3>1. run' \in Runs /\ printed' = 0 /\ delivered' \in 0 .. printed'
      BY <1>a, <1>3 DEF Reset, Runs
    <3>2. connected' \in BOOLEAN
      BY <1>3, Zenon DEF Reset
    <3> QED
      BY <1>3, <3>1, <3>2 DEF Reset, IInv, TypeOK, host
  <2>2. run <= run' /\ run' \in Runs /\ UNCHANGED <<pc, host>>
    BY <1>a, <1>3 DEF Reset, Runs
  <2>3. pc = "reading" => opened # run'
    BY <1>a, <1>b, <1>3 DEF Reset, Runs
  <2> QED
    BY <2>1, <2>2, <2>3, HostUntouched DEF IInv
<1>4. CASE Expire
  <2>1. expired' \in BOOLEAN
    BY <1>4, Zenon DEF Expire
  <2>2. TypeOK'
    BY <1>4, <2>1 DEF Expire, IInv, TypeOK, board, host
  <2>3. run <= run' /\ run' \in Runs /\ UNCHANGED <<run, connected, delivered, pc, host>>
    BY <1>a, <1>4 DEF Expire, board, Runs
  <2> QED
    BY <2>2, <2>3, HostUntouched DEF IInv
<1> QED
  BY <1>1, <1>2, <1>3, <1>4

\* Every step keeps the invariant.
LEMMA NextKeeps ==
  ASSUME IInv, [Next]_vars
  PROVE  IInv'
BY Idle, ReadChunkKeeps, OpenPortKeeps, HostKeeps, BoardKeeps DEF Next, Host

LEMMA InitIInv == Init => IInv
<1> SUFFICES ASSUME Init PROVE IInv
  OBVIOUS
<1>1. run \in Runs
  BY DEF Init, Runs
<1>2. DOMAIN reps = {}
  BY DEF Init, NoReps
<1>3. connected \in BOOLEAN /\ requested \in BOOLEAN /\ expired \in BOOLEAN /\ lastError \in BOOLEAN
  BY Zenon DEF Init
<1>4. TypeOK
  BY <1>1, <1>2, <1>3 DEF Init, TypeOK
<1> QED
  BY <1>4 DEF Init, IInv, Reading, Returned, ReturnsEveryRepetition, OneRunOnly, EarlierCountsAreExact
-----------------------------------------------------------------------------
(* Theorems *)

\* The invariant holds of every reachable state.
THEOREM Invariance == Spec => []IInv
BY InitIInv, NextKeeps, PTL DEF Spec

\* Board, script and the bytes read keep their types.
THEOREM TypeCorrect == Spec => []TypeOK
<1>1. IInv => TypeOK
  BY DEF IInv
<1> QED
  BY <1>1, Invariance, PTL

\* A capture returns every repetition the firmware announced (run_benchmark.py,
\* capture).
THEOREM EveryRepetition == Spec => []ReturnsEveryRepetition
<1>1. IInv => ReturnsEveryRepetition
  BY DEF IInv, Returned
<1> QED
  BY <1>1, Invariance, PTL

\* The repetitions of a capture are of one run of the firmware (run_benchmark.py,
\* capture_available_port).
THEOREM NoMixture == Spec => []OneRunOnly
<1>1. IInv => OneRunOnly
  BY DEF IInv, Returned
<1> QED
  BY <1>1, Invariance, PTL

\* Every count but the last is returned with all its digits (run_benchmark.py,
\* REP_RE and the loop of capture).
THEOREM EarlierCounts == Spec => []EarlierCountsAreExact
<1>1. IInv => EarlierCountsAreExact
  BY DEF IInv, Returned
<1> QED
  BY <1>1, Invariance, PTL
=============================================================================
