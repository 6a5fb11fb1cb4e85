--------------------------- MODULE CacheProbeProofs ---------------------------
(***************************************************************************)
(* Proofs about CacheProbe, for any number of repetitions, any length of   *)
(* the streams and any cost of a miss and of a wait.                       *)
(***************************************************************************)
EXTENDS CacheProbe, FiniteSetTheorems, SequenceTheorems, TLAPS

USE ProbeAssumption
-----------------------------------------------------------------------------
(* The counter *)

Most == 1 + MissCost + ClashCost

Word == 0 .. (Wrap - 1)

\* What the counter shows since the timed pass began.
Elapsed == (cyccnt - start) % Wrap

LEMMA AdvanceWraps ==
  ASSUME NEW M \in Nat \ {0}, NEW a \in 0 .. (M - 1), NEW d \in 0 .. (M - 1)
  PROVE  (a + d) % M = IF a + d < M THEN a + d ELSE a + d - M
OBVIOUS

LEMMA DifferenceWraps ==
  ASSUME NEW M \in Nat \ {0}, NEW a \in 0 .. (M - 1), NEW b \in 0 .. (M - 1)
  PROVE  (b - a) % M = IF a <= b THEN b - a ELSE b - a + M
OBVIOUS

LEMMA MostTimes ==
  /\ Most \in Nat \ {0} /\ Wrap \in Nat \ {0} /\ Most < Wrap
  /\ \A n \in 0 .. 3 * Rept : n * Most \in Nat /\ n * Most < Wrap
<1>1. /\ Most \in Nat \ {0} /\ Rept \in Nat \ {0}
      /\ Wrap \in Nat /\ Wrap > 3 * Rept * Most
  BY DEF Most
<1>2. ASSUME NEW k \in Nat \ {0}, NEW r \in Nat \ {0}, NEW n \in 0 .. 3 * r
      PROVE  /\ n * k \in Nat /\ n * k <= 3 * r * k
             /\ 3 * r * k \in Nat /\ k <= 3 * r * k
  <2>1. 3 * r \in Nat /\ n \in Nat /\ n <= 3 * r /\ 1 <= 3 * r
    OBVIOUS
  <2>2. \A a, b, c \in Nat : a <= b => a * c <= b * c
    OBVIOUS
  <2>3. n * k <= 3 * r * k /\ 1 * k <= 3 * r * k
    BY <2>1, <2>2
  <2> QED
    BY <2>1, <2>3
<1> QED
  BY <1>1, <1>2

\* One access later; the counter has not passed the start a second time.
LEMMA TimePasses ==
  ASSUME cyccnt \in Word, start \in Word, NEW p \in 1 .. 3 * Rept,
         NEW n \in 0 .. Most, Elapsed <= (p - 1) * Most
  PROVE  /\ After(n) \in Word
         /\ (After(n) - start) % Wrap = Elapsed + n
         /\ Elapsed + n <= p * Most
<1>1. p - 1 \in 0 .. 3 * Rept /\ p \in 0 .. 3 * Rept /\ (p - 1) * Most + Most = p * Most
  BY MostTimes
<1>2. /\ Elapsed = IF start <= cyccnt THEN cyccnt - start ELSE cyccnt - start + Wrap
      /\ Elapsed \in Int
  BY MostTimes, DifferenceWraps DEF Elapsed, Word
<1>3. n \in 0 .. (Wrap - 1)
  BY MostTimes
<1>4. After(n) = IF cyccnt + n < Wrap THEN cyccnt + n ELSE cyccnt + n - Wrap
  BY <1>3, MostTimes, AdvanceWraps DEF After, Word
<1>5. After(n) \in Word
  BY <1>3, <1>4, MostTimes DEF Word
<1>7. p * Most \in Nat /\ p * Most < Wrap /\ (p - 1) * Most \in Nat
  BY <1>1, MostTimes
<1>8. Elapsed + n <= p * Most
  BY <1>1, <1>2, <1>7, MostTimes
<1>9. (After(n) - start) % Wrap = Elapsed + n
  BY <1>2, <1>4, MostTimes DEF Word
<1> QED
  BY <1>5, <1>8, <1>9

LEMMA NoTime ==
  ASSUME NEW a \in Word
  PROVE  (a - a) % Wrap = 0
BY MostTimes, DifferenceWraps DEF Word

LEMMA AnyTime ==
  ASSUME cyccnt \in Word, NEW n \in 0 .. Most
  PROVE  After(n) \in Word
<1>1. n \in 0 .. (Wrap - 1)
  BY MostTimes
<1> QED
  BY <1>1, MostTimes, AdvanceWraps DEF After, Word
-----------------------------------------------------------------------------
(* The two ways of a set *)

Two(S) == IsFiniteSet(S) /\ Cardinality(S) <= 2

LEMMA TwoOfThree ==
  ASSUME NEW S, Two(S), NEW x \in S, NEW y \in S, NEW z \in S
  PROVE  x = y \/ y = z \/ x = z
<1> SUFFICES ASSUME x # y, y # z, x # z PROVE FALSE
  OBVIOUS
<1>1. IsFiniteSet({x}) /\ Cardinality({x}) = 1
  BY FS_Singleton
<1>2. IsFiniteSet({x} \cup {y}) /\ Cardinality({x} \cup {y}) = 2
  BY <1>1, FS_AddElement
<1>3. IsFiniteSet({x} \cup {y} \cup {z}) /\ Cardinality({x} \cup {y} \cup {z}) = 3
  BY <1>2, FS_AddElement
<1>4. {x} \cup {y} \cup {z} \subseteq S
  OBVIOUS
<1>5. Cardinality({x} \cup {y} \cup {z}) <= Cardinality(S) /\ Cardinality(S) \in Nat
  BY <1>4, FS_Subset, FS_CardinalityType DEF Two
<1> QED
  BY <1>3, <1>5 DEF Two

\* A fill leaves two ways at most, and evicts nothing when it finds one line at most.
LEMMA Fills ==
  ASSUME NEW S, Two(S), NEW x, x \notin S,
         NEW v \in SUBSET S, Cardinality(v) = IF Cardinality(S) < 2 THEN 0 ELSE 1
  PROVE  /\ Two((S \ v) \cup {x})
         /\ \A p : S \subseteq {p} => v = {}
<1>1. IsFiniteSet(v) /\ IsFiniteSet(S \ v) /\ Cardinality(S \ v) = Cardinality(S) - Cardinality(v)
  <2>1. IsFiniteSet(v) /\ IsFiniteSet(S \ v)
    BY FS_Subset DEF Two
  <2>2. Cardinality(S \ v) = Cardinality(S) - Cardinality(S \cap v)
    BY FS_Difference DEF Two
  <2>3. S \cap v = v
    OBVIOUS
  <2> QED
    BY <2>1, <2>2, <2>3
<1>2. IsFiniteSet((S \ v) \cup {x}) /\ Cardinality((S \ v) \cup {x}) = Cardinality(S \ v) + 1
  BY <1>1, FS_AddElement
<1>3. Cardinality(S) \in Nat
  BY FS_CardinalityType DEF Two
<1>4. Two((S \ v) \cup {x})
  BY <1>1, <1>2, <1>3 DEF Two
<1>5. ASSUME NEW p, S \subseteq {p}
      PROVE  v = {}
  <2>1. IsFiniteSet({p}) /\ Cardinality({p}) = 1
    BY FS_Singleton
  <2>2. Cardinality(S) <= 1
    BY <1>5, <2>1, FS_Subset
  <2>3. Cardinality(v) = 0
    BY <1>3, <2>2
  <2> QED
    BY <1>1, <2>3, FS_EmptySet
<1> QED
  BY <1>4, <1>5
-----------------------------------------------------------------------------
(* The streams *)

Names == {"a", "b", "c", "add", "chain", "load", "data0", "data1", "main", "usb"}
Flash == [name : Names, set : Sets]
Accesses == [line : Flash, clash : BOOLEAN]

FieldNames == {"cold_add32", "warm_add32", "conflict2", "conflict3",
               "mixed_same", "mixed_opposite", "chain_same", "chain_opposite"}
Adds == {"cold_add32", "warm_add32"}
Same == {"mixed_same", "chain_same"}

Length(f) ==
  IF f \in Adds THEN Rept ELSE IF f = "conflict3" THEN 3 * Rept ELSE 2 * Rept

LEMMA LineIs ==
  \A n, s : /\ Line(n, s).name = n /\ Line(n, s).set = s
            /\ n \in Names /\ s \in Sets => Line(n, s) \in Flash
            /\ \A m, t : Line(n, s) = Line(m, t) => n = m /\ s = t
BY DEF Line, Flash

\* The lines the streams are made of.
LEMMA LinesAre ==
  /\ A \in Flash /\ B \in Flash /\ C \in Flash /\ LoadCode \in Flash
  /\ A.set = 0 /\ B.set = 0 /\ C.set = 0 /\ LoadCode.set = 1
  /\ A # B /\ B # C /\ A # C
  /\ \A bank \in {0, 1} : BankData(bank) \in Flash /\ BankData(bank).set = 1
  /\ \A i \in Sets : AddCode(i) \in Flash /\ AddCode(i).set = i
  /\ \A i \in 1 .. Rept : ChainCode(i) \in Flash /\ ChainCode(i).set = i
  /\ \A i, j : AddCode(i) = AddCode(j) => i = j
<1>1. 0 \in Sets /\ 1 \in Sets /\ \A i \in 1 .. Rept : i \in Sets
  BY DEF Sets
<1>2. \A bank \in {0, 1} : <<"data0", "data1">>[bank + 1] \in {"data0", "data1"}
  OBVIOUS
<1>3. \A bank \in {0, 1} : BankData(bank) \in Flash /\ BankData(bank).set = 1
  BY <1>1, <1>2, LineIs DEF BankData, Names
<1> QED
  BY <1>1, <1>3, LineIs DEF A, B, C, LoadCode, AddCode, ChainCode, Names

\* The lines of the adds, each as far as its predecessor's or one further.
LEMMA AddLines ==
  ASSUME NEW i \in 1 .. Rept
  PROVE  /\ i \in Nat /\ i \div 2 \in Sets
         /\ i = 1 => i \div 2 = 0
         /\ i > 1 => \/ i \div 2 = (i - 1) \div 2
                    \/ /\ i \div 2 = (i - 1) \div 2 + 1
                       /\ \A j \in 1 .. i - 1 : j \div 2 # i \div 2
<1>1. i \in Nat /\ i >= 1 /\ i <= Rept /\ Rept \in Nat
  OBVIOUS
<1>2. i \div 2 \in Nat /\ i \div 2 <= i
  BY <1>1
<1>3. i \div 2 \in Sets
  BY <1>1, <1>2 DEF Sets
<1>4. i = 1 => i \div 2 = 0
  <2>1. 1 \div 2 = 0
    OBVIOUS
  <2> QED
    BY <2>1
<1>5. i \div 2 = (i - 1) \div 2 \/ i \div 2 = (i - 1) \div 2 + 1
  BY <1>1
<1>6. ASSUME i \div 2 = (i - 1) \div 2 + 1, NEW j \in 1 .. i - 1
      PROVE  j \div 2 # i \div 2
  <2>1. j \in Nat /\ j <= i - 1
    BY <1>1
  <2>2. j \div 2 <= (i - 1) \div 2
    BY <1>1, <2>1
  <2> QED
    BY <1>1, <1>2, <1>6, <2>1, <2>2
<1> QED
  BY <1>1, <1>3, <1>4, <1>5, <1>6

\* The access at each position.
LEMMA Places ==
  ASSUME NEW f \in FieldNames, NEW code \in {0, 1}
  PROVE  /\ Stream(f, code) \in Seq(Accesses)
         /\ Len(Stream(f, code)) = Length(f)
         /\ Length(f) \in 1 .. 3 * Rept
         /\ \A i \in 1 .. Length(f) :
              LET a == Stream(f, code)[i] IN
              /\ a \in Accesses
              /\ a.clash = (f \in Same /\ i % 2 = 0)
              /\ f \in Adds => a.line = AddCode(i \div 2)
              /\ f = "conflict2" => a.line = IF i % 2 = 1 THEN A ELSE B
              /\ f = "conflict3" =>
                   a.line = IF i % 3 = 1 THEN A ELSE IF i % 3 = 2 THEN B ELSE C
              /\ f = "mixed_same" => a.line = IF i % 2 = 1 THEN LoadCode ELSE BankData(code)
              /\ f = "mixed_opposite" => a.line = IF i % 2 = 1 THEN LoadCode ELSE BankData(1 - code)
              /\ f = "chain_same" => a.line = IF i % 2 = 1 THEN ChainCode((i + 1) \div 2) ELSE BankData(0)
              /\ f = "chain_opposite" => a.line = IF i % 2 = 1 THEN ChainCode((i + 1) \div 2) ELSE BankData(1)
<1> DEFINE s == Stream(f, code)
           P(i) ==
              LET a == s[i] IN
              /\ a \in Accesses
              /\ a.clash = (f \in Same /\ i % 2 = 0)
              /\ f \in Adds => a.line = AddCode(i \div 2)
              /\ f = "conflict2" => a.line = IF i % 2 = 1 THEN A ELSE B
              /\ f = "conflict3" =>
                   a.line = IF i % 3 = 1 THEN A ELSE IF i % 3 = 2 THEN B ELSE C
              /\ f = "mixed_same" => a.line = IF i % 2 = 1 THEN LoadCode ELSE BankData(code)
              /\ f = "mixed_opposite" => a.line = IF i % 2 = 1 THEN LoadCode ELSE BankData(1 - code)
              /\ f = "chain_same" => a.line = IF i % 2 = 1 THEN ChainCode((i + 1) \div 2) ELSE BankData(0)
              /\ f = "chain_opposite" => a.line = IF i % 2 = 1 THEN ChainCode((i + 1) \div 2) ELSE BankData(1)
<1>1. /\ Length(f) \in 1 .. 3 * Rept /\ Length(f) \in Nat
      /\ f \in Adds => Length(f) = Rept
      /\ f = "conflict3" => Length(f) = 3 * Rept
      /\ f \notin Adds \cup {"conflict3"} => Length(f) = 2 * Rept
  BY DEF Length, Adds
<1>2. ASSUME NEW l \in Flash, NEW c \in BOOLEAN
      PROVE  /\ Access(l, c) \in Accesses /\ Access(l, c).line = l /\ Access(l, c).clash = c
             /\ Free(l) = Access(l, FALSE)
  BY <1>2 DEF Access, Accesses, Free
<1>3. DOMAIN s = 1 .. Length(f) /\ \A i \in 1 .. Length(f) : P(i)
  <2>1. CASE f \in Adds
    <3>1. s = Add32 /\ f \notin Same /\ f \notin {"conflict2", "conflict3", "mixed_opposite", "chain_opposite"}
      BY <2>1 DEF Stream, Adds, Same
    <3>2. /\ DOMAIN s = 1 .. Rept
          /\ \A i \in 1 .. Rept : s[i] = Access(AddCode(i \div 2), FALSE)
      <4>1. \A i \in 1 .. Rept : AddCode(i \div 2) \in Flash
        BY AddLines, LinesAre
      <4>2. Add32 = [i \in 1 .. Rept |-> Free(AddCode(i \div 2))]
        BY DEF Add32
      <4> HIDE DEF s
      <4> QED
        BY <3>1, <4>1, <4>2, <1>2
    <3>3. ASSUME NEW i \in 1 .. Rept PROVE P(i)
      <4>1. /\ s[i] = Access(AddCode(i \div 2), FALSE)
            /\ AddCode(i \div 2) \in Flash /\ FALSE \in BOOLEAN
        BY <3>2, AddLines, LinesAre
      <4>2. /\ s[i] \in Accesses
            /\ s[i].line = AddCode(i \div 2)
            /\ s[i].clash = FALSE
        BY <4>1, <1>2
      <4> HIDE DEF s
      <4> QED
        BY <4>2, <3>1, <2>1 DEF Adds, Same
    <3> QED
      BY <3>2, <3>3, <2>1, <1>1
  <2>2. CASE f = "conflict2"
    <3>1. s = Conflict2
      BY <2>2 DEF Stream
    <3>2. \A i \in 1 .. 2 * Rept : <<A, B>>[1 + ((i - 1) % 2)] = IF i % 2 = 1 THEN A ELSE B
      OBVIOUS
    <3>3. /\ DOMAIN s = 1 .. 2 * Rept
          /\ \A i \in 1 .. 2 * Rept : s[i] = Access(IF i % 2 = 1 THEN A ELSE B, FALSE)
      <4>1. \A i \in 1 .. 2 * Rept : s[i] = Free(<<A, B>>[1 + ((i - 1) % 2)])
        BY <3>1 DEF Conflict2
      <4>2. \A i \in 1 .. 2 * Rept : s[i] = Free(IF i % 2 = 1 THEN A ELSE B)
        BY <3>2, <4>1
      <4> QED
        BY <3>1, <4>2 DEF Conflict2, Free
    <3>4. ASSUME NEW i \in 1 .. 2 * Rept PROVE P(i)
      <4>1. /\ s[i] = Access((IF i % 2 = 1 THEN A ELSE B), FALSE)
            /\ (IF i % 2 = 1 THEN A ELSE B) \in Flash /\ FALSE \in BOOLEAN
        BY <3>3, LinesAre
      <4>2. /\ s[i] \in Accesses
            /\ s[i].line = (IF i % 2 = 1 THEN A ELSE B)
            /\ s[i].clash = FALSE
        BY <4>1, <1>2
      <4> HIDE DEF s
      <4> QED
        BY <4>2, <2>2 DEF Same, Adds
    <3> QED
      BY <3>3, <3>4, <2>2, <1>1 DEF Adds
  <2>3. CASE f = "conflict3"
    <3>1. s = Conflict3
      BY <2>3 DEF Stream
    <3>2. \A i \in 1 .. 3 * Rept :
            <<A, B, C>>[1 + ((i - 1) % 3)] = IF i % 3 = 1 THEN A ELSE IF i % 3 = 2 THEN B ELSE C
      OBVIOUS
    <3>3. /\ DOMAIN s = 1 .. 3 * Rept
          /\ \A i \in 1 .. 3 * Rept :
               s[i] = Access(IF i % 3 = 1 THEN A ELSE IF i % 3 = 2 THEN B ELSE C, FALSE)
      <4>1. \A i \in 1 .. 3 * Rept : s[i] = Free(<<A, B, C>>[1 + ((i - 1) % 3)])
        BY <3>1 DEF Conflict3
      <4>2. \A i \in 1 .. 3 * Rept :
              s[i] = Free(IF i % 3 = 1 THEN A ELSE IF i % 3 = 2 THEN B ELSE C)
        BY <3>2, <4>1
      <4> QED
        BY <3>1, <4>2 DEF Conflict3, Free
    <3>4. ASSUME NEW i \in 1 .. 3 * Rept PROVE P(i)
      <4>1. /\ s[i] = Access((IF i % 3 = 1 THEN A ELSE IF i % 3 = 2 THEN B ELSE C), FALSE)
            /\ (IF i % 3 = 1 THEN A ELSE IF i % 3 = 2 THEN B ELSE C) \in Flash /\ FALSE \in BOOLEAN
        BY <3>3, LinesAre
      <4>2. /\ s[i] \in Accesses
            /\ s[i].line = (IF i % 3 = 1 THEN A ELSE IF i % 3 = 2 THEN B ELSE C)
            /\ s[i].clash = FALSE
        BY <4>1, <1>2
      <4> HIDE DEF s
      <4> QED
        BY <4>2, <2>3 DEF Same, Adds
    <3> QED
      BY <3>3, <3>4, <2>3, <1>1 DEF Adds
  <2>4. ASSUME NEW bank \in {0, 1}, f \in {"mixed_same", "mixed_opposite"},
               bank = code <=> f = "mixed_same", s = Mixed(code, bank)
        PROVE  DOMAIN s = 1 .. Length(f) /\ \A i \in 1 .. Length(f) : P(i)
    <3>1. f = "mixed_opposite" => bank = 1 - code
      BY <2>4
    <3>2. \A i \in 1 .. 2 * Rept : i % 2 \in {0, 1}
      OBVIOUS
    <3>3. /\ DOMAIN s = 1 .. 2 * Rept
          /\ \A i \in 1 .. 2 * Rept :
               s[i] = IF i % 2 = 1 THEN Access(LoadCode, FALSE)
                                   ELSE Access(BankData(bank), bank = code)
      BY <2>4, <1>2, LinesAre DEF Mixed
    <3>4. ASSUME NEW i \in 1 .. 2 * Rept PROVE P(i)
      <4>1. /\ s[i] = Access((IF i % 2 = 1 THEN LoadCode ELSE BankData(bank)), (i % 2 = 0 /\ bank = code))
            /\ (IF i % 2 = 1 THEN LoadCode ELSE BankData(bank)) \in Flash /\ (i % 2 = 0 /\ bank = code) \in BOOLEAN
        <5>1. CASE i % 2 = 1
          <6>1. s[i] = Access(LoadCode, FALSE)
            BY <3>3, <5>1
          <6>2. (i % 2 = 0 /\ bank = code) = FALSE
            BY <5>1
          <6> HIDE DEF s
          <6> QED
            BY <3>2, <5>1, <6>1, <6>2, LinesAre
        <5>2. CASE i % 2 = 0
          <6>0. i % 2 # 1
            BY <5>2
          <6>1. s[i] = Access(BankData(bank), bank = code)
            BY <3>3, <6>0, Zenon
          <6>2. (i % 2 = 0 /\ bank = code) = (bank = code)
            BY <5>2
          <6> HIDE DEF s
          <6> QED
            BY <5>2, <6>1, <6>2, LinesAre
        <5> QED
          BY <3>2, <5>1, <5>2
      <4>2. /\ s[i] \in Accesses
            /\ s[i].line = (IF i % 2 = 1 THEN LoadCode ELSE BankData(bank))
            /\ s[i].clash = (i % 2 = 0 /\ bank = code)
        BY <4>1, <1>2
      <4> HIDE DEF s
      <4> QED
        BY <4>2, <3>1, <2>4 DEF Same, Adds
    <3> QED
      BY <3>3, <3>4, <2>4, <1>1 DEF Adds
  <2>5. ASSUME NEW bank \in {0, 1}, f = <<"chain_same", "chain_opposite">>[bank + 1], s = Chain(bank)
        PROVE  DOMAIN s = 1 .. Length(f) /\ \A i \in 1 .. Length(f) : P(i)
    <3>1. f = IF bank = 0 THEN "chain_same" ELSE "chain_opposite"
      BY <2>5
    <3>2. \A i \in 1 .. 2 * Rept : i % 2 \in {0, 1} /\ (i % 2 = 1 => (i + 1) \div 2 \in 1 .. Rept)
      OBVIOUS
    <3>3. /\ DOMAIN s = 1 .. 2 * Rept
          /\ \A i \in 1 .. 2 * Rept :
               s[i] = IF i % 2 = 1 THEN Access(ChainCode((i + 1) \div 2), FALSE)
                                   ELSE Access(BankData(bank), bank = 0)
      <4>1. /\ \A i \in 1 .. 2 * Rept : i % 2 = 1 => ChainCode((i + 1) \div 2) \in Flash
            /\ BankData(bank) \in Flash
        BY <3>2, LinesAre
      <4> QED
        BY <4>1, <2>5, <1>2 DEF Chain
    <3>4. ASSUME NEW i \in 1 .. 2 * Rept PROVE P(i)
      <4>1. /\ s[i] = Access((IF i % 2 = 1 THEN ChainCode((i + 1) \div 2) ELSE BankData(bank)), (i % 2 = 0 /\ bank = 0))
            /\ (IF i % 2 = 1 THEN ChainCode((i + 1) \div 2) ELSE BankData(bank)) \in Flash /\ (i % 2 = 0 /\ bank = 0) \in BOOLEAN
        <5>1. CASE i % 2 = 1
          <6>1. s[i] = Access(ChainCode((i + 1) \div 2), FALSE)
            BY <3>3, <5>1
          <6>2. (i % 2 = 0 /\ bank = 0) = FALSE
            BY <5>1
          <6> HIDE DEF s
          <6> QED
            BY <3>2, <5>1, <6>1, <6>2, LinesAre
        <5>2. CASE i % 2 = 0
          <6>0. i % 2 # 1
            BY <5>2
          <6>1. s[i] = Access(BankData(bank), bank = 0)
            BY <3>3, <6>0, Zenon
          <6>2. (i % 2 = 0 /\ bank = 0) = (bank = 0)
            BY <5>2
          <6> HIDE DEF s
          <6> QED
            BY <5>2, <6>1, <6>2, LinesAre
        <5> QED
          BY <3>2, <5>1, <5>2
      <4>2. /\ s[i] \in Accesses
            /\ s[i].line = (IF i % 2 = 1 THEN ChainCode((i + 1) \div 2) ELSE BankData(bank))
            /\ s[i].clash = (i % 2 = 0 /\ bank = 0)
        BY <4>1, <1>2
      <4> HIDE DEF s
      <4> QED
        BY <4>2, <3>1 DEF Same, Adds
    <3> QED
      BY <3>1, <3>3, <3>4, <1>1 DEF Adds
  <2>6. CASE f = "mixed_same"
    BY <2>6, <2>4 DEF Stream
  <2>7. CASE f = "mixed_opposite"
    <3>1. s = Mixed(code, 1 - code) /\ 1 - code \in {0, 1} /\ 1 - code # code
      BY <2>7 DEF Stream
    <3> QED
      BY <3>1, <2>7, <2>4
  <2>8. CASE f = "chain_same"
    BY <2>8, <2>5 DEF Stream
  <2>9. CASE f = "chain_opposite"
    BY <2>9, <2>5 DEF Stream
  <2> QED
    BY <2>1, <2>2, <2>3, <2>6, <2>7, <2>8, <2>9 DEF FieldNames, Adds
<1>4. s \in Seq(Accesses) /\ Len(s) = Length(f)
  <2>1. s = [i \in 1 .. Length(f) |-> s[i]]
    <3>1. s = [i \in DOMAIN s |-> s[i]]
      BY DEF Stream, Add32, Conflict2, Conflict3, Mixed, Chain, FieldNames
    <3> HIDE DEF s
    <3> QED
      BY <3>1, <1>3
  <2>2. \A i \in 1 .. Length(f) : s[i] \in Accesses
    BY <1>3
  <2> HIDE DEF s
  <2>3. s \in [1 .. Length(f) -> Accesses]
    BY <2>1, <2>2
  <2> QED
    BY <2>3, <1>1
<1> QED
  BY <1>1, <1>3, <1>4
-----------------------------------------------------------------------------
(* The cache *)

Well ==
  /\ cache \in [Sets -> SUBSET Flash]
  /\ \A s \in Sets : Two(cache[s]) /\ \A m \in cache[s] : m.set = s

LEMMA FetchIs ==
  ASSUME Well, NEW l \in Flash, Fetch(l)
  PROVE  /\ Well' /\ l \in cache'[l.set]
         /\ Held(l) => cache' = cache
         /\ \A s \in Sets : s # l.set => cache'[s] = cache[s]
         /\ \A s \in Sets : cache'[s] \subseteq cache[s] \cup {l}
         /\ \A p : cache[l.set] \subseteq {l, p} => \A s \in Sets : cache[s] \subseteq cache'[s]
<1> DEFINE ways == cache[l.set]
<1>1. l.set \in Sets
  BY DEF Flash
<1>2. CASE Held(l)
  <2>1. cache' = cache
    BY <1>2 DEF Fetch
  <2>2. Well'
    BY <2>1 DEF Well, Two
  <2>3. l \in cache'[l.set]
    BY <1>2, <2>1 DEF Held
  <2> QED
    BY <2>1, <2>2, <2>3
<1>3. CASE ~Held(l)
  <2>1. PICK v \in SUBSET ways :
          /\ Cardinality(v) = IF Cardinality(ways) < 2 THEN 0 ELSE 1
          /\ cache' = [cache EXCEPT ![l.set] = (ways \ v) \cup {l}]
    BY <1>3 DEF Fetch
  <2>2. Two(ways) /\ l \notin ways /\ ways \in SUBSET Flash /\ \A m \in ways : m.set = l.set
    BY <1>1, <1>3 DEF Well, Held
  <2>3. Two((ways \ v) \cup {l}) /\ \A p : ways \subseteq {p} => v = {}
    BY <2>1, <2>2, Fills
  <2>4. /\ cache' \in [Sets -> SUBSET Flash]
        /\ cache'[l.set] = (ways \ v) \cup {l}
        /\ \A s \in Sets : s # l.set => cache'[s] = cache[s]
    BY <1>1, <2>1, <2>2 DEF Well
  <2>5. Well'
    BY <2>2, <2>3, <2>4 DEF Well, Two
  <2>6. ASSUME NEW p, ways \subseteq {l, p}
        PROVE  \A s \in Sets : cache[s] \subseteq cache'[s]
    <3>1. ways \subseteq {p}
      BY <2>2, <2>6
    <3>2. v = {}
      BY <2>3, <3>1
    <3> QED
      BY <2>4, <3>2
  <2> QED
    BY <1>3, <2>4, <2>5, <2>6
<1> QED
  BY <1>2, <1>3

\* The lines of a stream that share a set are two; every add has its own.
LEMMA NoThird ==
  ASSUME NEW f \in FieldNames, f # "conflict3", NEW code \in {0, 1}, NEW i \in 1 .. Length(f)
  PROVE  \E p : \A j \in 1 .. Length(f) :
           LET s == Stream(f, code) IN
           s[j].line.set = s[i].line.set =>
             s[j].line = s[i].line \/ (f \notin Adds /\ s[j].line = p)
<1> DEFINE s == Stream(f, code)
<1>1. CASE f \in Adds
  <2>1. \A j \in 1 .. Length(f) : s[j].line = AddCode(j \div 2) /\ AddCode(j \div 2).set = j \div 2
    BY <1>1, Places, AddLines, LinesAre DEF Length
  <2> QED
    BY <2>1
<1>2. CASE f = "conflict2"
  <2>1. \A j \in 1 .. Length(f) : s[j].line \in {A, B}
    BY <1>2, Places
  <2> QED
    BY <2>1, <1>2 DEF Adds
<1>3. ASSUME NEW bank \in {0, 1}, f \notin Adds,
             \A j \in 1 .. Length(f) : s[j].line \in {LoadCode, BankData(bank)}
      PROVE  \E p : \A j \in 1 .. Length(f) :
               s[j].line.set = s[i].line.set => s[j].line = s[i].line \/ (f \notin Adds /\ s[j].line = p)
  BY <1>3
<1>4. CASE f = "mixed_same"
  <2>1. \A j \in 1 .. Length(f) : s[j].line \in {LoadCode, BankData(code)}
    BY <1>4, Places
  <2> QED
    BY <1>3, <1>4, <2>1 DEF Adds
<1>5. CASE f = "mixed_opposite"
  <2>1. \A j \in 1 .. Length(f) : s[j].line \in {LoadCode, BankData(1 - code)}
    BY <1>5, Places
  <2>2. 1 - code \in {0, 1}
    OBVIOUS
  <2> QED
    BY <1>3, <1>5, <2>1, <2>2 DEF Adds
<1>6. ASSUME NEW bank \in {0, 1}, f \notin Adds, Length(f) = 2 * Rept,
             \A j \in 1 .. Length(f) :
               s[j].line = IF j % 2 = 1 THEN ChainCode((j + 1) \div 2) ELSE BankData(bank)
      PROVE  \E p : \A j \in 1 .. Length(f) :
               s[j].line.set = s[i].line.set => s[j].line = s[i].line \/ (f \notin Adds /\ s[j].line = p)
  <2>1. \A j \in 1 .. Length(f) :
          \/ s[j].line = BankData(bank) /\ s[j].line.set = 1
          \/ \E k \in 1 .. Rept : s[j].line = ChainCode(k) /\ s[j].line.set = k
    <3>1. \A j \in 1 .. 2 * Rept : j % 2 = 1 => (j + 1) \div 2 \in 1 .. Rept
      OBVIOUS
    <3> QED
      BY <1>6, <3>1, LinesAre
  <2>2. CASE s[i].line = BankData(bank) /\ s[i].line.set = 1
    <3>1. \A j \in 1 .. Length(f) :
            s[j].line.set = s[i].line.set => s[j].line = s[i].line \/ (f \notin Adds /\ s[j].line = ChainCode(1))
      BY <2>1, <2>2, <1>6
    <3> QED
      BY <3>1
  <2>3. ASSUME NEW k \in 1 .. Rept, s[i].line = ChainCode(k) /\ s[i].line.set = k
        PROVE  \A j \in 1 .. Length(f) :
                 s[j].line.set = s[i].line.set => s[j].line = s[i].line \/ (f \notin Adds /\ s[j].line = BankData(bank))
    BY <2>1, <2>3, <1>6
  <2> QED
    BY <2>1, <2>2, <2>3
<1>7. CASE f = "chain_same"
  BY <1>6, <1>7, Places DEF Length, Adds
<1>8. CASE f = "chain_opposite"
  BY <1>6, <1>8, Places DEF Length, Adds
<1> QED
  BY <1>1, <1>2, <1>4, <1>5, <1>7, <1>8 DEF FieldNames, Adds
-----------------------------------------------------------------------------
(* The inductive invariant *)

Phase ==
  /\ codeBank \in {0, 1} /\ irq \in BOOLEAN
  /\ cyccnt \in Word /\ start \in Word
  /\ pc \in {"between", "main", "pass"}
  /\ field \in 1 .. 9 /\ pos \in Nat /\ pass \in Nat
  /\ row \in Seq(Int) /\ Len(row) = field - 1
  /\ irq => pc = "between"
  /\ pc = "between" => field = 1
  /\ pc = "pass" => field <= 8 /\ pos \in 1 .. Length(Field) /\ pass <= WarmUps(Field)

\* The line of an access of the stream at hand.
LineAt(j) == Stream(Field, codeBank)[j].line

\* An emptied cache holds what the stream has put into it; before the first pass
\* of the cold stream is over that is the part behind it, and after the warm-ups
\* of every other stream that no three lines fight over, it is all of it.
Contents ==
  pc = "pass" =>
    /\ Invalidates(Field) =>
         \A s \in Sets : \A m \in cache[s] : \E j \in 1 .. Length(Field) : m = LineAt(j)
    /\ Field = "cold_add32" =>
         /\ \A s \in Sets : \A m \in cache[s] : \E j \in 1 .. pos - 1 : m = AddCode(j \div 2)
         /\ pos > 1 => Held(AddCode((pos - 1) \div 2))
    /\ Field \notin {"cold_add32", "conflict3"} =>
         \A j \in 1 .. Length(Field) : j < pos \/ pass < 2 => Held(LineAt(j))

\* What n accesses of a stream cost that no three lines fight over.
Spent(f, n) ==
  IF f = "cold_add32" THEN (IF n = 0 THEN 0 ELSE n + (n \div 2 + 1) * MissCost)
  ELSE IF f \in Same THEN n + (n \div 2) * ClashCost ELSE n

\* Three lines in two ways: a round of the three misses once at least.
RoundsMiss(t, n) ==
  LET least == (n \div 3) * (3 + MissCost) + (n % 3) IN
  /\ t <= n * (1 + MissCost)
  /\ t >= least
  /\ \/ t >= least + MissCost
     \/ (n % 3 >= 1 => Held(A)) /\ (n % 3 = 2 => Held(B))

Timed ==
  pc = "pass" /\ pass = 0 =>
    /\ Elapsed \in Nat /\ Elapsed <= (pos - 1) * Most
    /\ IF Field = "conflict3" THEN RoundsMiss(Elapsed, pos - 1) ELSE Elapsed = Spent(Field, pos - 1)

Right(f, t) ==
  IF f = "conflict3"
  THEN t >= Rept * (3 + MissCost) /\ t <= 3 * Rept * (1 + MissCost)
  ELSE t = Expected(f)

Counts == \A n \in 1 .. Len(row) : Right(Fields[n], row[n])

\* The table holds rows the board has printed.
Table ==
  /\ rep \in 0 .. Reps /\ read \in Nat /\ tail \in {"none", "part", "digits"}
  /\ pc # "between" => rep < Reps
  /\ read <= rep /\ (tail # "none" => read < rep)
  /\ captured = "saved" => Matches >= Reps /\ \A i \in 1 .. Matches : Complete(i)

IInv == Phase /\ Well /\ Contents /\ Timed /\ Counts /\ Table

LEMMA FieldIs ==
  Len(Fields) = 8 /\ \A n \in 1 .. 8 : Fields[n] \in FieldNames
BY DEF Fields, FieldNames

LEMMA Initially == Init => IInv
<1> SUFFICES ASSUME Init PROVE IInv
  OBVIOUS
<1>1. Phase
  <2>1. 0 \in Word
    BY MostTimes DEF Word
  <2> QED
    BY <2>1 DEF Init, Phase
<1>2. Well
  <2>1. Two({})
    BY FS_EmptySet DEF Two
  <2>2. \A s \in Sets : cache[s] = {}
    BY DEF Init
  <2>3. cache \in [Sets -> SUBSET Flash]
    BY DEF Init
  <2> QED
    BY <2>1, <2>2, <2>3 DEF Well
<1>3. Contents /\ Timed
  BY DEF Init, Contents, Timed
<1>4. Counts
  BY DEF Init, Counts
<1>5. Table
  BY DEF Init, Table
<1> QED
  BY <1>1, <1>2, <1>3, <1>4, <1>5 DEF IInv
-----------------------------------------------------------------------------
(* One access *)

LEMMA CostIs ==
  ASSUME NEW f \in FieldNames, NEW code \in {0, 1}, NEW i \in 1 .. Length(f)
  PROVE  LET a == Stream(f, code)[i]
             w == IF f \in Same /\ i % 2 = 0 THEN ClashCost ELSE 0 IN
         /\ Cost(a) = IF Held(a.line) THEN 1 + w ELSE 1 + MissCost + w
         /\ Cost(a) \in 0 .. Most
         /\ a.line \in Flash
<1> DEFINE a == Stream(f, code)[i]
<1>1. a \in Accesses /\ a.clash = (f \in Same /\ i % 2 = 0)
  BY Places
<1>2. a.line \in Flash
  BY <1>1 DEF Accesses
<1>3. Cost(a) = 1 + (IF Held(a.line) THEN 0 ELSE MissCost)
                  + (IF f \in Same /\ i % 2 = 0 THEN ClashCost ELSE 0)
  BY <1>1 DEF Cost
<1>4. MissCost \in Nat /\ ClashCost \in Nat
  OBVIOUS
<1>5. CASE f \in Same /\ i % 2 = 0
  BY <1>2, <1>3, <1>4, <1>5 DEF Most
<1>6. CASE ~(f \in Same /\ i % 2 = 0)
  BY <1>2, <1>3, <1>4, <1>6 DEF Most
<1> QED
  BY <1>5, <1>6

\* After an access of the stream the cache holds what Contents says of the next one.
LEMMA AccessFills ==
  ASSUME Phase, Well, Contents, pc = "pass", Fetch(LineAt(pos))
  PROVE  /\ Well'
         /\ Invalidates(Field) =>
              \A s \in Sets : \A m \in cache'[s] : \E j \in 1 .. Length(Field) : m = LineAt(j)
         /\ Field = "cold_add32" =>
              /\ \A s \in Sets : \A m \in cache'[s] : \E j \in 1 .. pos : m = AddCode(j \div 2)
              /\ AddCode(pos \div 2) \in cache'[AddCode(pos \div 2).set]
         /\ Field \notin {"cold_add32", "conflict3"} =>
              \A j \in 1 .. Length(Field) :
                j <= pos \/ pass < 2 => LineAt(j) \in cache'[LineAt(j).set]
<1> DEFINE l == LineAt(pos)
<1>1. /\ Field \in FieldNames /\ codeBank \in {0, 1} /\ Length(Field) \in Nat
      /\ pos \in 1 .. Length(Field) /\ pos \in Nat
  <2>1. Field \in FieldNames /\ codeBank \in {0, 1}
    BY FieldIs DEF Phase, Field
  <2>2. Length(Field) \in 1 .. 3 * Rept
    BY <2>1, Places
  <2>3. pos \in 1 .. Length(Field)
    BY DEF Phase
  <2> QED
    BY <2>1, <2>2, <2>3
<1>2. \A j \in 1 .. Length(Field) : LineAt(j) \in Flash /\ LineAt(j).set \in Sets
  BY <1>1, CostIs DEF LineAt, Flash
<1>3. l \in Flash
  BY <1>1, <1>2
<1>4. Well' /\ l \in cache'[l.set] /\ \A s \in Sets : cache'[s] \subseteq cache[s] \cup {l}
  BY <1>3, FetchIs
<1>5. ASSUME Invalidates(Field)
      PROVE  \A s \in Sets : \A m \in cache'[s] : \E j \in 1 .. Length(Field) : m = LineAt(j)
  BY <1>1, <1>4, <1>5 DEF Contents
<1>6. ASSUME Field = "cold_add32"
      PROVE  /\ \A s \in Sets : \A m \in cache'[s] : \E j \in 1 .. pos : m = AddCode(j \div 2)
             /\ AddCode(pos \div 2) \in cache'[AddCode(pos \div 2).set]
  <2>1. l = AddCode(pos \div 2)
    BY <1>1, <1>6, Places DEF LineAt, Adds
  <2>2. \A s \in Sets : \A m \in cache[s] : \E j \in 1 .. pos - 1 : m = AddCode(j \div 2)
    BY <1>6 DEF Contents
  <2>3. \A j \in 1 .. pos - 1 : j \in 1 .. pos
    BY <1>1
  <2>4. pos \in 1 .. pos
    BY <1>1
  <2> QED
    BY <1>4, <2>1, <2>2, <2>3, <2>4
<1>7. ASSUME Field \notin {"cold_add32", "conflict3"}, NEW j \in 1 .. Length(Field),
             j <= pos \/ pass < 2
      PROVE  LineAt(j) \in cache'[LineAt(j).set]
  <2>1. CASE j = pos
    BY <1>4, <2>1
  <2>2. CASE j # pos
    <3>1. LineAt(j) \in cache[LineAt(j).set]
      BY <1>1, <1>7, <2>2 DEF Contents, Held
    <3>2. PICK p : \A k \in 1 .. Length(Field) :
            LineAt(k).set = l.set => LineAt(k) = l \/ (Field \notin Adds /\ LineAt(k) = p)
      BY <1>1, <1>7, NoThird DEF LineAt
    <3>3. CASE Field \in Adds
      <4>1. LineAt(j).set # l.set \/ LineAt(j) = l
        BY <3>2, <3>3
      <4> QED
        BY <1>2, <1>3, <1>4, <3>1, <4>1, FetchIs
    <3>4. CASE Field \notin Adds
      <4>1. Invalidates(Field)
        BY <3>4 DEF Invalidates, Adds
      <4>2. \A m \in cache[l.set] : m.set = l.set /\ \E k \in 1 .. Length(Field) : m = LineAt(k)
        BY <1>1, <1>2, <4>1 DEF Contents, Well
      <4>3. cache[l.set] \subseteq {l, p}
        BY <3>2, <4>2
      <4>4. \A s \in Sets : cache[s] \subseteq cache'[s]
        BY <1>3, <4>3, FetchIs
      <4> QED
        BY <1>2, <3>1, <4>4
    <3> QED
      BY <3>3, <3>4
  <2> QED
    BY <2>1, <2>2
<1> QED
  BY <1>4, <1>5, <1>6, <1>7

\* The time of an access of a stream that no three lines fight over.
LEMMA AccessTakes ==
  ASSUME Phase, Well, Contents, Timed, pc = "pass", pass = 0, Field # "conflict3"
  PROVE  Elapsed + Cost(Stream(Field, codeBank)[pos]) = Spent(Field, pos)
<1> DEFINE c == Cost(Stream(Field, codeBank)[pos])
<1>1. /\ Field \in FieldNames /\ codeBank \in {0, 1}
      /\ pos \in 1 .. Length(Field) /\ pos \in Nat /\ pos >= 1
  <2>1. Field \in FieldNames /\ codeBank \in {0, 1} /\ pos \in 1 .. Length(Field)
    BY FieldIs DEF Phase, Field
  <2>2. Length(Field) \in 1 .. 3 * Rept
    BY <2>1, Places
  <2> QED
    BY <2>1, <2>2
<1>2. Elapsed = Spent(Field, pos - 1)
  BY DEF Timed
<1>3. MissCost \in Nat /\ ClashCost \in Nat
  OBVIOUS
<1>4. CASE Field = "cold_add32"
  <2> DEFINE i == pos \div 2
  <2>1. /\ LineAt(pos) = AddCode(i) /\ AddCode(i).set = i /\ i \in Sets /\ i \in Nat
        /\ pos \in 1 .. Rept
    <3>1. pos \in 1 .. Rept
      BY <1>1, <1>4 DEF Adds, Length
    <3> QED
      BY <1>1, <1>4, <3>1, Places, AddLines, LinesAre DEF LineAt, Adds
  <2>2. c = IF Held(AddCode(i)) THEN 1 ELSE 1 + MissCost
    BY <1>1, <1>4, <2>1, CostIs DEF LineAt, Same
  <2>3. ASSUME \A j \in 1 .. pos - 1 : j \div 2 # i
        PROVE  ~Held(AddCode(i))
    <3>1. SUFFICES ASSUME AddCode(i) \in cache[i] PROVE FALSE
      BY <2>1 DEF Held
    <3>2. PICK j \in 1 .. pos - 1 : AddCode(i) = AddCode(j \div 2)
      BY <1>4, <2>1, <3>1 DEF Contents
    <3>3. j \div 2 = i
      BY <3>2, LinesAre
    <3> QED
      BY <2>3, <3>3
  <2>4. CASE pos = 1
    <3>1. ~Held(AddCode(i))
      BY <2>3, <2>4
    <3>2. i = 0 /\ pos - 1 = 0
      BY <2>4
    <3> QED
      BY <1>2, <1>3, <1>4, <2>2, <2>4, <3>1, <3>2 DEF Spent
  <2>5. CASE pos > 1 /\ i = (pos - 1) \div 2
    <3>1. Held(AddCode(i))
      BY <1>4, <2>5 DEF Contents
    <3>2. Elapsed = (pos - 1) + (i + 1) * MissCost
      BY <1>1, <1>2, <1>4, <2>5 DEF Spent
    <3>3. Spent(Field, pos) = pos + (i + 1) * MissCost
      BY <1>1, <1>4, <2>5 DEF Spent
    <3>4. (i + 1) * MissCost \in Int
      BY <1>3, <2>1
    <3> QED
      BY <1>1, <2>2, <3>1, <3>2, <3>3, <3>4
  <2>6. CASE pos > 1 /\ i = (pos - 1) \div 2 + 1 /\ \A j \in 1 .. pos - 1 : j \div 2 # i
    <3>1. ~Held(AddCode(i))
      BY <2>3, <2>6
    <3>2. Elapsed = (pos - 1) + i * MissCost
      BY <1>1, <1>2, <1>4, <2>6 DEF Spent
    <3>3. Spent(Field, pos) = pos + (i + 1) * MissCost
      BY <1>1, <1>4, <2>6 DEF Spent
    <3>4. (i + 1) * MissCost = i * MissCost + MissCost /\ i * MissCost \in Int
      BY <1>3, <2>1
    <3> QED
      BY <1>1, <1>3, <2>2, <3>1, <3>2, <3>3, <3>4
  <2> QED
    BY <1>1, <2>1, <2>4, <2>5, <2>6, AddLines
<1>5. CASE Field # "cold_add32"
  <2>1. Held(LineAt(pos))
    BY <1>1, <1>5 DEF Contents
  <2>2. CASE Field \in Same /\ pos % 2 = 0
    <3>1. c = 1 + ClashCost
      BY <1>1, <2>1, <2>2, CostIs DEF LineAt
    <3> QED
      BY <1>1, <1>2, <1>5, <2>2, <3>1 DEF Spent
  <2>3. CASE Field \in Same /\ pos % 2 # 0
    <3>1. c = 1
      BY <1>1, <2>1, <2>3, CostIs DEF LineAt
    <3> QED
      BY <1>1, <1>2, <1>5, <2>3, <3>1 DEF Spent
  <2>4. CASE Field \notin Same
    <3>1. c = 1
      BY <1>1, <2>1, <2>4, CostIs DEF LineAt
    <3> QED
      BY <1>1, <1>2, <1>5, <2>4, <3>1 DEF Spent
  <2> QED
    BY <2>2, <2>3, <2>4
<1> QED
  BY <1>4, <1>5

\* Of three lines the third of a round misses when the first two have not.
LEMMA RoundTakes ==
  ASSUME Phase, Well, Timed, pc = "pass", pass = 0, Field = "conflict3",
         Fetch(LineAt(pos)), NEW t,
         t = Elapsed + Cost(Stream(Field, codeBank)[pos])
  PROVE  /\ t <= pos * (1 + MissCost)
         /\ t >= (pos \div 3) * (3 + MissCost) + (pos % 3)
         /\ \/ t >= (pos \div 3) * (3 + MissCost) + (pos % 3) + MissCost
            \/ (pos % 3 >= 1 => A \in cache'[0]) /\ (pos % 3 = 2 => B \in cache'[0])
<1> DEFINE c == Cost(Stream(Field, codeBank)[pos])
           n == pos - 1
           k == n \div 3
           r == n % 3
<1>1. /\ Field \in FieldNames /\ codeBank \in {0, 1}
      /\ pos \in 1 .. Length(Field) /\ pos \in Nat /\ pos >= 1
  <2>1. Field \in FieldNames /\ codeBank \in {0, 1} /\ pos \in 1 .. Length(Field)
    BY FieldIs DEF Phase, Field
  <2>2. Length(Field) \in 1 .. 3 * Rept
    BY <2>1, Places
  <2> QED
    BY <2>1, <2>2
<1>2. MissCost \in Nat /\ 0 \in Sets
  BY DEF Sets
<1>3. /\ Elapsed \in Nat /\ Elapsed <= n * (1 + MissCost)
      /\ Elapsed >= k * (3 + MissCost) + r
      /\ \/ Elapsed >= k * (3 + MissCost) + r + MissCost
         \/ (r >= 1 => A \in cache[0]) /\ (r = 2 => B \in cache[0])
  <2>1. Elapsed \in Nat /\ RoundsMiss(Elapsed, n)
    BY DEF Timed
  <2> QED
    BY <2>1, LinesAre DEF RoundsMiss, Held
<1>4. /\ k \in Nat /\ r \in 0 .. 2
      /\ r = 0 => pos % 3 = 1 /\ pos \div 3 = k
      /\ r = 1 => pos % 3 = 2 /\ pos \div 3 = k
      /\ r = 2 => pos % 3 = 0 /\ pos \div 3 = k + 1
  BY <1>1
<1>5. /\ n * (1 + MissCost) + (1 + MissCost) = pos * (1 + MissCost)
      /\ (k + 1) * (3 + MissCost) = k * (3 + MissCost) + 3 + MissCost
      /\ n * (1 + MissCost) \in Nat /\ k * (3 + MissCost) \in Nat
  BY <1>1, <1>2, <1>4
<1>6. /\ c = IF Held(LineAt(pos)) THEN 1 ELSE 1 + MissCost
      /\ LineAt(pos) = IF r = 0 THEN A ELSE IF r = 1 THEN B ELSE C
  <2>1. c = IF Held(LineAt(pos)) THEN 1 ELSE 1 + MissCost
    BY <1>1, CostIs DEF LineAt, Same
  <2>2. LineAt(pos) = IF pos % 3 = 1 THEN A ELSE IF pos % 3 = 2 THEN B ELSE C
    BY <1>1, Places DEF LineAt
  <2> QED
    BY <1>4, <2>1, <2>2
<1>7. LineAt(pos) \in Flash /\ LineAt(pos).set = 0
  BY <1>6, LinesAre
<1>8. /\ LineAt(pos) \in cache'[0]
      /\ Held(LineAt(pos)) => cache' = cache
  BY <1>7, FetchIs
<1>9. t <= pos * (1 + MissCost)
  BY <1>2, <1>3, <1>5, <1>6
<1>10. Held(LineAt(pos)) <=> LineAt(pos) \in cache[0]
  BY <1>7 DEF Held
<1>11. t = Elapsed + c
  OBVIOUS
<1> HIDE DEF c, k, r, n
<1>12. CASE r < 2
  <2>2. \/ t >= k * (3 + MissCost) + r + 1 + MissCost
        \/ (r >= 0 => A \in cache'[0]) /\ (r = 1 => B \in cache'[0])
    BY <1>3, <1>4, <1>6, <1>8, <1>11
  <2>3. t >= k * (3 + MissCost) + r + 1 /\ t \in Int
    BY <1>2, <1>3, <1>4, <1>5, <1>6, <1>11
  <2> QED
    BY <1>4, <1>9, <1>12, <2>2, <2>3
<1>13. CASE r = 2
  <2>1. ASSUME A \in cache[0], B \in cache[0]
        PROVE  C \notin cache[0]
    <3>1. Two(cache[0])
      BY <1>2 DEF Well
    <3> QED
      BY <2>1, <3>1, TwoOfThree, LinesAre
  <2>3. t \in Int /\ t >= k * (3 + MissCost) + r + MissCost + 1
    BY <1>3, <1>4, <1>6, <1>10, <1>11, <1>13, <2>1
  <2>4. (pos \div 3) * (3 + MissCost) = k * (3 + MissCost) + 3 + MissCost /\ pos % 3 = 0
    BY <1>4, <1>5, <1>13
  <2> QED
    BY <1>2, <1>5, <1>9, <1>13, <2>3, <2>4
<1> QED
  BY <1>4, <1>12, <1>13

\* A whole stream costs what is expected of it.
LEMMA WholeStream ==
  ASSUME NEW f \in FieldNames, f # "conflict3"
  PROVE  Spent(f, Length(f)) = Expected(f)
<1>1. Rept \in Nat /\ MissCost \in Nat /\ ClashCost \in Nat
  OBVIOUS
<1>2. (2 * Rept) \div 2 = Rept /\ 2 * Rept + Rept * ClashCost = Rept * (2 + ClashCost)
  BY <1>1
<1>3. CASE f = "cold_add32"
  BY <1>3 DEF Spent, Length, Expected, Adds
<1>4. CASE f = "warm_add32"
  BY <1>4 DEF Spent, Length, Expected, Adds, Same
<1>5. CASE f \in Same
  <2>1. Length(f) = 2 * Rept
    BY <1>5 DEF Same, Length, Adds
  <2>2. Spent(f, 2 * Rept) = 2 * Rept + Rept * ClashCost
    BY <1>2, <1>5 DEF Same, Spent
  <2>3. Expected(f) = Rept * (2 + ClashCost)
    BY <1>5 DEF Same, Expected
  <2> QED
    BY <1>2, <2>1, <2>2, <2>3
<1>6. CASE f \in {"conflict2", "mixed_opposite", "chain_opposite"}
  BY <1>6 DEF Same, Spent, Length, Adds, Expected
<1> QED
  BY <1>3, <1>4, <1>5, <1>6 DEF FieldNames, Same

LEMMA StepPreserves == IInv /\ Step => IInv'
<1> SUFFICES ASSUME IInv, Step PROVE IInv'
  OBVIOUS
<1> USE DEF IInv
<1> DEFINE a == Stream(Field, codeBank)[pos]
           now == After(Cost(a))
           t == Elapsed + Cost(a)
<1>1. /\ pc = "pass" /\ UNCHANGED <<codeBank, irq, rep, host>>
      /\ Fetch(LineAt(pos)) /\ cyccnt' = now
  BY DEF Step, LineAt
<1>2. /\ Field \in FieldNames /\ codeBank \in {0, 1} /\ field \in 1 .. 8
      /\ Length(Field) \in 1 .. 3 * Rept
      /\ pos \in 1 .. Length(Field) /\ pos \in 1 .. 3 * Rept /\ pos \in Nat
      /\ Len(Stream(Field, codeBank)) = Length(Field)
  <2>1. Field \in FieldNames /\ codeBank \in {0, 1} /\ field \in 1 .. 8 /\ pos \in 1 .. Length(Field)
    BY <1>1, FieldIs DEF Phase, Field
  <2>2. Length(Field) \in 1 .. 3 * Rept /\ Len(Stream(Field, codeBank)) = Length(Field)
    BY <2>1, Places
  <2> QED
    BY <2>1, <2>2
<1>3. Cost(a) \in 0 .. Most
  BY <1>2, CostIs
<1>4. now \in Word
  BY <1>3, AnyTime DEF Phase
<1>5. ASSUME pass = 0
      PROVE
        /\ t \in Nat /\ t <= pos * Most /\ (now - start) % Wrap = t
        /\ Field # "conflict3" => t = Spent(Field, pos)
        /\ Field = "conflict3" =>
             /\ t <= pos * (1 + MissCost)
             /\ t >= (pos \div 3) * (3 + MissCost) + (pos % 3)
             /\ \/ t >= (pos \div 3) * (3 + MissCost) + (pos % 3) + MissCost
                \/ (pos % 3 >= 1 => A \in cache'[0]) /\ (pos % 3 = 2 => B \in cache'[0])
  <2>1. Elapsed \in Nat /\ Elapsed <= (pos - 1) * Most
    BY <1>1, <1>5 DEF Timed
  <2>2. t <= pos * Most /\ (now - start) % Wrap = t
    BY <1>2, <1>3, <2>1, TimePasses DEF Phase
  <2>3. t \in Nat
    BY <1>3, <2>1, MostTimes
  <2>4. Field # "conflict3" => t = Spent(Field, pos)
    BY <1>1, <1>5, AccessTakes
  <2>5. Field = "conflict3" =>
             /\ t <= pos * (1 + MissCost)
             /\ t >= (pos \div 3) * (3 + MissCost) + (pos % 3)
             /\ \/ t >= (pos \div 3) * (3 + MissCost) + (pos % 3) + MissCost
                \/ (pos % 3 >= 1 => A \in cache'[0]) /\ (pos % 3 = 2 => B \in cache'[0])
    BY <1>1, <1>5, RoundTakes
  <2> QED
    BY <2>2, <2>3, <2>4, <2>5
<1>6. Well'
      /\ (Invalidates(Field) =>
            \A s \in Sets : \A m \in cache'[s] : \E j \in 1 .. Length(Field) : m = LineAt(j))
      /\ (Field = "cold_add32" =>
            /\ \A s \in Sets : \A m \in cache'[s] : \E j \in 1 .. pos : m = AddCode(j \div 2)
            /\ AddCode(pos \div 2) \in cache'[AddCode(pos \div 2).set])
      /\ (Field \notin {"cold_add32", "conflict3"} =>
            \A j \in 1 .. Length(Field) : j <= pos \/ pass < 2 => LineAt(j) \in cache'[LineAt(j).set])
  BY <1>1, AccessFills
<1>7. Table'
  <2>1. pc' # "between" => rep < Reps
    BY <1>1 DEF Table
  <2> QED
    BY <1>1, <2>1 DEF Table, host, Matches, Complete
<1>8. \/ /\ pos < Length(Field) /\ pos' = pos + 1
         /\ UNCHANGED <<pc, pass, start, field, row>>
      \/ /\ pos = Length(Field) /\ pass > 0
         /\ pos' = 1 /\ pass' = pass - 1 /\ start' = now
         /\ UNCHANGED <<pc, field, row>>
      \/ /\ pos = Length(Field) /\ pass = 0
         /\ row' = Append(row, (now - start) % Wrap)
         /\ field' = field + 1 /\ pc' = "main"
         /\ UNCHANGED <<pass, pos, start>>
  BY <1>2 DEF Step
<1> HIDE DEF a, now, t
<1>9. CASE /\ pos < Length(Field) /\ pos' = pos + 1
           /\ UNCHANGED <<pc, pass, start, field, row>>
  <2>1. Field' = Field /\ \A j : LineAt(j)' = LineAt(j)
    BY <1>1, <1>9 DEF Field, LineAt
  <2>2. pos' \in 1 .. Length(Field) /\ pos' - 1 = pos
    BY <1>2, <1>9
  <2>3. Phase'
    BY <1>1, <1>4, <1>9, <2>1, <2>2 DEF Phase
  <2>4. Contents'
    BY <1>2, <1>6, <1>9, <2>1 DEF Contents, Held
  <2>5. Timed'
    <3>1. Elapsed' = (now - start) % Wrap
      BY <1>1, <1>9 DEF Elapsed
    <3> QED
      BY <1>5, <1>9, <2>1, <2>2, <3>1, LinesAre DEF Timed, RoundsMiss, Held
  <2>6. Counts'
    BY <1>9 DEF Counts
  <2> QED
    BY <1>6, <1>7, <2>3, <2>4, <2>5, <2>6
<1>10. CASE /\ pos = Length(Field) /\ pass > 0
            /\ pos' = 1 /\ pass' = pass - 1 /\ start' = now
            /\ UNCHANGED <<pc, field, row>>
  <2>1. Field' = Field /\ \A j : LineAt(j)' = LineAt(j)
    BY <1>1, <1>10 DEF Field, LineAt
  <2>2. Phase'
    BY <1>1, <1>4, <1>10, <2>1 DEF Phase, WarmUps
  <2>3. Contents'
    <3>1. Field # "cold_add32"
      BY <1>1, <1>10 DEF Phase, WarmUps
    <3> QED
      BY <1>6, <1>10, <2>1, <3>1 DEF Contents, Held
  <2>4. Timed'
    <3>1. Elapsed' = 0
      BY <1>1, <1>4, <1>10, NoTime DEF Elapsed
    <3>2. Spent(Field, 0) = 0
      BY DEF Spent
    <3> QED
      BY <1>10, <2>1, <3>1, <3>2, MostTimes DEF Timed, RoundsMiss
  <2>5. Counts'
    BY <1>10 DEF Counts
  <2> QED
    BY <1>6, <1>7, <2>2, <2>3, <2>4, <2>5
<1>11. CASE /\ pos = Length(Field) /\ pass = 0
            /\ row' = Append(row, (now - start) % Wrap)
            /\ field' = field + 1 /\ pc' = "main"
            /\ UNCHANGED <<pass, pos, start>>
  <2>1. row \in Seq(Int) /\ Len(row) = field - 1 /\ t \in Int /\ row' = Append(row, t)
    BY <1>5, <1>11 DEF Phase
  <2>2. /\ row' \in Seq(Int) /\ Len(row') = field
        /\ row'[field] = t /\ \A n \in 1 .. Len(row) : row'[n] = row[n]
    BY <1>2, <2>1
  <2>3. Right(Field, t)
    <3>1. CASE Field # "conflict3"
      BY <1>2, <1>5, <1>11, <3>1, WholeStream DEF Right
    <3>2. CASE Field = "conflict3"
      <4>1. pos = 3 * Rept /\ pos \div 3 = Rept /\ pos % 3 = 0
        BY <1>11, <3>2 DEF Length, Adds
      <4>2. t <= 3 * Rept * (1 + MissCost)
        BY <1>5, <1>11, <3>2, <4>1
      <4>3. t >= Rept * (3 + MissCost) + 0
        BY <1>5, <1>11, <3>2, <4>1
      <4> QED
        BY <3>2, <4>2, <4>3 DEF Right
    <3> QED
      BY <3>1, <3>2
  <2>4. Counts'
    <3>1. ASSUME NEW n \in 1 .. field PROVE Right(Fields[n], row'[n])
      <4>1. n = field \/ n \in 1 .. Len(row)
        BY <1>2, <2>1
      <4> QED
        BY <2>2, <2>3, <4>1 DEF Counts, Field
    <3> QED
      BY <2>2, <3>1 DEF Counts
  <2>5. Phase'
    BY <1>1, <1>2, <1>4, <1>11, <2>2 DEF Phase
  <2>6. Contents' /\ Timed'
    BY <1>11 DEF Contents, Timed
  <2> QED
    BY <1>6, <1>7, <2>4, <2>5, <2>6
<1> QED
  BY <1>8, <1>9, <1>10, <1>11
-----------------------------------------------------------------------------
(* The other actions *)

\* Code that runs from flash between the measurements.
LEMMA OthersRun ==
  ASSUME Phase, Well, NEW n \in {"main", "usb"}, Run(n)
  PROVE  Well' /\ cyccnt' \in Word
<1>1. PICK s \in Sets : Fetch(Line(n, s)) /\ cyccnt' = After(Cost(Free(Line(n, s))))
  BY DEF Run
<1>2. Line(n, s) \in Flash
  BY LineIs DEF Names
<1>3. Cost(Free(Line(n, s))) \in 0 .. Most
  <2>1. Free(Line(n, s)).clash = FALSE
    BY DEF Free, Access
  <2>2. Cost(Free(Line(n, s))) = 1 + (IF Held(Free(Line(n, s)).line) THEN 0 ELSE MissCost)
    BY <2>1 DEF Cost
  <2>3. MissCost \in Nat /\ ClashCost \in Nat
    OBVIOUS
  <2>4. CASE Held(Free(Line(n, s)).line)
    BY <2>2, <2>3, <2>4 DEF Most
  <2>5. CASE ~Held(Free(Line(n, s)).line)
    BY <2>2, <2>3, <2>5 DEF Most
  <2> QED
    BY <2>4, <2>5
<1> QED
  BY <1>1, <1>2, <1>3, FetchIs, AnyTime DEF Phase

LEMMA CallPreserves == IInv /\ Call => IInv'
<1> SUFFICES ASSUME IInv, Call PROVE IInv'
  OBVIOUS
<1> USE DEF IInv
<1>1. /\ pc = "main" /\ pc' = "pass" /\ pos' = 1 /\ pass' = WarmUps(Field) /\ start' = cyccnt
      /\ cache' = IF Invalidates(Field) THEN [s \in Sets |-> {}] ELSE cache
      /\ UNCHANGED <<codeBank, cyccnt, irq, field, row, rep, host>>
      /\ field \in 1 .. 8
  BY FieldIs DEF Call, Phase
<1>2. /\ Field' = Field /\ Field \in FieldNames /\ codeBank \in {0, 1}
      /\ \A j : LineAt(j)' = LineAt(j)
  BY <1>1, FieldIs DEF Field, Phase, LineAt
<1>3. 1 \in 1 .. Length(Field)
  BY <1>2, Places
<1>4. Phase'
  <2>1. WarmUps(Field) \in Nat
    BY DEF WarmUps
  <2> QED
    BY <1>1, <1>2, <1>3, <2>1 DEF Phase
<1>5. Well'
  <2>1. Two({})
    BY FS_EmptySet DEF Two
  <2> QED
    BY <1>1, <2>1 DEF Well, Two
<1>6. Contents'
  <2>1. CASE Invalidates(Field)
    <3>1. \A s \in Sets : cache'[s] = {}
      BY <1>1, <2>1
    <3>2. Field \notin {"cold_add32", "conflict3"} => pass' = 2
      BY <1>1 DEF WarmUps
    <3>3. ~(\E j \in 1 .. Length(Field) : j < 1)
      BY <1>2, Places
    <3> QED
      BY <1>1, <1>2, <3>1, <3>2, <3>3 DEF Contents
  <2>2. CASE ~Invalidates(Field)
    <3>1. Field = "warm_add32" /\ pass' = 2
      BY <1>1, <2>2 DEF Invalidates, WarmUps
    <3>2. ~(\E j \in 1 .. Length(Field) : j < 1)
      BY <1>2, Places
    <3> QED
      BY <1>1, <1>2, <2>2, <3>1, <3>2 DEF Contents
  <2> QED
    BY <2>1, <2>2
<1>7. Timed'
  <2>1. Elapsed' = 0
    BY <1>1, NoTime DEF Elapsed, Phase
  <2>2. Spent(Field, 0) = 0
    BY DEF Spent
  <2> QED
    BY <1>1, <1>2, <2>1, <2>2, MostTimes DEF Timed, RoundsMiss
<1>8. Counts'
  BY <1>1 DEF Counts
<1>9. Table'
  BY <1>1 DEF Table, host, Matches, Complete
<1> QED
  BY <1>4, <1>5, <1>6, <1>7, <1>8, <1>9

LEMMA OthersPreserve ==
  IInv /\ (BeginRep \/ MainRuns \/ UsbInterrupt \/ EndRep \/ TightLoop) => IInv'
<1> SUFFICES ASSUME IInv, BeginRep \/ MainRuns \/ UsbInterrupt \/ EndRep \/ TightLoop
             PROVE  IInv'
  OBVIOUS
<1> USE DEF IInv
<1>1. CASE BeginRep
  <2>1. Phase'
    BY <1>1 DEF BeginRep, Phase, measuring, Word
  <2>2. Well'
    BY <1>1 DEF BeginRep, Well, Two
  <2>3. Contents' /\ Timed'
    BY <1>1 DEF BeginRep, Contents, Timed
  <2>4. Counts' /\ Table'
    BY <1>1 DEF BeginRep, measuring, host, Counts, Table, Running, Matches
  <2> QED
    BY <2>1, <2>2, <2>3, <2>4
<1>2. CASE MainRuns \/ UsbInterrupt
  <2>1. /\ Running /\ pc # "pass"
        /\ UNCHANGED <<codeBank, irq, pc, measuring, rep, host>>
        /\ Run("main") \/ Run("usb")
    BY <1>2 DEF MainRuns, UsbInterrupt, Phase
  <2>2. Well' /\ cyccnt' \in Word
    BY <2>1, OthersRun
  <2>3. Phase'
    BY <2>1, <2>2 DEF Phase, measuring, Field
  <2>4. Contents' /\ Timed'
    BY <2>1 DEF Contents, Timed
  <2>5. Counts' /\ Table'
    BY <2>1 DEF measuring, host, Counts, Table, Matches, Complete
  <2> QED
    BY <2>2, <2>3, <2>4, <2>5
<1>3. CASE EndRep
  <2>1. Phase'
    <3>1. 0 \in Word
      BY MostTimes DEF Word
    <3> QED
      BY <1>3, <3>1 DEF EndRep, Phase, chip, host
  <2>2. Well'
    BY <1>3 DEF EndRep, Well, Two, chip
  <2>3. Contents' /\ Timed' /\ Counts'
    BY <1>3 DEF EndRep, Contents, Timed, Counts
  <2>4. Table'
    BY <1>3 DEF EndRep, Table, host, Matches
  <2> QED
    BY <2>1, <2>2, <2>3, <2>4
<1>4. CASE TightLoop
  <2>1. UNCHANGED vars
    BY <1>4 DEF TightLoop
  <2> QED
    BY <2>1 DEF vars, chip, measuring, host, Phase, Field, Well, Contents, LineAt, Held, Timed,
       Elapsed, RoundsMiss, Counts, Table, Matches, Complete
<1> QED
  BY <1>1, <1>2, <1>3, <1>4

LEMMA CapturePreserves == IInv /\ (Read \/ Finish \/ Timeout \/ UNCHANGED vars) => IInv'
<1> SUFFICES ASSUME IInv, Read \/ Finish \/ Timeout \/ UNCHANGED vars PROVE IInv'
  OBVIOUS
<1> USE DEF IInv
<1>1. UNCHANGED <<codeBank, chip, irq, pc, measuring, rep>>
  BY DEF Read, Finish, Timeout, vars
<1>2. Phase' /\ Well' /\ Contents' /\ Timed' /\ Counts'
  BY <1>1 DEF chip, measuring, Phase, Field, Well, Contents, LineAt, Held, Timed, Elapsed,
     RoundsMiss, Counts
<1>3. Table'
  <2>1. CASE Read
    <3>1. PICK r \in read .. rep, t \in {"none", "part", "digits"} :
            (t # "none" => r < rep) /\ read' = r /\ tail' = t
      BY <2>1 DEF Read
    <3> QED
      BY <1>1, <2>1, <3>1 DEF Read, Table
  <2>2. CASE Finish
    BY <1>1, <2>2 DEF Finish, Table, Matches, Complete
  <2>3. CASE Timeout
    BY <1>1, <2>3 DEF Timeout, Table, Matches, Complete
  <2>4. CASE UNCHANGED vars
    BY <2>4 DEF vars, host, Table, Matches, Complete
  <2> QED
    BY <2>1, <2>2, <2>3, <2>4
<1> QED
  BY <1>2, <1>3
-----------------------------------------------------------------------------
(* The theorems *)

\* The inductive invariant holds in every reachable state.
THEOREM Invariance == Spec => []IInv
<1>1. IInv /\ [Next]_vars => IInv'
  BY StepPreserves, CallPreserves, OthersPreserve, CapturePreserves DEF Next
<1> QED
  BY Initially, <1>1, PTL DEF Spec

\* Every count is of the effect in its name: cache and bank see what main.c says,
\* whatever ran before, whichever line is evicted and wherever the counter wraps.
THEOREM CountsAreOfTheirEffect == Spec => []EachCountIsOfItsEffect
<1>1. IInv => EachCountIsOfItsEffect
  BY DEF IInv, Counts, Right, EachCountIsOfItsEffect
<1> QED
  BY <1>1, Invariance, PTL

\* capture.py saves the whole run, in pieces or not, or nothing.
THEOREM SavedTableIsWhole == Spec => []SavedIsTheRun
<1>1. IInv => SavedIsTheRun
  <2> SUFFICES ASSUME IInv, captured = "saved" PROVE SavedIsTheRun
    BY DEF SavedIsTheRun
  <2>1. /\ rep \in 0 .. Reps /\ read \in Nat /\ tail \in {"none", "part", "digits"}
        /\ read <= rep /\ (tail # "none" => read < rep)
        /\ Matches >= Reps /\ \A i \in 1 .. Matches : Complete(i)
    BY DEF IInv, Table
  <2>2. CASE tail = "none"
    BY <2>1, <2>2 DEF Matches, SavedIsTheRun
  <2>3. CASE tail # "none"
    <3>1. Matches = read + 1 /\ Matches \in 1 .. Matches /\ ~(Matches <= read)
      BY <2>1, <2>3 DEF Matches
    <3>2. tail = "digits"
      BY <2>1, <3>1 DEF Complete
    <3> QED
      BY <2>1, <2>3, <3>1, <3>2 DEF SavedIsTheRun
  <2> QED
    BY <2>2, <2>3
<1> QED
  BY <1>1, Invariance, PTL
=============================================================================
