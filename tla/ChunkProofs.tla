------------------------------ MODULE ChunkProofs ------------------------------
(***************************************************************************)
(* What the decoder returns does not depend on how the reads cut the bytes *)
(* of the terminal, for every set of streams.                              *)
(*                                                                         *)
(* A decision that was made on the bytes d is compared with the one on     *)
(* bytes e that begin with d.  An iteration that did not wait has seen all *)
(* it needs: each helper and each stage gives the same for both.           *)
(***************************************************************************)
EXTENDS ByteReaderProofs, FiniteSetTheorems

\* e is d, or d and more.
Begins(d, e) == Len(d) <= Len(e) /\ \A i \in 1..Len(d) : e[i] = d[i]

\* The decoding state when the bytes c come on top of what it has.
Extended(s, c) == [s EXCEPT !.buf = @ \o c]

-----------------------------------------------------------------------------
(***************************************************************************)
(* Slices, counts and numbers that lie in the bytes both have.             *)
(***************************************************************************)
LEMMA BeginsSub ==
  ASSUME NEW d \in Seq(Byte), NEW e \in Seq(Byte), Begins(d, e),
         NEW lo \in Nat \ {0}, NEW hi \in Int, hi <= Len(d)
  PROVE  SubSeq(e, lo, hi) = SubSeq(d, lo, hi)
<1>1. \A i \in lo..hi : e[i] = d[i] /\ d[i] \in Byte
  BY DEF Begins
<1>2. Len(d) \in Nat /\ Len(e) \in Nat /\ Len(d) <= Len(e)
  BY DEF Begins
<1>3. /\ SubSeq(d, lo, hi) \in Seq(Byte) /\ SubSeq(e, lo, hi) \in Seq(Byte)
      /\ Len(SubSeq(d, lo, hi)) = IF lo <= hi THEN hi - lo + 1 ELSE 0
      /\ Len(SubSeq(e, lo, hi)) = IF lo <= hi THEN hi - lo + 1 ELSE 0
      /\ \A i \in 1..(hi - lo + 1) : /\ SubSeq(d, lo, hi)[i] = d[lo + i - 1]
                                     /\ SubSeq(e, lo, hi)[i] = e[lo + i - 1]
  BY <1>1, <1>2, SubSeqProperties
<1>4. \A i \in 1..(hi - lo + 1) : lo + i - 1 \in lo..hi
  OBVIOUS
<1>5. \A i \in 1..Len(SubSeq(d, lo, hi)) : SubSeq(e, lo, hi)[i] = SubSeq(d, lo, hi)[i]
  BY <1>1, <1>3, <1>4
<1> QED
  BY <1>3, <1>5, SeqEqual

LEMMA BeginsCount ==
  ASSUME NEW d \in Seq(Byte), NEW e \in Seq(Byte), Begins(d, e),
         NEW b, NEW lo \in Nat \ {0}, NEW hi \in Int, hi <= Len(d)
  PROVE  Count(e, b, lo, hi) = Count(d, b, lo, hi)
<1>1. \A i \in lo..hi : e[i] = d[i]
  BY DEF Begins
<1>2. {i \in lo..hi : e[i] = b} = {i \in lo..hi : d[i] = b}
  BY <1>1
<1> QED
  BY <1>2 DEF Count
\* Both read the same digits.
LEMMA BeginsNumber ==
  ASSUME NEW d \in Seq(Byte), NEW e \in Seq(Byte), Begins(d, e),
         NEW lo \in Nat \ {0}, NEW hi \in Int, hi <= Len(d)
  PROVE  Number(e, lo, hi) = Number(d, lo, hi)
<1>1. \A i \in lo..hi : e[i] = d[i]
  BY DEF Begins
<1>2. \A f : [i \in (lo - 1)..hi |-> IF i < lo THEN 0 ELSE 10 * f[i - 1] + (e[i] - 48)]
               = [i \in (lo - 1)..hi |-> IF i < lo THEN 0 ELSE 10 * f[i - 1] + (d[i] - 48)]
  BY <1>1
<1> QED
  BY <1>2, Zenon DEF Number

LEMMA BeginsBounds ==
  ASSUME NEW d \in Seq(Byte), NEW e \in Seq(Byte), Begins(d, e),
         NEW k, NEW lo \in Nat \ {0}, NEW hi \in Int, hi <= Len(d)
  PROVE  FieldBounds(e, k, lo, hi) = FieldBounds(d, k, lo, hi)
<1> DEFINE F(x) == {i \in lo..hi : lo <= i /\ i <= hi /\ x[i] # SEMI
                                     /\ Count(x, SEMI, lo, i) = k - 1}
<1>1. \A i \in lo..hi : e[i] = d[i] /\ Count(e, SEMI, lo, i) = Count(d, SEMI, lo, i)
  <2> TAKE i \in lo..hi
  <2>1. i \in Int /\ i <= Len(d) /\ i \in 1..Len(d)
    OBVIOUS
  <2> QED
    BY <2>1, BeginsCount DEF Begins
<1>2. F(e) = F(d)
  BY <1>1
<1>3. \A x : FieldBounds(x, k, lo, hi) =
               IF F(x) = {} THEN <<lo, lo - 1>>
               ELSE <<First(F(x)), First(F(x)) + Cardinality(F(x)) - 1>>
  BY DEF FieldBounds
<1> HIDE DEF F
<1> QED
  BY <1>2, <1>3

\* A field lies in the bytes that are searched for it; no field is empty.
LEMMA BoundsInside ==
  ASSUME NEW d, NEW k, NEW lo \in Nat \ {0}, NEW hi \in Int
  PROVE  \E i \in Nat \ {0}, j \in Int :
           /\ FieldBounds(d, k, lo, hi) = <<i, j>>
           /\ \/ i <= j /\ j <= hi
              \/ i = lo /\ j = lo - 1
<1> DEFINE F == {i \in lo..hi : lo <= i /\ i <= hi /\ d[i] # SEMI
                                  /\ Count(d, SEMI, lo, i) = k - 1}
<1>1. FieldBounds(d, k, lo, hi) =
        IF F = {} THEN <<lo, lo - 1>> ELSE <<First(F), First(F) + Cardinality(F) - 1>>
  BY DEF FieldBounds
<1>2. F \in SUBSET Nat /\ F \subseteq lo..hi
  OBVIOUS
<1> HIDE DEF F
<1>3. CASE F = {}
  BY <1>1, <1>3
<1>4. CASE F # {}
  <2>1. First(F) \in lo..hi /\ \A i \in F : First(F) <= i
    BY <1>2, <1>4, FirstIsLeast
  <2>2. PICK m \in Nat \ {0} : m = First(F) /\ m \in lo..hi /\ F \subseteq m..hi
    BY <1>2, <2>1
  <2>3. IsFiniteSet(m..hi) /\ Cardinality(m..hi) = hi - m + 1
    BY <2>2, FS_Interval
  <2>4. IsFiniteSet(F) /\ Cardinality(F) <= Cardinality(m..hi)
    BY <2>2, <2>3, FS_Subset
  <2>5. Cardinality(F) \in Nat /\ Cardinality(F) # 0
    BY <1>4, <2>4, FS_CardinalityType, FS_EmptySet
  <2>6. PICK c \in Nat : c = Cardinality(F) /\ c # 0 /\ c <= hi - m + 1
    BY <2>3, <2>4, <2>5
  <2>7. FieldBounds(d, k, lo, hi) = <<m, m + c - 1>>
    BY <1>1, <1>4, <2>2, <2>6
  <2>8. PICK j \in Int : j = m + c - 1
    BY <2>2, <2>6
  <2>9. m <= j /\ j <= hi
    BY <2>2, <2>6, <2>8
  <2> QED
    BY <2>7, <2>8, <2>9
<1> QED
  BY <1>3, <1>4

LEMMA BeginsField ==
  ASSUME NEW d \in Seq(Byte), NEW e \in Seq(Byte), Begins(d, e),
         NEW k, NEW lo \in Nat \ {0}, NEW hi \in Int, lo - 1 <= hi, hi <= Len(d)
  PROVE  FieldValue(e, k, lo, hi) = FieldValue(d, k, lo, hi)
<1>1. FieldBounds(e, k, lo, hi) = FieldBounds(d, k, lo, hi)
  BY BeginsBounds
<1>2. PICK i \in Nat \ {0}, j \in Int :
        /\ FieldBounds(d, k, lo, hi) = <<i, j>>
        /\ \/ i <= j /\ j <= hi
           \/ i = lo /\ j = lo - 1
  BY BoundsInside
<1>3. j <= Len(d)
  BY <1>2
<1>4. Number(e, i, j) = Number(d, i, j)
  BY <1>3, BeginsNumber
<1> QED
  BY <1>1, <1>2, <1>4 DEF FieldValue

-----------------------------------------------------------------------------
(***************************************************************************)
(* What ends a sequence is the first byte of its kind: if there is one,    *)
(* bytes that follow do not change which.                                  *)
(***************************************************************************)
LEMMA FirstStays ==
  ASSUME NEW S \in SUBSET Nat, NEW T \in SUBSET Nat, NEW m \in Nat,
         \A i \in Nat : i \in S <=> i \in T /\ i <= m, S # {}
  PROVE  T # {} /\ First(T) = First(S)
<1>1. First(S) \in S /\ \A j \in S : First(S) <= j
  BY FirstIsLeast
<1>2. T # {} /\ S \subseteq T
  OBVIOUS
<1>3. First(T) \in T /\ \A j \in T : First(T) <= j
  BY <1>2, FirstIsLeast
<1>4. First(T) <= First(S)
  BY <1>1, <1>3
<1>5. PICK a \in Nat, b \in Nat : a = First(S) /\ b = First(T) /\ a <= m /\ b <= a
  BY <1>1, <1>3, <1>4
<1>6. b \in T /\ b <= m
  BY <1>3, <1>5
<1>7. b \in S
  BY <1>6
<1>8. a <= b
  BY <1>1, <1>5, <1>7
<1> QED
  BY <1>2, <1>5, <1>8

LEMMA BeginsCSI ==
  ASSUME NEW d \in Seq(Byte), NEW e \in Seq(Byte), Begins(d, e),
         ScanCSI(d).st # "incomplete"
  PROVE  ScanCSI(e) = ScanCSI(d)
<1>1. /\ Len(d) \in Nat /\ Len(e) \in Nat /\ Len(d) >= 2 /\ Len(e) >= 2
      /\ e[1] = d[1] /\ e[2] = d[2]
  BY DEF Begins, ScanCSI
<1>2. CASE d[1] # ESC \/ d[2] # LBR
  BY <1>1, <1>2 DEF ScanCSI
<1>3. CASE d[1] = ESC /\ d[2] = LBR
  <2>1. CSIStops(d) # {}
    BY <1>1, <1>3 DEF ScanCSI
  <2>2. /\ CSIStops(d) \in SUBSET Nat /\ CSIStops(e) \in SUBSET Nat
        /\ \A i \in Nat : i \in CSIStops(d) <=> i \in CSIStops(e) /\ i <= Len(d)
    BY <1>1 DEF CSIStops, Begins
  <2>3. CSIStops(e) # {} /\ First(CSIStops(e)) = First(CSIStops(d))
    BY <1>1, <2>1, <2>2, FirstStays
  <2>4. First(CSIStops(d)) \in 3..Len(d)
    BY <2>1, <2>2, FirstIsLeast DEF CSIStops
  <2>5. e[First(CSIStops(d))] = d[First(CSIStops(d))]
    BY <2>4 DEF Begins
  <2> QED
    BY <1>1, <1>3, <2>1, <2>3, <2>5 DEF ScanCSI
<1> QED
  BY <1>2, <1>3

LEMMA BeginsAPC ==
  ASSUME NEW d \in Seq(Byte), NEW e \in Seq(Byte), Begins(d, e),
         ScanAPC(d).st # "incomplete"
  PROVE  ScanAPC(e) = ScanAPC(d)
<1>1. /\ Len(d) \in Nat /\ Len(e) \in Nat /\ Len(d) >= 2 /\ Len(e) >= 2
      /\ e[1] = d[1] /\ e[2] = d[2]
  BY DEF Begins, ScanAPC
<1>2. CASE d[1] # ESC \/ d[2] # UND
  BY <1>1, <1>2 DEF ScanAPC
<1>3. CASE d[1] = ESC /\ d[2] = UND
  <2>1. APCStops(d) # {}
    BY <1>1, <1>3 DEF ScanAPC
  <2>2. /\ APCStops(d) \in SUBSET Nat /\ APCStops(e) \in SUBSET Nat
        /\ \A i \in Nat : i \in APCStops(d) <=> i \in APCStops(e) /\ i <= Len(d)
    BY <1>1 DEF APCStops, Begins
  <2>3. APCStops(e) # {} /\ First(APCStops(e)) = First(APCStops(d))
    BY <1>1, <2>1, <2>2, FirstStays
  <2> QED
    BY <1>1, <1>3, <2>1, <2>3 DEF ScanAPC
<1> QED
  BY <1>2, <1>3

LEMMA BeginsRune ==
  ASSUME NEW d \in Seq(Byte), NEW e \in Seq(Byte), Begins(d, e), FullRune(d)
  PROVE  FullRune(e) /\ RuneSize(e) = RuneSize(d)
<1>1. /\ Len(d) \in Nat /\ Len(e) \in Nat /\ 1 <= Len(d) /\ Len(d) <= Len(e)
      /\ e[1] = d[1] /\ \A i \in 1..Len(d) : e[i] = d[i]
  BY DEF FullRune, Begins
<1>2. PICK need \in 1..4 : RuneNeed(d[1]) = need /\ RuneNeed(e[1]) = need
  BY <1>1 DEF RuneNeed
<1>3. \A i \in 1..Len(d) : Accepts(e, i) <=> Accepts(d, i)
  BY <1>1 DEF Accepts
<1>4. CASE ValidSoFar(d)
  <2>1. need <= Len(d)
    BY <1>2, <1>4 DEF FullRune
  <2>2. \A i \in 2..need : i \in 1..Len(d) /\ i <= Len(d)
    BY <1>1, <2>1
  <2>3. \A i \in 2..need : Accepts(d, i)
    BY <1>2, <1>4, <2>2 DEF ValidSoFar
  <2>4. ValidSoFar(e)
    BY <1>2, <1>3, <2>2, <2>3 DEF ValidSoFar
  <2>5. e # <<>> /\ need <= Len(e)
    BY <1>1, <2>1
  <2> QED
    BY <1>2, <1>4, <2>4, <2>5 DEF FullRune, RuneSize
<1>5. CASE ~ValidSoFar(d)
  <2>1. PICK i \in 2..need : i <= Len(d) /\ ~Accepts(d, i)
    BY <1>2, <1>5 DEF ValidSoFar
  <2>2. i \in 1..Len(d) /\ i <= Len(e)
    BY <1>1, <2>1
  <2>3. ~ValidSoFar(e)
    BY <1>2, <1>3, <2>1, <2>2 DEF ValidSoFar
  <2>4. e # <<>>
    BY <1>1
  <2> QED
    BY <1>5, <2>3, <2>4 DEF FullRune, RuneSize
<1> QED
  BY <1>4, <1>5

(***************************************************************************)
(* The ladder waits unless the escape sequence at the front of the buffer, *)
(* if it is one, has ended: the rest of the ladder has it whole.           *)
(***************************************************************************)
Whole(d) ==
  /\ Len(d) >= 2 /\ d[1] = ESC
  /\ d[2] = LBR => CSIStops(d) # {}

LEMMA BeginsRecord ==
  ASSUME NEW d \in Seq(Byte), NEW e \in Seq(Byte), Begins(d, e), Whole(d)
  PROVE  /\ RecordEnd(e) = RecordEnd(d)
         /\ RecordEnd(d) > 0 => RecordByte(e) = RecordByte(d)
<1> DEFINE stops(x) == {i \in 3..Len(x) : x[i] \notin Digits \union {SEMI}}
<1>1. /\ Len(d) \in Nat /\ Len(e) \in Nat /\ Len(d) >= 2 /\ Len(e) >= Len(d)
      /\ e[1] = ESC /\ d[1] = ESC /\ e[2] = d[2]
      /\ \A i \in 1..Len(d) : e[i] = d[i]
  BY DEF Begins, Whole
<1>2. \A x : RecordEnd(x) =
        IF Len(x) < 3 \/ x[1] # ESC \/ x[2] # LBR \/ stops(x) = {} THEN 0
        ELSE IF x[First(stops(x))] = UND /\ Count(x, SEMI, 3, First(stops(x))) <= 5
             THEN First(stops(x)) ELSE 0
  BY Zenon DEF RecordEnd
<1>3. CASE d[2] # LBR
  <2>1. RecordEnd(d) = 0 /\ RecordEnd(e) = 0
    BY <1>1, <1>2, <1>3
  <2> QED
    BY <2>1
<1>4. CASE d[2] = LBR
  <2>1. PICK i \in 3..Len(d) : d[i] \notin Param
    BY <1>4 DEF Whole, CSIStops
  <2>a. d[i] \notin Digits \union {SEMI}
    BY <2>1 DEF Param, Digits, SEMI
  <2>2. i \in stops(d) /\ Len(d) >= 3 /\ Len(e) >= 3
    BY <1>1, <2>1, <2>a
  <2>3. /\ stops(d) \in SUBSET Nat /\ stops(e) \in SUBSET Nat /\ stops(d) # {}
        /\ stops(d) \subseteq 3..Len(d)
    BY <2>2
  <2>4. \A j \in Nat : j \in stops(d) <=> j \in stops(e) /\ j <= Len(d)
    BY <1>1
  <2> HIDE DEF stops
  <2>5. stops(e) # {} /\ First(stops(e)) = First(stops(d))
    BY <1>1, <2>3, <2>4, FirstStays
  <2>6. PICK m \in 3..Len(d) : m = First(stops(d))
    BY <2>3, FirstIsLeast
  <2>7. e[m] = d[m] /\ Count(e, SEMI, 3, m) = Count(d, SEMI, 3, m)
    <3>1. m \in Int /\ m <= Len(d) /\ m \in 1..Len(d) /\ 3 \in Nat \ {0}
      BY <2>6
    <3> QED
      BY <1>1, <3>1, BeginsCount
  <2>8. RecordEnd(e) = RecordEnd(d) /\ RecordEnd(d) \in {0, m}
    BY <1>1, <1>2, <1>4, <2>2, <2>3, <2>5, <2>6, <2>7
  <2>9. ASSUME RecordEnd(d) > 0
        PROVE  RecordByte(e) = RecordByte(d)
    <3>1. PICK h \in Int : h = m - 1 /\ 2 <= h /\ h <= Len(d) /\ h = RecordEnd(d) - 1
      BY <2>6, <2>8, <2>9
    <3>2. \A k : FieldValue(e, k, 3, h) = FieldValue(d, k, 3, h)
      <4>1. 3 \in Nat \ {0} /\ 3 - 1 <= h
        BY <3>1
      <4> QED
        BY <3>1, <4>1, BeginsField
    <3> QED
      BY <2>8, <3>1, <3>2 DEF RecordByte
  <2> QED
    BY <2>8, <2>9
<1> QED
  BY <1>3, <1>4

LEMMA BeginsStart ==
  ASSUME NEW d \in Seq(Byte), NEW e \in Seq(Byte), Begins(d, e), Whole(d)
  PROVE  isWinWrappedStart(e) <=> isWinWrappedStart(d)
<1>1. /\ Len(d) \in Nat /\ Len(e) \in Nat /\ Len(d) <= Len(e)
      /\ \A i \in 1..Len(d) : e[i] = d[i]
  BY DEF Begins
<1>2. \A x : isWinWrappedStart(x) <=> 8 <= Len(x) /\ WrappedStart = SubSeq(x, 1, 8)
  BY DEF isWinWrappedStart, IsPrefix, WrappedStart
<1>3. CASE Len(d) >= 8
  <2>1. SubSeq(e, 1, 8) = SubSeq(d, 1, 8)
    <3>1. 1 \in Nat \ {0} /\ 8 \in Int /\ 8 <= Len(d)
      BY <1>1, <1>3
    <3> QED
      BY <3>1, BeginsSub
  <2>2. 8 <= Len(d) /\ 8 <= Len(e)
    BY <1>1, <1>3
  <2> QED
    BY <1>2, <2>1, <2>2
<1>4. CASE Len(d) < 8
  <2> SUFFICES ASSUME isWinWrappedStart(e) PROVE FALSE
    BY <1>1, <1>2, <1>4
  <2>1. WrappedStart = SubSeq(e, 1, 8) /\ 8 <= Len(e)
    BY <1>2
  <2>2. \A i \in 1..8 : e[i] \in Byte
    BY <1>1, <2>1
  <2>3. \A i \in 1..8 : SubSeq(e, 1, 8)[i] = e[i]
    BY <2>2, SubSeqProperties
  <2>4. \A i \in 1..8 : WrappedStart[i] = e[i]
    BY <2>1, <2>3
  <2>5. e[2] = LBR /\ \A i \in 3..8 : e[i] \in Param
    BY <2>4 DEF WrappedStart, Param, SEMI
  <2>6. d[2] = LBR
    BY <1>1, <2>5 DEF Whole
  <2>7. PICK i \in 3..Len(d) : d[i] \notin Param
    BY <2>6 DEF Whole, CSIStops
  <2>8. i \in 3..8 /\ i \in 1..Len(d)
    BY <1>1, <1>4, <2>7
  <2> QED
    BY <1>1, <2>5, <2>7, <2>8
<1> QED
  BY <1>1, <1>3, <1>4

-----------------------------------------------------------------------------
(***************************************************************************)
(* The stages.  Begun collects what they compare.                          *)
(***************************************************************************)
Begun(d, e) ==
  /\ Len(d) \in Nat /\ Len(e) \in Nat /\ 2 <= Len(d) /\ Len(d) <= Len(e)
  /\ \A i \in 1..Len(d) : e[i] = d[i]
  /\ e[1] = d[1] /\ e[2] = d[2]
  /\ IsCSI(e) <=> IsCSI(d)
  /\ IsCSI(d) => /\ 3 <= Len(d) /\ e[3] = d[3]
                 /\ ScanCSI(e) = ScanCSI(d)
                 /\ ScanCSI(d).st \in {"ok", "invalid"}
                 /\ ScanCSI(d).end \in 3..Len(d)
                 /\ e[ScanCSI(d).end] = d[ScanCSI(d).end]
                 /\ d[ScanCSI(d).end] \notin Param
                 /\ \A i \in 3..(ScanCSI(d).end - 1) : d[i] \in Param
  /\ \A m \in 1..Len(d) : SubSeq(e, 1, m) = SubSeq(d, 1, m)
  /\ \A b, lo, hi : lo \in 1..Len(d) /\ hi \in 1..Len(d)
                      => Count(e, b, lo, hi) = Count(d, b, lo, hi)

LEMMA WholeBegun ==
  ASSUME NEW d \in Seq(Byte), NEW e \in Seq(Byte), Begins(d, e), Whole(d)
  PROVE  Begun(d, e)
<1>1. /\ Len(d) \in Nat /\ Len(e) \in Nat /\ 2 <= Len(d) /\ Len(d) <= Len(e)
      /\ \A i \in 1..Len(d) : e[i] = d[i]
      /\ e[1] = d[1] /\ e[2] = d[2] /\ d[1] = ESC
  BY DEF Begins, Whole
<1>2. IsCSI(e) <=> IsCSI(d)
  BY <1>1 DEF IsCSI
<1>3. ASSUME IsCSI(d)
      PROVE  /\ 3 <= Len(d) /\ e[3] = d[3]
             /\ ScanCSI(e) = ScanCSI(d)
             /\ ScanCSI(d).st \in {"ok", "invalid"}
             /\ ScanCSI(d).end \in 3..Len(d)
             /\ e[ScanCSI(d).end] = d[ScanCSI(d).end]
             /\ d[ScanCSI(d).end] \notin Param
             /\ \A i \in 3..(ScanCSI(d).end - 1) : d[i] \in Param
  <2>1. CSIStops(d) # {}
    BY <1>3 DEF IsCSI, Whole
  <2>2. CSIStops(d) \in SUBSET Nat /\ CSIStops(d) \subseteq 3..Len(d)
    BY DEF CSIStops
  <2>3. PICK m \in Nat : /\ m = First(CSIStops(d)) /\ m \in CSIStops(d)
                         /\ \A j \in CSIStops(d) : m <= j
    BY <2>1, <2>2, FirstIsLeast
  <2>4. m \in 3..Len(d) /\ d[m] \notin Param
    BY <2>3 DEF CSIStops
  <2>5. \A i \in 3..(m - 1) : d[i] \in Param
    <3> TAKE i \in 3..(m - 1)
    <3>1. i \in 3..Len(d) /\ ~(m <= i)
      BY <1>1, <2>4
    <3>2. i \notin CSIStops(d)
      BY <2>3, <3>1
    <3> QED
      BY <3>1, <3>2 DEF CSIStops
  <2>6. ScanCSI(d) = [st |-> IF d[m] \in Final THEN "ok" ELSE "invalid", end |-> m]
    BY <1>1, <1>3, <2>1, <2>3 DEF ScanCSI, IsCSI
  <2>7. ScanCSI(d).st \in {"ok", "invalid"} /\ ScanCSI(d).end = m
    BY <2>6
  <2>8. ScanCSI(e) = ScanCSI(d)
    BY <2>7, BeginsCSI
  <2>9. 3 <= Len(d) /\ e[3] = d[3] /\ e[m] = d[m]
    BY <1>1, <2>4
  <2> QED
    BY <2>4, <2>5, <2>7, <2>8, <2>9
<1>4. \A m \in 1..Len(d) : SubSeq(e, 1, m) = SubSeq(d, 1, m)
  <2> TAKE m \in 1..Len(d)
  <2>1. 1 \in Nat \ {0} /\ m \in Int /\ m <= Len(d)
    BY <1>1
  <2> QED
    BY <2>1, BeginsSub
<1>5. ASSUME NEW b, NEW lo \in 1..Len(d), NEW hi \in 1..Len(d)
      PROVE  Count(e, b, lo, hi) = Count(d, b, lo, hi)
  <2>1. lo \in Nat \ {0} /\ hi \in Int /\ hi <= Len(d)
    BY <1>1
  <2> QED
    BY <2>1, BeginsCount
<1> QED
  BY <1>1, <1>2, <1>3, <1>4, <1>5 DEF Begun

LEMMA FocusSame ==
  ASSUME NEW d \in Seq(Byte), NEW e \in Seq(Byte), Begun(d, e),
         ~(/\ Len(d) = 3 /\ Len(e) > 3
           /\ FocusStage(d).act = "emit" /\ d[3] = CapO /\ e[4] \in BrokenSS3)
  PROVE  FocusStage(e) = FocusStage(d)
<1>1. CASE ~IsCSI(d)
  BY <1>1 DEF FocusStage, Begun
<1>2. CASE IsCSI(d)
  <2>1. /\ 3 <= Len(d) /\ 3 <= Len(e) /\ e[3] = d[3]
        /\ SubSeq(e, 1, 3) = SubSeq(d, 1, 3) /\ IsCSI(e)
    BY <1>2 DEF Begun
  <2>2. CASE Len(d) > 3
    <3>1. Len(e) > 3 /\ e[4] = d[4]
      BY <2>2 DEF Begun
    <3> QED
      BY <1>2, <2>1, <2>2, <3>1 DEF FocusStage
  <2>3. CASE Len(d) = 3
    <3>1. d[3] \in {CapI, CapO} => FocusStage(d) = Emit(3, Event("focus", FALSE, SubSeq(d, 1, 3)))
      BY <1>2, <2>1, <2>3 DEF FocusStage
    <3>a. \A n, ev : Emit(n, ev).act = "emit"
      BY DEF Emit
    <3>2. d[3] \in {CapI, CapO} => FocusStage(d).act = "emit"
      BY <3>1, <3>a
    <3>3. d[3] = CapO => ~(Len(e) > 3 /\ e[4] \in BrokenSS3)
      BY <2>3, <3>2
    <3>4. CASE d[3] \in {CapI, CapO}
      BY <1>2, <2>1, <3>1, <3>3, <3>4 DEF FocusStage
    <3>5. CASE d[3] \notin {CapI, CapO}
      BY <2>1, <3>5 DEF FocusStage
    <3> QED
      BY <3>4, <3>5
  <2>4. PICK n \in Nat : n = Len(d)
    BY DEF Begun
  <2>5. Len(d) > 3 \/ Len(d) = 3
    BY <2>1, <2>4
  <2> QED
    BY <2>2, <2>3, <2>5
<1> QED
  BY <1>1, <1>2

LEMMA DSRSame ==
  ASSUME NEW d \in Seq(Byte), NEW e \in Seq(Byte), Begun(d, e)
  PROVE  DSRStage(e) = DSRStage(d)
<1>1. CASE IsCSI(d)
  <2>1. Len(d) > 2 /\ Len(e) > 2 /\ IsCSI(e)
    BY <1>1 DEF Begun
  <2> QED
    BY <1>1, <2>1 DEF DSRStage, Begun
<1>2. CASE ~IsCSI(d)
  BY <1>2 DEF DSRStage, Begun
<1> QED
  BY <1>1, <1>2

LEMMA APCSame ==
  ASSUME NEW d \in Seq(Byte), NEW e \in Seq(Byte), Begins(d, e), Begun(d, e),
         APCStage(d).act # "wait"
  PROVE  APCStage(e) = APCStage(d)
<1>1. CASE d[2] # UND
  BY <1>1 DEF APCStage, Begun
<1>2. CASE d[2] = UND
  <2>1. Len(d) > 1 /\ Len(e) > 1 /\ e[2] = UND
    BY <1>2 DEF Begun
  <2>2. ScanAPC(d).st # "incomplete"
    BY <1>2, <2>1 DEF APCStage, Wait
  <2>3. ScanAPC(e) = ScanAPC(d)
    BY <2>2, BeginsAPC
  <2>4. CASE ScanAPC(d).st = "invalid"
    BY <1>2, <2>1, <2>3, <2>4 DEF APCStage
  <2>5. CASE ScanAPC(d).st = "ok"
    <3>1. PICK m \in 3..Len(d) : m = ScanAPC(d).end
      BY <2>5, ScanAPCInside
    <3>2. e[m] = d[m]
      BY <3>1 DEF Begun
    <3>3. \A hi \in {m - 1, m - 2} : SubSeq(e, 3, hi) = SubSeq(d, 3, hi)
      <4> TAKE hi \in {m - 1, m - 2}
      <4>1. 3 \in Nat \ {0} /\ hi \in Int /\ hi <= Len(d)
        BY <3>1 DEF Begun
      <4> QED
        BY <4>1, BeginsSub
    <3>4. APCPayload(e, m) = APCPayload(d, m)
      BY <3>2, <3>3 DEF APCPayload
    <3> QED
      BY <1>2, <2>1, <2>3, <3>1, <3>4 DEF APCStage
  <2>6. ScanAPC(d).st \in {"ok", "invalid"}
    BY <2>2 DEF ScanAPC
  <2> QED
    BY <2>4, <2>5, <2>6
<1> QED
  BY <1>1, <1>2

LEMMA PasteSame ==
  ASSUME NEW d \in Seq(Byte), NEW e \in Seq(Byte), Begun(d, e)
  PROVE  PasteStage(e) = PasteStage(d)
<1>1. CASE ~IsCSI(d)
  BY <1>1 DEF PasteStage, Begun
<1>2. CASE IsCSI(d)
  <2>1. PICK n \in Nat, k \in Nat : n = Len(d) /\ k = Len(e) /\ 3 <= n /\ n <= k
    BY <1>2 DEF Begun
  <2>2. \A i \in 1..n : e[i] = d[i]
    BY <2>1 DEF Begun
  <2>3. CASE n >= 6
    <3>1. SubSeq(e, 1, 6) = SubSeq(d, 1, 6)
      BY <2>1, <2>3 DEF Begun
    <3>2. e[3] = d[3] /\ e[4] = d[4] /\ e[5] = d[5] /\ e[6] = d[6] /\ k >= 6
      BY <2>1, <2>2, <2>3
    <3>3. IsCSI(e)
      BY <1>2 DEF Begun
    <3> QED
      BY <1>2, <2>1, <2>3, <3>1, <3>2, <3>3 DEF PasteStage
  <2>4. CASE n < 6
    <3>a. ~(Len(d) >= 6)
      BY <2>1, <2>4
    <3>1. PasteStage(d) = Pass
      BY <3>a DEF PasteStage
    <3>2. PICK m \in 3..n : d[m] \notin Param
      BY <1>2, <2>1 DEF Begun
    <3>3. m \in {3, 4, 5} /\ e[m] \notin Param
      BY <2>2, <2>4, <3>2
    <3>b. {48, 49, 50} \subseteq Param
      BY DEF Param
    <3>4. ~(e[3] = 50 /\ e[4] = 48 /\ e[5] \in {48, 49})
      BY <3>3, <3>b
    <3>5. PasteStage(e) = Pass
      BY <3>4 DEF PasteStage
    <3> QED
      BY <3>1, <3>5
  <2> QED
    BY <2>3, <2>4
<1> QED
  BY <1>1, <1>2

LEMMA SGRSame ==
  ASSUME NEW d \in Seq(Byte), NEW e \in Seq(Byte), Begun(d, e), NEW alt
  PROVE  SGRStage(e, alt) = SGRStage(d, alt)
<1>1. CASE ~IsCSI(d)
  BY <1>1 DEF SGRStage, Begun
<1>2. CASE IsCSI(d)
  <2>a. PICK n \in Nat, k \in Nat : n = Len(d) /\ k = Len(e) /\ 3 <= n /\ n <= k
    BY <1>2 DEF Begun
  <2>b. ScanCSI(d).end \in 3..n /\ d[ScanCSI(d).end] \notin Param
    BY <1>2, <2>a DEF Begun
  <2>1. PICK m \in 3..n :
          /\ n = Len(d) /\ k = Len(e) /\ 3 <= n /\ n <= k
          /\ m = ScanCSI(d).end /\ d[m] \notin Param
    BY <2>a, <2>b
  <2>2. e[3] = d[3] /\ IsCSI(e) /\ ScanCSI(e) = ScanCSI(d)
    BY <1>2 DEF Begun
  <2>3. CASE d[3] # LT
    BY <2>2, <2>3 DEF SGRStage
  <2>4. CASE d[3] = LT
    <3>a. LT \in Param
      BY DEF Param, LT
    <3>b. m # 3
      BY <2>1, <2>4, <3>a
    <3>1. n > 3 /\ k > 3 /\ Len(d) > 3 /\ Len(e) > 3
      BY <2>1, <3>b
    <3>2. SubSeq(e, 1, m) = SubSeq(d, 1, m)
      BY <2>1 DEF Begun
    <3>3. 4 \in 1..n /\ m \in 1..n
      BY <2>1, <3>1
    <3>4. Count(e, SEMI, 4, m) = Count(d, SEMI, 4, m)
      BY <2>1, <3>3 DEF Begun
    <3>5. ParseMouseSGR(e, m) <=> ParseMouseSGR(d, m)
      BY <3>4 DEF ParseMouseSGR
    <3> QED
      BY <1>2, <2>1, <2>2, <3>1, <3>2, <3>5 DEF SGRStage
  <2> QED
    BY <2>3, <2>4
<1> QED
  BY <1>1, <1>2

LEMMA X10Same ==
  ASSUME NEW d \in Seq(Byte), NEW e \in Seq(Byte), Begun(d, e), NEW alt, X10Stage(d, alt).act # "wait"
  PROVE  X10Stage(e, alt) = X10Stage(d, alt)
<1>1. CASE ~(IsCSI(d) /\ d[3] = CapM)
  BY <1>1 DEF X10Stage, Begun
<1>2. CASE IsCSI(d) /\ d[3] = CapM
  <2>1. PICK n \in Nat, k \in Nat : n = Len(d) /\ k = Len(e) /\ 3 <= n /\ n <= k
    BY <1>2 DEF Begun
  <2>2. e[3] = CapM /\ IsCSI(e)
    BY <1>2 DEF Begun
  <2>3. n >= 6
    BY <1>2, <2>1 DEF X10Stage, ParseMouseLegacy, Wait
  <2>4. SubSeq(e, 1, 6) = SubSeq(d, 1, 6)
    BY <2>1, <2>3 DEF Begun
  <2>5. Len(d) >= 3 /\ Len(e) >= 3 /\ ~(Len(d) < 6) /\ ~(Len(e) < 6)
    BY <2>1, <2>3
  <2>6. \A x : ~(Len(x) < 6) => ParseMouseLegacy(x) = [st |-> "ok", end |-> 6]
    BY DEF ParseMouseLegacy
  <2>7. /\ ParseMouseLegacy(d).st = "ok" /\ ParseMouseLegacy(d).end = 6
        /\ ParseMouseLegacy(e).st = "ok" /\ ParseMouseLegacy(e).end = 6
    BY <2>5, <2>6
  <2> QED
    BY <1>2, <2>2, <2>4, <2>5, <2>7 DEF X10Stage
<1> QED
  BY <1>1, <1>2

LEMMA URXVTSame ==
  ASSUME NEW d \in Seq(Byte), NEW e \in Seq(Byte), Begun(d, e), NEW alt
  PROVE  URXVTStage(e, alt) = URXVTStage(d, alt)
<1>1. CASE ~IsCSI(d)
  BY <1>1 DEF URXVTStage, Begun
<1>2. CASE IsCSI(d)
  <2>a. PICK n \in Nat, k \in Nat : n = Len(d) /\ k = Len(e) /\ 3 <= n /\ n <= k
    BY <1>2 DEF Begun
  <2>1. PICK m \in 3..n : m = ScanCSI(d).end
    BY <1>2, <2>a DEF Begun
  <2>2. /\ e[m] = d[m] /\ IsCSI(e) /\ ScanCSI(e) = ScanCSI(d)
        /\ ScanCSI(d).st \in {"ok", "invalid"}
    BY <1>2, <2>a, <2>1 DEF Begun
  <2>3. CASE n = 3
    BY <2>a, <2>1, <2>2, <2>3 DEF URXVTStage
  <2>4. CASE n > 3
    <3>1. SubSeq(e, 1, m) = SubSeq(d, 1, m)
      BY <2>a, <2>1 DEF Begun
    <3>2. 3 \in 1..n /\ m \in 1..n
      BY <2>a, <2>1
    <3>3. Count(e, SEMI, 3, m) = Count(d, SEMI, 3, m)
      BY <2>a, <2>1, <3>2 DEF Begun
    <3>4. ParseMouseURXVT(e, m) <=> ParseMouseURXVT(d, m)
      BY <3>3 DEF ParseMouseURXVT
    <3>5. Len(d) > 3 /\ Len(e) > 3
      BY <2>a, <2>4
    <3> QED
      BY <1>2, <2>1, <2>2, <3>1, <3>4, <3>5 DEF URXVTStage
  <2> QED
    BY <2>a, <2>3, <2>4
<1> QED
  BY <1>1, <1>2

LEMMA SS3ParseSame ==
  ASSUME NEW d \in Seq(Byte), NEW e \in Seq(Byte), Begun(d, e), 3 <= Len(d),
         ParseLegacySS3(d).st # "incomplete"
  PROVE  /\ ParseLegacySS3(e) = ParseLegacySS3(d)
         /\ ParseLegacySS3(d).end \in 1..Len(d)
<1>1. PICK n \in Nat, k \in Nat : n = Len(d) /\ k = Len(e) /\ 3 <= n /\ n <= k
  BY DEF Begun
<1>2. \A i \in 1..n : e[i] = d[i]
  BY <1>1 DEF Begun
<1>3. PICK h \in {2, 3} : /\ h = IF d[2] = LBR /\ d[3] = CapO THEN 3 ELSE 2
                          /\ h = IF e[2] = LBR /\ e[3] = CapO THEN 3 ELSE 2
  BY <1>1, <1>2
<1>4. PICK m \in Nat : m = h + IF n > h /\ d[h + 1] \in Digits THEN 2 ELSE 1
  BY <1>1
<1>5. ParseLegacySS3(d) =
        IF n < m THEN [st |-> "incomplete", end |-> 0]
        ELSE [st |-> IF d[m] \in SS3Keys THEN "ok" ELSE "invalid", end |-> m]
  BY <1>1, <1>3, <1>4 DEF ParseLegacySS3
<1>6. ~(n < m)
  BY <1>5
<1>7. m \in 1..n /\ h + 1 \in 1..n
  BY <1>1, <1>4, <1>6
<1>8. m = h + IF k > h /\ e[h + 1] \in Digits THEN 2 ELSE 1
  BY <1>1, <1>2, <1>4, <1>7
<1>9. ParseLegacySS3(e) =
        IF k < m THEN [st |-> "incomplete", end |-> 0]
        ELSE [st |-> IF e[m] \in SS3Keys THEN "ok" ELSE "invalid", end |-> m]
  BY <1>1, <1>3, <1>8 DEF ParseLegacySS3
<1> QED
  BY <1>1, <1>2, <1>5, <1>6, <1>7, <1>9

LEMMA SS3Same ==
  ASSUME NEW d \in Seq(Byte), NEW e \in Seq(Byte), Begun(d, e), NEW alt, SS3Stage(d, alt).act # "wait"
  PROVE  SS3Stage(e, alt) = SS3Stage(d, alt)
<1>1. PICK n \in Nat, k \in Nat : n = Len(d) /\ k = Len(e) /\ 2 <= n /\ n <= k
  BY DEF Begun
<1>2. e[2] = d[2] /\ (IsCSI(e) <=> IsCSI(d)) /\ (IsCSI(d) => 3 <= n /\ e[3] = d[3])
  BY <1>1 DEF Begun
<1>3. CASE ~(d[2] = CapO \/ (IsCSI(d) /\ d[3] = CapO))
  BY <1>1, <1>2, <1>3 DEF SS3Stage
<1>4. CASE d[2] = CapO \/ (IsCSI(d) /\ d[3] = CapO)
  <2>1. ParseLegacySS3(d).st # "incomplete"
    BY <1>1, <1>2, <1>4 DEF SS3Stage, Wait
  <2>2. 3 <= n
    <3>1. CASE IsCSI(d)
      BY <1>2, <3>1
    <3>2. CASE d[2] = CapO
      BY <1>1, <2>1, <3>2 DEF ParseLegacySS3
    <3> QED
      BY <1>4, <3>1, <3>2
  <2>3. PICK m \in 1..n : /\ ParseLegacySS3(e) = ParseLegacySS3(d)
                          /\ ParseLegacySS3(d).end = m
    BY <1>1, <2>1, <2>2, SS3ParseSame
  <2>4. SubSeq(e, 1, m) = SubSeq(d, 1, m)
    BY <1>1, <2>3 DEF Begun
  <2>5. Len(d) > 1 /\ Len(e) > 1 /\ Len(d) > 2 /\ Len(e) > 2
    BY <1>1, <2>2
  <2>6. /\ d[2] = CapO \/ (IsCSI(d) /\ d[3] = CapO)
        /\ e[2] = CapO \/ (IsCSI(e) /\ e[3] = CapO)
    BY <1>2, <1>4
  <2> QED
    BY <2>1, <2>3, <2>4, <2>5, <2>6 DEF SS3Stage
<1> QED
  BY <1>3, <1>4

LEMMA DASame ==
  ASSUME NEW d \in Seq(Byte), NEW e \in Seq(Byte), Begun(d, e)
  PROVE  DAStage(e) = DAStage(d)
<1>1. CASE IsCSI(d)
  <2>1. /\ Len(d) > 2 /\ Len(e) > 2 /\ IsCSI(e) /\ e[3] = d[3]
        /\ ScanCSI(e) = ScanCSI(d)
        /\ e[ScanCSI(d).end] = d[ScanCSI(d).end]
    BY <1>1 DEF Begun
  <2> QED
    BY <1>1, <2>1 DEF DAStage
<1>2. CASE ~IsCSI(d)
  BY <1>2 DEF DAStage, Begun
<1> QED
  BY <1>1, <1>2

\* The number before '~' is the same for both.
LEMMA TildeSame ==
  ASSUME NEW d \in Seq(Byte), NEW e \in Seq(Byte), Begins(d, e),
         NEW end \in 3..Len(d)
  PROVE  TildeKey(e, end) <=> TildeKey(d, end)
<1>1. PICK h \in Int : h = end - 1 /\ 2 <= h /\ h <= Len(d)
  OBVIOUS
<1>2. 3 \in Nat \ {0}
  OBVIOUS
<1>3. FieldBounds(e, 1, 3, h) = FieldBounds(d, 1, 3, h)
  BY <1>1, <1>2, BeginsBounds
<1>4. PICK i \in Nat \ {0}, j \in Int :
        /\ FieldBounds(d, 1, 3, h) = <<i, j>>
        /\ \/ i <= j /\ j <= h
           \/ i = 3 /\ j = 3 - 1
  BY <1>1, <1>2, BoundsInside
<1>5. j <= Len(d)
  BY <1>1, <1>4
<1>6. \A x \in i..j : e[x] = d[x]
  BY <1>5 DEF Begins
<1>7. i <= j => e[i] = d[i]
  BY <1>4, <1>6
<1>8. PICK lo \in Nat \ {0} :
        /\ lo = IF i <= j /\ d[i] = Plus THEN i + 1 ELSE i
        /\ lo = IF i <= j /\ e[i] = Plus THEN i + 1 ELSE i
  <2>1. CASE i <= j
    BY <1>7, <2>1
  <2>2. CASE ~(i <= j)
    BY <2>2
  <2> QED
    BY <2>1, <2>2
<1>9. Number(e, lo, j) = Number(d, lo, j)
  BY <1>5, BeginsNumber
<1>10. \A x \in lo..j : e[x] = d[x]
  BY <1>6, <1>8
<1>11. TildeKey(d, end) <=>
         lo <= j /\ (\A x \in lo..j : d[x] \in Digits) /\ Number(d, lo, j) \in TildeCodes
  <2>1. FieldBounds(d, 1, 3, end - 1) = <<i, j>> /\ <<i, j>>[1] = i /\ <<i, j>>[2] = j
    BY <1>1, <1>4
  <2>2. lo = IF i <= j /\ d[i] = Plus THEN i + 1 ELSE i
    BY <1>8
  <2> QED
    BY <2>1, <2>2, Zenon DEF TildeKey
<1>12. TildeKey(e, end) <=>
         lo <= j /\ (\A x \in lo..j : e[x] \in Digits) /\ Number(e, lo, j) \in TildeCodes
  <2>1. FieldBounds(e, 1, 3, end - 1) = <<i, j>> /\ <<i, j>>[1] = i /\ <<i, j>>[2] = j
    BY <1>1, <1>3, <1>4
  <2>2. lo = IF i <= j /\ e[i] = Plus THEN i + 1 ELSE i
    BY <1>8
  <2> QED
    BY <2>1, <2>2, Zenon DEF TildeKey
<1> QED
  BY <1>9, <1>10, <1>11, <1>12

LEMMA LegacySame ==
  ASSUME NEW d \in Seq(Byte), NEW e \in Seq(Byte), Begins(d, e),
         NEW end \in 3..Len(d)
  PROVE  ParseLegacyCSI(e, end) <=> ParseLegacyCSI(d, end)
<1>1. e[end] = d[end] /\ \A i \in 3..(end - 1) : e[i] = d[i]
  BY DEF Begins
<1>2. TildeKey(e, end) <=> TildeKey(d, end)
  BY TildeSame
<1> QED
  BY <1>1, <1>2 DEF ParseLegacyCSI

LEMMA KittySame ==
  ASSUME NEW d \in Seq(Byte), NEW e \in Seq(Byte), Begins(d, e),
         NEW end \in 3..Len(d)
  PROVE  ParseKitty(e, end) <=> ParseKitty(d, end)
<1> DEFINE semis(x) == {i \in 3..(end - 1) : x[i] = SEMI}
           mid(x)   == IF semis(x) = {} THEN end ELSE First(semis(x))
<1>1. e[end] = d[end] /\ \A i \in 3..(end - 1) : e[i] = d[i]
  BY DEF Begins
<1>2. semis(e) = semis(d)
  BY <1>1
<1>3. semis(d) \in SUBSET Nat /\ semis(d) \subseteq 3..(end - 1)
  OBVIOUS
<1>4. \A x : ParseKitty(x, end) <=>
         /\ x[end] \in KittyFinals
         /\ \A i \in 3..(end - 1) : x[i] \in Digits \union {SEMI, COLON}
         /\ Cardinality(semis(x)) <= 1
         /\ Count(x, COLON, 3, mid(x)) <= 2 /\ Count(x, COLON, mid(x), end) <= 2
  BY Zenon DEF ParseKitty
<1> HIDE DEF semis
<1>5. PICK m \in 3..end : m = mid(d) /\ m = mid(e)
  <2>1. CASE semis(d) = {}
    BY <1>2, <2>1
  <2>2. CASE semis(d) # {}
    <3>1. First(semis(d)) \in 3..(end - 1)
      BY <1>3, <2>2, FirstIsLeast
    <3> QED
      BY <1>2, <2>2, <3>1
  <2> QED
    BY <2>1, <2>2
<1>6. /\ Count(e, COLON, 3, m) = Count(d, COLON, 3, m)
      /\ Count(e, COLON, m, end) = Count(d, COLON, m, end)
  <2>1. /\ 3 \in Nat \ {0} /\ m \in Nat \ {0} /\ end \in Int /\ m \in Int
        /\ m <= Len(d) /\ end <= Len(d)
    BY <1>5
  <2> QED
    BY <2>1, BeginsCount
<1> HIDE DEF mid
<1>7. (\A i \in 3..(end - 1) : e[i] \in Digits \union {SEMI, COLON})
        <=> (\A i \in 3..(end - 1) : d[i] \in Digits \union {SEMI, COLON})
  BY <1>1
<1> QED
  BY <1>1, <1>2, <1>4, <1>5, <1>6, <1>7, Zenon

LEMMA CSISame ==
  ASSUME NEW d \in Seq(Byte), NEW e \in Seq(Byte), Begins(d, e), Begun(d, e),
         NEW alt, NEW far2l
  PROVE  CSIStage(e, alt, far2l) = CSIStage(d, alt, far2l)
<1>1. CASE ~IsCSI(d)
  BY <1>1 DEF CSIStage, Begun
<1>2. CASE IsCSI(d)
  <2>1. PICK m \in 3..Len(d) : m = ScanCSI(d).end
    BY <1>2 DEF Begun
  <2>2. IsCSI(e) /\ ScanCSI(e) = ScanCSI(d) /\ e[m] = d[m]
    BY <1>2, <2>1 DEF Begun
  <2>3. m \in 1..Len(d)
    BY <2>1
  <2>4. SubSeq(e, 1, m) = SubSeq(d, 1, m)
    BY <2>3 DEF Begun
  <2>5. /\ ParseLegacyCSI(e, m) <=> ParseLegacyCSI(d, m)
        /\ ParseKitty(e, m) <=> ParseKitty(d, m)
    BY LegacySame, KittySame
  <2>6. ParseWin32InputEvent(e, m) <=> ParseWin32InputEvent(d, m)
    BY <2>2 DEF ParseWin32InputEvent
  <2> QED
    BY <1>2, <2>1, <2>2, <2>4, <2>5, <2>6 DEF CSIStage
<1> QED
  BY <1>1, <1>2

-----------------------------------------------------------------------------
(***************************************************************************)
(* The ladder.                                                             *)
(***************************************************************************)

\* What the ladder sees of t is what it sees of s, or that and more.
Grows(s, t) ==
  /\ s \in DState /\ t \in DState
  /\ AltOffset(t) = AltOffset(s) /\ t.wrap = s.wrap /\ t.far2l = s.far2l
  /\ Begins(ParseBuf(s), ParseBuf(t))

LEMMA UnwrapSame ==
  ASSUME NEW s, NEW t, Grows(s, t), Whole(ParseBuf(s))
  PROVE  /\ Unwrapping(t) <=> Unwrapping(s)
         /\ RecordEnd(ParseBuf(t)) = RecordEnd(ParseBuf(s))
         /\ UnwrapStage(s).act # "wait" => UnwrapStage(t) = UnwrapStage(s)
<1> DEFINE d == ParseBuf(s)
           e == ParseBuf(t)
<1>1. /\ d \in Seq(Byte) /\ e \in Seq(Byte) /\ Begins(d, e) /\ Whole(d)
      /\ Len(d) \in Nat /\ Len(e) \in Nat /\ Len(d) <= Len(e)
  BY ParseBufType DEF Grows, Begins
<1>2. isWinWrappedStart(e) <=> isWinWrappedStart(d)
  BY <1>1, BeginsStart
<1>3. Unwrapping(t) <=> Unwrapping(s)
  BY <1>2 DEF Unwrapping, Grows
<1>4. /\ RecordEnd(e) = RecordEnd(d)
      /\ RecordEnd(d) > 0 => RecordByte(e) = RecordByte(d)
  BY <1>1, BeginsRecord
<1>5. ASSUME UnwrapStage(s).act # "wait"
      PROVE  UnwrapStage(t) = UnwrapStage(s)
  <2>1. CASE ~Unwrapping(s)
    BY <1>3, <2>1 DEF UnwrapStage
  <2>2. CASE Unwrapping(s) /\ RecordEnd(d) > 0
    BY <1>3, <1>4, <2>2 DEF UnwrapStage
  <2>3. CASE Unwrapping(s) /\ ~(RecordEnd(d) > 0)
    <3>1. ~(Len(d) < RunawayLen)
      BY <1>5, <2>3 DEF UnwrapStage, Wait
    <3>2. ~(Len(e) < RunawayLen)
      BY <1>1, <3>1 DEF RunawayLen
    <3> QED
      BY <1>3, <1>4, <2>3, <3>1, <3>2 DEF UnwrapStage
  <2> QED
    BY <2>1, <2>2, <2>3
<1> QED
  BY <1>3, <1>4, <1>5

\* If one of two steps of the ladder decides, it decides the same of more.
LEMMA OtherwiseSame ==
  ASSUME NEW f, NEW g, NEW f2, NEW g2,
         f.act # "wait" => f2 = f,
         g.act # "wait" => g2 = g
  PROVE  Otherwise(f, g).act # "wait" => Otherwise(f2, g2) = Otherwise(f, g)
<1>1. CASE f.act = "pass"
  BY <1>1 DEF Otherwise
<1>2. CASE f.act # "pass"
  BY <1>2 DEF Otherwise
<1> QED
  BY <1>1, <1>2

LEMMA LadderSame ==
  ASSUME NEW s, NEW t, Grows(s, t), Whole(ParseBuf(s)),
         Ladder(s).act # "wait",
         UnwrapStage(s).act = "pass" =>
           ~(/\ Len(ParseBuf(s)) = 3 /\ Len(ParseBuf(t)) > 3
             /\ FocusStage(ParseBuf(s)).act = "emit" /\ ParseBuf(s)[3] = CapO
             /\ ParseBuf(t)[4] \in BrokenSS3)
  PROVE  Ladder(t) = Ladder(s)
<1> DEFINE d      == ParseBuf(s)
           e      == ParseBuf(t)
           alt    == AltOffset(s) = 1
           s10(x) == Otherwise(DAStage(x), CSIStage(x, alt, s.far2l))
           s9(x)  == Otherwise(SS3Stage(x, alt), s10(x))
           s8(x)  == Otherwise(URXVTStage(x, alt), s9(x))
           s7(x)  == Otherwise(X10Stage(x, alt), s8(x))
           s6(x)  == Otherwise(SGRStage(x, alt), s7(x))
           s5(x)  == Otherwise(PasteStage(x), s6(x))
           s4(x)  == Otherwise(APCStage(x), s5(x))
           s3(x)  == Otherwise(DSRStage(x), s4(x))
           s2(x)  == Otherwise(FocusStage(x), s3(x))
<1>1. d \in Seq(Byte) /\ e \in Seq(Byte) /\ Begins(d, e) /\ Whole(d)
  BY ParseBufType DEF Grows
<1>2. Begun(d, e)
  BY <1>1, WholeBegun
<1>3. Ladder(s) = Otherwise(UnwrapStage(s), s2(d))
  BY DEF Ladder
<1>4. Ladder(t) = Otherwise(UnwrapStage(t), s2(e))
  BY DEF Ladder, Grows
<1>5. UnwrapStage(s).act # "wait" => UnwrapStage(t) = UnwrapStage(s)
  BY UnwrapSame
<1>6. CASE UnwrapStage(s).act # "pass"
  BY <1>3, <1>4, <1>5, <1>6 DEF Otherwise
<1>7. CASE UnwrapStage(s).act = "pass"
  <2>a. ~(/\ Len(d) = 3 /\ Len(e) > 3 /\ FocusStage(d).act = "emit"
          /\ d[3] = CapO /\ e[4] \in BrokenSS3)
    BY <1>7
  <2> HIDE DEF d, e, alt
  <2>1. s10(d).act # "wait" => s10(e) = s10(d)
    BY <1>1, <1>2, DASame, CSISame
  <2>2. s9(d).act # "wait" => s9(e) = s9(d)
    <3>1. SS3Stage(d, alt).act # "wait" => SS3Stage(e, alt) = SS3Stage(d, alt)
      BY <1>1, <1>2, SS3Same
    <3> HIDE DEF s10
    <3> QED
      BY <2>1, <3>1, OtherwiseSame
  <2>3. s8(d).act # "wait" => s8(e) = s8(d)
    <3>1. URXVTStage(e, alt) = URXVTStage(d, alt)
      BY <1>1, <1>2, URXVTSame
    <3> HIDE DEF s9
    <3> QED
      BY <2>2, <3>1, OtherwiseSame
  <2>4. s7(d).act # "wait" => s7(e) = s7(d)
    <3>1. X10Stage(d, alt).act # "wait" => X10Stage(e, alt) = X10Stage(d, alt)
      BY <1>1, <1>2, X10Same
    <3> HIDE DEF s8
    <3> QED
      BY <2>3, <3>1, OtherwiseSame
  <2>5. s6(d).act # "wait" => s6(e) = s6(d)
    <3>1. SGRStage(e, alt) = SGRStage(d, alt)
      BY <1>1, <1>2, SGRSame
    <3> HIDE DEF s7
    <3> QED
      BY <2>4, <3>1, OtherwiseSame
  <2>6. s5(d).act # "wait" => s5(e) = s5(d)
    <3>1. PasteStage(e) = PasteStage(d)
      BY <1>1, <1>2, PasteSame
    <3> HIDE DEF s6
    <3> QED
      BY <2>5, <3>1, OtherwiseSame
  <2>7. s4(d).act # "wait" => s4(e) = s4(d)
    <3>1. APCStage(d).act # "wait" => APCStage(e) = APCStage(d)
      BY <1>1, <1>2, APCSame
    <3> HIDE DEF s5
    <3> QED
      BY <2>6, <3>1, OtherwiseSame
  <2>8. s3(d).act # "wait" => s3(e) = s3(d)
    <3>1. DSRStage(e) = DSRStage(d)
      BY <1>1, <1>2, DSRSame
    <3> HIDE DEF s4
    <3> QED
      BY <2>7, <3>1, OtherwiseSame
  <2>9. s2(d).act # "wait" => s2(e) = s2(d)
    <3>1. FocusStage(e) = FocusStage(d)
      BY <1>1, <1>2, <2>a, FocusSame
    <3> HIDE DEF s3
    <3> QED
      BY <2>8, <3>1, OtherwiseSame
  <2> HIDE DEF s2
  <2> QED
    BY <1>3, <1>4, <1>5, <1>7, <2>9 DEF Otherwise
<1> QED
  BY <1>6, <1>7

LEMMA PassOn ==
  /\ \A g : Otherwise(Pass, g) = g
  /\ \A g : Otherwise(Wait, g) = Wait
  /\ \A f, g : f.act = "pass" => Otherwise(f, g) = g
  /\ \A f, g : f.act = "wait" => Otherwise(f, g).act = "wait"
BY DEF Otherwise, Pass, Wait

\* The ladder has nothing to say, or waits for the next record, if ESC is not
\* followed by [ _ or O.
LEMMA NoSequence ==
  ASSUME NEW s \in DState,
         Len(ParseBuf(s)) > 1 => ParseBuf(s)[2] \notin {LBR, UND, CapO}
  PROVE  Ladder(s).act \in {"pass", "wait"}
<1> DEFINE d   == ParseBuf(s)
           alt == AltOffset(s) = 1
<1>1. d \in Seq(Byte) /\ Len(d) \in Nat
  BY ParseBufType
<1>2. /\ ~IsCSI(d) /\ ~(Len(d) > 1 /\ d[2] = UND) /\ ~(Len(d) > 1 /\ d[2] = CapO)
      /\ Len(d) >= 3 => d[2] # LBR
  BY <1>1 DEF IsCSI
<1>3. UnwrapStage(s).act \in {"pass", "wait"}
  <2>1. RecordEnd(d) = 0
    BY <1>1, <1>2 DEF RecordEnd
  <2> QED
    BY <2>1 DEF UnwrapStage, Pass, Wait
<1>4. Ladder(s) = Otherwise(UnwrapStage(s),
      Otherwise(FocusStage(d), Otherwise(DSRStage(d), Otherwise(APCStage(d),
      Otherwise(PasteStage(d), Otherwise(SGRStage(d, alt), Otherwise(X10Stage(d, alt),
      Otherwise(URXVTStage(d, alt), Otherwise(SS3Stage(d, alt), Otherwise(DAStage(d),
                CSIStage(d, alt, s.far2l)))))))))))
  BY DEF Ladder
<1> HIDE DEF d, alt
<1>5. /\ FocusStage(d) = Pass /\ DSRStage(d) = Pass /\ APCStage(d) = Pass
      /\ PasteStage(d) = Pass /\ SGRStage(d, alt) = Pass /\ X10Stage(d, alt) = Pass
  BY <1>2, Zenon DEF FocusStage, DSRStage, APCStage, PasteStage, SGRStage, X10Stage
<1>6. /\ URXVTStage(d, alt) = Pass /\ SS3Stage(d, alt) = Pass /\ DAStage(d) = Pass
      /\ CSIStage(d, alt, s.far2l) = Pass
  BY <1>2, Zenon DEF URXVTStage, SS3Stage, DAStage, CSIStage
<1>7. Ladder(s) = Otherwise(UnwrapStage(s), Pass)
  BY <1>4, <1>5, <1>6, PassOn
<1> QED
  BY <1>3, <1>7 DEF Otherwise, Pass

\* ESC [ and parameters: the ladder waits for the final byte.
LEMMA IncompleteWaits ==
  ASSUME NEW s \in DState, Len(ParseBuf(s)) >= 2, IsCSI(ParseBuf(s)),
         ParseBuf(s)[1] = ESC, CSIStops(ParseBuf(s)) = {}
  PROVE  Ladder(s).act = "wait"
<1> DEFINE d   == ParseBuf(s)
           alt == AltOffset(s) = 1
           s4  == Otherwise(APCStage(d),
      Otherwise(PasteStage(d), Otherwise(SGRStage(d, alt), Otherwise(X10Stage(d, alt),
      Otherwise(URXVTStage(d, alt), Otherwise(SS3Stage(d, alt), Otherwise(DAStage(d),
                CSIStage(d, alt, s.far2l))))))))
<1>1. d \in Seq(Byte) /\ Len(d) \in Nat /\ Len(d) >= 2 /\ IsCSI(d) /\ d[1] = ESC /\ d[2] = LBR
  BY ParseBufType DEF IsCSI
<1>2. \A i \in 3..Len(d) : d[i] \in Param
  BY DEF CSIStops
<1>3. ScanCSI(d).st = "incomplete"
  BY <1>1 DEF ScanCSI
<1>4. Ladder(s) = Otherwise(UnwrapStage(s), Otherwise(FocusStage(d), Otherwise(DSRStage(d), s4)))
  BY DEF Ladder
<1>5. UnwrapStage(s).act \in {"pass", "wait"}
  <2> DEFINE stops == {i \in 3..Len(d) : d[i] \notin Digits \union {SEMI}}
  <2>1. RecordEnd(d) # 0 => stops # {} /\ d[First(stops)] = UND
    BY DEF RecordEnd
  <2>2. stops \in SUBSET Nat /\ stops \subseteq 3..Len(d)
    OBVIOUS
  <2>3. UND \notin Param
    BY DEF UND, Param
  <2> HIDE DEF stops
  <2>4. RecordEnd(d) = 0
    BY <1>2, <2>1, <2>2, <2>3, FirstIsLeast
  <2> QED
    BY <2>4 DEF UnwrapStage, Pass, Wait
<1> HIDE DEF d, alt, s4
<1>6. FocusStage(d) = Pass
  <2>1. CapI \notin Param /\ CapO \notin Param
    BY DEF CapI, CapO, Param
  <2>2. Len(d) >= 3 => d[3] \in Param
    BY <1>1, <1>2
  <2> QED
    BY <2>1, <2>2 DEF FocusStage
<1>7. Otherwise(DSRStage(d), s4).act = "wait"
  <2>1. CASE Len(d) > 2
    <3>1. DSRStage(d) = Wait
      BY <1>1, <1>3, <2>1 DEF DSRStage
    <3> QED
      BY <3>1 DEF Otherwise, Wait
  <2>2. CASE ~(Len(d) > 2)
    <3>1. /\ ~(Len(d) > 3) /\ ~(Len(d) >= 3) /\ ~(Len(d) >= 6) /\ d[2] # UND /\ d[2] # CapO
      BY <1>1, <2>2 DEF LBR, UND, CapO
    <3>2. /\ DSRStage(d) = Pass /\ APCStage(d) = Pass
          /\ PasteStage(d) = Pass /\ SGRStage(d, alt) = Pass /\ X10Stage(d, alt) = Pass
      BY <2>2, <3>1, Zenon DEF DSRStage, APCStage, PasteStage, SGRStage, X10Stage
    <3>3. URXVTStage(d, alt) = Pass /\ SS3Stage(d, alt) = Pass /\ DAStage(d) = Pass
      BY <2>2, <3>1, Zenon DEF URXVTStage, SS3Stage, DAStage
    <3>4. CSIStage(d, alt, s.far2l) = Wait
      BY <1>1, <1>3 DEF CSIStage
    <3>5. Otherwise(DSRStage(d), s4) = Wait
      BY <3>2, <3>3, <3>4, PassOn DEF s4
    <3> QED
      BY <3>5 DEF Wait
  <2> QED
    BY <2>1, <2>2
<1>8. Otherwise(FocusStage(d), Otherwise(DSRStage(d), s4)).act = "wait"
  BY <1>6, <1>7, PassOn, Zenon
<1> QED
  BY <1>4, <1>5, <1>8 DEF Otherwise

\* What the ladder sees starts with ESC, byte by byte.
LEMMA ParseBufBytes ==
  ASSUME NEW s \in DState
  PROVE  \A i \in 1..Len(ParseBuf(s)) : ParseBuf(s)[i] = s.buf[i + AltOffset(s)]
<1>1. /\ AltOffset(s) \in {0, 1} /\ s.buf \in Seq(Byte) /\ Len(s.buf) \in Nat
      /\ Len(ParseBuf(s)) = Len(s.buf) - AltOffset(s)
  BY ParseBufType DEF DState
<1>2. PICK k \in {0, 1}, n \in Nat : k = AltOffset(s) /\ n = Len(s.buf)
  BY <1>1
<1>3. \A i \in (1 + k)..n : s.buf[i] \in Byte
  BY <1>1, <1>2
<1>4. \A i \in 1..(n - (1 + k) + 1) : SubSeq(s.buf, 1 + k, n)[i] = s.buf[(1 + k) + i - 1]
  BY <1>2, <1>3, SubSeqProperties
<1>5. \A i \in 1..(n - k) : (1 + k) + i - 1 = i + k /\ i \in 1..(n - (1 + k) + 1)
  BY <1>2
<1> QED
  BY <1>1, <1>2, <1>4, <1>5 DEF ParseBuf

LEMMA ParseBufEsc ==
  ASSUME NEW s \in DState, s.buf # <<>>, s.buf[1] = ESC
  PROVE  Len(ParseBuf(s)) >= 1 /\ ParseBuf(s)[1] = ESC
<1>1. /\ AltOffset(s) \in {0, 1} /\ Len(s.buf) \in Nat /\ Len(s.buf) # 0
      /\ Len(ParseBuf(s)) = Len(s.buf) - AltOffset(s)
  BY ParseBufType DEF DState
<1>2. AltOffset(s) = 1 => Len(s.buf) >= 3 /\ s.buf[2] = ESC
  BY DEF AltOffset
<1>3. Len(ParseBuf(s)) >= 1
  BY <1>1, <1>2
<1>4. ParseBuf(s)[1] = s.buf[1 + AltOffset(s)]
  BY <1>1, <1>3, ParseBufBytes
<1> QED
  BY <1>1, <1>2, <1>3, <1>4

\* With an ESC in front, the iteration is the ladder and the last stages.
LEMMA DecideEsc ==
  ASSUME NEW s \in DState, s.buf # <<>>, s.buf[1] = ESC
  PROVE  /\ Decide(s) = Otherwise(WithPrefix(Ladder(s), AltOffset(s)),
                        Otherwise(DoubleEscStage(s), Otherwise(LegacyAltStage(s), Wait)))
         /\ Ladder(s).act \in {"wait", "pass"} =>
              WithPrefix(Ladder(s), AltOffset(s)) = Ladder(s)
         /\ Ladder(s).act = "wait" => Decide(s).act = "wait"
<1>1. Decide(s) = Otherwise(WithPrefix(Ladder(s), AltOffset(s)),
                  Otherwise(DoubleEscStage(s), Otherwise(LegacyAltStage(s), Wait)))
  BY DEF Decide
<1>2. Ladder(s).act \in {"wait", "pass"} =>
        WithPrefix(Ladder(s), AltOffset(s)) = Ladder(s)
  BY DEF WithPrefix
<1>3. Ladder(s).act = "wait" => Decide(s).act = "wait"
  BY <1>1, <1>2, PassOn
<1> QED
  BY <1>1, <1>2, <1>3

\* An iteration that did not wait has the escape sequence whole.
LEMMA WholeUnlessWaiting ==
  ASSUME NEW s \in DState, s.buf # <<>>, s.buf[1] = ESC, Decide(s).act # "wait"
  PROVE  Whole(ParseBuf(s))
<1> DEFINE d == ParseBuf(s)
<1>1. d \in Seq(Byte) /\ Len(d) \in Nat /\ Len(d) >= 1 /\ d[1] = ESC
  BY ParseBufType, ParseBufEsc
<1>2. Ladder(s).act # "wait"
  BY DecideEsc
<1>3. CASE Len(d) = 1
  <2>1. Ladder(s).act = "pass"
    <3>1. ~(Len(d) > 1)
      BY <1>3
    <3> QED
      BY <1>2, <3>1, NoSequence
  <2>2. Len(s.buf) = 1 /\ s.buf \in Seq(Byte)
    <3>1. PICK n \in Nat, k \in {0, 1} :
            /\ n = Len(s.buf) /\ k = AltOffset(s) /\ Len(d) = n - k
      BY ParseBufType DEF DState
    <3>2. k = 1 => n >= 3
      BY <3>1 DEF AltOffset
    <3>3. 1 = n - k
      BY <1>3, <3>1
    <3>a. \A x \in Nat, y \in {0, 1} : 1 = x - y /\ (y = 1 => x >= 3) => x = 1
      OBVIOUS
    <3>4. n = 1
      BY <3>a, <3>2, <3>3
    <3> QED
      BY <3>1, <3>4 DEF DState
  <2>3. DoubleEscStage(s) = Pass
    BY <2>2 DEF DoubleEscStage
  <2>4. LegacyAltStage(s) = Pass
    <3>1. Drop(s.buf, 1) \in Seq(Byte) /\ Len(Drop(s.buf, 1)) = 0
      <4>1. 1 \in 0..Len(s.buf)
        BY <2>2
      <4> QED
        BY <2>2, <4>1, DropType, 1 - 1 = 0
    <3>2. Drop(s.buf, 1) = <<>>
      BY <3>1, EmptySeq
    <3> QED
      BY <3>2 DEF LegacyAltStage, FullRune
  <2>5. Decide(s) = Wait
    BY <2>1, <2>3, <2>4, DecideEsc, PassOn
  <2> QED
    BY <2>5 DEF Wait
<1>4. CASE Len(d) >= 2
  <2>1. d[2] = LBR => CSIStops(d) # {}
    <3> SUFFICES ASSUME d[2] = LBR, CSIStops(d) = {} PROVE FALSE
      OBVIOUS
    <3>1. IsCSI(d)
      BY <1>1, <1>4 DEF IsCSI
    <3> QED
      BY <1>1, <1>2, <1>4, <3>1, IncompleteWaits
  <2> QED
    BY <1>1, <1>4, <2>1 DEF Whole
<1>5. PICK n \in Nat : n = Len(d) /\ n >= 1
  BY <1>1
<1>6. n = 1 \/ n >= 2
  BY <1>5
<1> QED
  BY <1>3, <1>4, <1>5, <1>6

-----------------------------------------------------------------------------
(***************************************************************************)
(* More bytes on top of those an iteration has.                            *)
(***************************************************************************)
LEMMA ExtendedType ==
  ASSUME NEW s \in DState, NEW c \in Seq(Byte)
  PROVE  /\ Extended(s, c) \in DState
         /\ Extended(s, c).buf = s.buf \o c
         /\ Extended(s, c).dbl = s.dbl /\ Extended(s, c).wrap = s.wrap
         /\ Extended(s, c).far2l = s.far2l
         /\ Len(s.buf \o c) = Len(s.buf) + Len(c)
         /\ Begins(s.buf, s.buf \o c)
         /\ \A i \in 1..Len(c) : (s.buf \o c)[Len(s.buf) + i] = c[i]
<1>1. s.buf \in Seq(Byte) /\ Len(s.buf) \in Nat /\ Len(c) \in Nat
  BY DEF DState
<1>2. /\ s.buf \o c \in Seq(Byte) /\ Len(s.buf \o c) = Len(s.buf) + Len(c)
      /\ \A i \in 1..(Len(s.buf) + Len(c)) :
           (s.buf \o c)[i] = IF i <= Len(s.buf) THEN s.buf[i] ELSE c[i - Len(s.buf)]
  BY <1>1, ConcatProperties
<1>3. PICK m \in Nat, n \in Nat : m = Len(s.buf) /\ n = Len(c)
  BY <1>1
<1>4. \A i \in 1..m : (s.buf \o c)[i] = s.buf[i]
  BY <1>2, <1>3
<1>5. \A i \in 1..n : (s.buf \o c)[m + i] = c[i]
  <2> TAKE i \in 1..n
  <2>1. m + i \in 1..(m + n) /\ ~(m + i <= m) /\ m + i - m = i
    BY <1>3
  <2> QED
    BY <1>2, <1>3, <2>1
<1>6. Begins(s.buf, s.buf \o c)
  BY <1>1, <1>2, <1>3, <1>4 DEF Begins
<1>7. /\ Extended(s, c) \in DState
      /\ Extended(s, c).buf = s.buf \o c
      /\ Extended(s, c).dbl = s.dbl /\ Extended(s, c).wrap = s.wrap
      /\ Extended(s, c).far2l = s.far2l
  BY <1>2 DEF Extended, DState
<1> QED
  BY <1>2, <1>3, <1>5, <1>6, <1>7

LEMMA ExtendedGrows ==
  ASSUME NEW s \in DState, NEW c \in Seq(Byte),
         AltOffset(Extended(s, c)) = AltOffset(s)
  PROVE  Grows(s, Extended(s, c))
<1> DEFINE t == Extended(s, c)
<1>1. /\ t \in DState /\ t.buf = s.buf \o c /\ t.wrap = s.wrap /\ t.far2l = s.far2l
      /\ Len(s.buf \o c) = Len(s.buf) + Len(c)
      /\ Begins(s.buf, s.buf \o c)
  BY ExtendedType
<1>2. s.buf \in Seq(Byte) /\ Len(s.buf) \in Nat /\ Len(c) \in Nat
  BY DEF DState
<1> HIDE DEF t
<1>3. PICK k \in {0, 1} : k = AltOffset(s) /\ k = AltOffset(t)
  BY ParseBufType DEF t
<1>4. /\ Len(ParseBuf(s)) = Len(s.buf) - k /\ Len(ParseBuf(t)) = Len(s.buf) + Len(c) - k
      /\ k <= Len(s.buf)
  <2>1. Len(ParseBuf(t)) = Len(t.buf) - k
    BY <1>1, <1>3, ParseBufType
  <2>2. Len(ParseBuf(s)) = Len(s.buf) - k /\ k <= Len(s.buf)
    BY <1>3, ParseBufType
  <2> QED
    BY <1>1, <2>1, <2>2
<1>5. \A i \in 1..Len(ParseBuf(s)) : ParseBuf(t)[i] = ParseBuf(s)[i]
  <2> TAKE i \in 1..Len(ParseBuf(s))
  <2>1. i + k \in 1..Len(s.buf) /\ i \in 1..Len(ParseBuf(t))
    BY <1>2, <1>3, <1>4
  <2>2. t.buf[i + k] = s.buf[i + k]
    BY <1>1, <2>1 DEF Begins
  <2> QED
    BY <1>1, <1>3, <2>1, <2>2, ParseBufBytes
<1>6. Len(ParseBuf(s)) <= Len(ParseBuf(t))
  BY <1>2, <1>3, <1>4
<1>7. Begins(ParseBuf(s), ParseBuf(t))
  BY <1>5, <1>6 DEF Begins
<1> QED
  BY <1>1, <1>3, <1>7 DEF Grows, t

\* No byte of c comes too late for what the iteration does without it.
InTime(s, c) == After(s).buf = <<>> /\ c # <<>> => ~Early(Decide(s), c[1])

LEMMA Emptied ==
  ASSUME NEW s \in DState, Decide(s).act = "emit", Decide(s).n = Len(s.buf)
  PROVE  After(s).buf = <<>>
<1>1. After(s) = Consumed(s, Decide(s))
  BY DEF After
<1>2. Len(s.buf) \in 0..Len(s.buf) /\ s.buf \in Seq(Byte) /\ Len(s.buf) \in Nat
  BY DStateFields
<1>3. /\ Drop(s.buf, Len(s.buf)) \in Seq(Byte)
      /\ Len(Drop(s.buf, Len(s.buf))) = Len(s.buf) - Len(s.buf)
  BY <1>2, DropType
<1>4. Drop(s.buf, Len(s.buf)) = <<>>
  BY <1>2, <1>3, EmptySeq
<1>5. Consumed(s, Decide(s)).buf = Drop(s.buf, Decide(s).n)
  BY ResetType DEF Consumed, DState
<1> QED
  BY <1>1, <1>4, <1>5

LEMMA EmitFields ==
  /\ \A n, ev : Emit(n, ev).act = "emit" /\ Emit(n, ev).n = n /\ Emit(n, ev).event = ev
  /\ \A kind, alt, text : /\ Event(kind, alt, text).kind = kind
                          /\ Event(kind, alt, text).text = text
BY DEF Emit, Event

\* Two ESC alone are the Escape key: a byte that would make the first of them
\* a prefix comes too late.
LEMMA TwoEscapes ==
  ASSUME NEW s \in DState, Len(s.buf) = 2, s.buf[1] = ESC, s.buf[2] = ESC,
         Decide(s).act # "wait"
  PROVE  /\ Decide(s) = Emit(2, Event("escape", FALSE, <<ESC>>))
         /\ After(s).buf = <<>>
<1>1. s.buf # <<>> /\ AltOffset(s) = 0
  BY DEF AltOffset
<1>2. Len(ParseBuf(s)) = 2 /\ ParseBuf(s)[2] = s.buf[2]
  <2>1. Len(ParseBuf(s)) = 2 - 0
    BY <1>1, ParseBufType
  <2>2. 2 \in 1..Len(ParseBuf(s))
    BY <2>1
  <2>3. ParseBuf(s)[2] = s.buf[2 + 0]
    BY <1>1, <2>2, ParseBufBytes
  <2> QED
    BY <2>1, <2>3
<1>3. Ladder(s).act = "pass"
  <2>1. ParseBuf(s)[2] \notin {LBR, UND, CapO}
    BY <1>2 DEF ESC, LBR, UND, CapO
  <2>2. Ladder(s).act \in {"pass", "wait"}
    BY <2>1, NoSequence
  <2> QED
    BY <1>1, <2>2, DecideEsc
<1>4. DoubleEscStage(s) = Emit(2, Event("escape", FALSE, <<ESC>>))
  BY <1>1 DEF DoubleEscStage
<1>5. DoubleEscStage(s).act = "emit" /\ DoubleEscStage(s).n = 2
  <2>1. PICK ev : DoubleEscStage(s) = Emit(2, ev)
    BY <1>4
  <2> QED
    BY <2>1, EmitFields
<1>6. Decide(s) = DoubleEscStage(s)
  <2>1. Decide(s) = Otherwise(DoubleEscStage(s), Otherwise(LegacyAltStage(s), Wait))
    BY <1>1, <1>3, DecideEsc, PassOn
  <2> QED
    BY <1>5, <2>1 DEF Otherwise
<1> QED
  BY <1>4, <1>5, <1>6, Emptied

LEMMA AltSame ==
  ASSUME NEW s \in DState, NEW c \in Seq(Byte), s.buf # <<>>, s.buf[1] = ESC,
         Decide(s).act # "wait", InTime(s, c)
  PROVE  AltOffset(Extended(s, c)) = AltOffset(s)
<1> DEFINE t == Extended(s, c)
<1>1. /\ t.buf = s.buf \o c /\ Len(s.buf \o c) = Len(s.buf) + Len(c)
      /\ \A i \in 1..Len(s.buf) : t.buf[i] = s.buf[i]
      /\ \A i \in 1..Len(c) : t.buf[Len(s.buf) + i] = c[i]
  BY ExtendedType DEF Begins
<1>2. PICK n \in Nat, m \in Nat : n = Len(s.buf) /\ m = Len(c) /\ Len(t.buf) = n + m /\ n # 0
  <2>1. Len(s.buf) \in Nat /\ Len(c) \in Nat /\ s.buf \in Seq(Byte)
    BY DStateFields, LenProperties
  <2>2. Len(s.buf) # 0
    BY <2>1, EmptySeq
  <2> QED
    BY <1>1, <2>1, <2>2
<1> HIDE DEF t
<1>3. CASE n >= 3
  <2>1. n + m >= 3
    BY <1>2, <1>3
  <2>2. t.buf[1] = s.buf[1] /\ t.buf[2] = s.buf[2] /\ t.buf[3] = s.buf[3]
    BY <1>1, <1>2, <1>3
  <2>3. Len(s.buf) >= 3 /\ Len(t.buf) >= 3
    BY <1>2, <1>3, <2>1
  <2> QED
    BY <2>2, <2>3 DEF AltOffset, t
<1>4. CASE n < 3
  <2>1. AltOffset(s) = 0
    <3>1. ~(Len(s.buf) >= 3)
      BY <1>2, <1>4
    <3> QED
      BY <3>1 DEF AltOffset
  <2>2. n = 2
    <3>1. Len(ParseBuf(s)) >= 2
      BY WholeUnlessWaiting DEF Whole
    <3>2. Len(ParseBuf(s)) = n - 0
      BY <1>2, <2>1, ParseBufType
    <3>3. n - 0 >= 2
      BY <3>1, <3>2
    <3>4. \A x \in Nat : x < 3 /\ x - 0 >= 2 => x = 2
      OBVIOUS
    <3> QED
      BY <1>2, <1>4, <3>3, <3>4
  <2>3. CASE s.buf[2] # ESC
    <3>1. t.buf[2] # ESC
      BY <1>1, <1>2, <2>2, <2>3
    <3> QED
      BY <2>1, <3>1 DEF AltOffset, t
  <2>4. CASE s.buf[2] = ESC /\ m = 0
    <3>1. ~(Len(t.buf) >= 3)
      BY <1>2, <2>2, <2>4
    <3> QED
      BY <2>1, <3>1 DEF AltOffset, t
  <2>5. CASE s.buf[2] = ESC /\ m # 0
    <3>1. /\ Decide(s) = Emit(2, Event("escape", FALSE, <<ESC>>))
          /\ After(s).buf = <<>>
      BY <1>2, <2>2, <2>5, TwoEscapes
    <3>2. c # <<>> /\ 1 \in 1..Len(c)
      BY <1>2, <2>5, EmptySeq
    <3>3. ~Early(Decide(s), c[1])
      BY <3>1, <3>2 DEF InTime
    <3>4. Decide(s).act = "emit" /\ Decide(s).event.kind = "escape"
      <4>1. PICK ev : Decide(s) = Emit(2, ev) /\ ev = Event("escape", FALSE, <<ESC>>)
        BY <3>1
      <4>2. ev.kind = "escape"
        BY <4>1 DEF Event
      <4>3. PICK o : o = Decide(s) /\ o = Emit(2, ev)
        BY <4>1
      <4>4. o.act = "emit" /\ o.event = ev
        BY <4>3 DEF Emit
      <4> QED
        BY <4>2, <4>3, <4>4
    <3>5. c[1] \notin {LBR, CapO, LT, UND}
      BY <3>3, <3>4 DEF Early
    <3>6. t.buf[3] = c[1]
      <4>1. t.buf[n + 1] = c[1]
        BY <1>1, <1>2, <3>2
      <4> QED
        BY <2>2, <4>1
    <3> QED
      BY <2>1, <3>5, <3>6 DEF AltOffset, t
  <2> QED
    BY <2>3, <2>4, <2>5
<1> QED
  BY <1>2, <1>3, <1>4

\* A character at the front of the buffer; only the space after '=' comes too
\* late.
LEMMA PlainSame ==
  ASSUME NEW b \in Seq(Byte), NEW c \in Seq(Byte), b # <<>>,
         PlainStage(b).act # "idle",
         ~(/\ Len(b) = 1 /\ b[1] = EQ /\ c # <<>> /\ c[1] = SPACE)
  PROVE  PlainStage(b \o c) = PlainStage(b)
<1> DEFINE e == b \o c
<1>1. /\ e \in Seq(Byte) /\ Len(e) = Len(b) + Len(c)
      /\ \A i \in 1..(Len(b) + Len(c)) : e[i] = IF i <= Len(b) THEN b[i] ELSE c[i - Len(b)]
  BY ConcatProperties
<1>2. Len(b) \in Nat /\ Len(c) \in Nat /\ Len(b) # 0
  BY LenProperties, EmptySeq
<1>3. PICK n \in Nat, m \in Nat : n = Len(b) /\ m = Len(c) /\ n # 0 /\ Len(e) = n + m
  BY <1>1, <1>2
<1> HIDE DEF e
<1>4. \A i \in 1..n : e[i] = b[i]
  BY <1>1, <1>3
<1>5. Begins(b, e)
  BY <1>3, <1>4 DEF Begins
<1>6. e[1] = b[1]
  BY <1>3, <1>4
<1>7. CASE b[1] = DEL
  BY <1>6, <1>7 DEF PlainStage, e
<1>8. CASE b[1] # DEL
  <2>1. FullRune(b)
    BY <1>8 DEF PlainStage, Idle
  <2>2. PICK size \in 1..n : size = RuneSize(b)
    BY <1>3, <2>1, RuneInside
  <2>3. FullRune(e) /\ RuneSize(e) = size
    BY <1>1, <1>5, <2>1, <2>2, BeginsRune DEF e
  <2>4. SubSeq(e, 1, size) = SubSeq(b, 1, size)
    <3>1. 1 \in Nat \ {0} /\ size \in Int /\ size <= Len(b)
      BY <1>3, <2>2
    <3> QED
      BY <1>1, <1>5, <3>1, BeginsSub DEF e
  <2>5. (b[1] = EQ /\ Len(e) > size /\ e[size + 1] = SPACE)
          <=> (b[1] = EQ /\ Len(b) > size /\ b[size + 1] = SPACE)
    <3>1. CASE n > size
      <4>1. e[size + 1] = b[size + 1] /\ Len(b) > size /\ Len(e) > size
        BY <1>3, <1>4, <2>2, <3>1
      <4> QED
        BY <4>1
    <3>2. CASE ~(n > size)
      <4> SUFFICES ASSUME b[1] = EQ, Len(e) > size, e[size + 1] = SPACE PROVE FALSE
        BY <1>3, <3>2
      <4>1. RuneNeed(b[1]) = 1
        BY DEF RuneNeed, EQ
      <4>2. size = 1
        BY <2>2, <4>1 DEF RuneSize
      <4>3. n = 1 /\ m # 0
        BY <1>3, <2>2, <3>2, <4>2
      <4>4. e[2] = c[1]
        <5>1. 2 \in 1..(Len(b) + Len(c)) /\ ~(2 <= Len(b)) /\ 2 - Len(b) = 1
          BY <1>3, <4>3
        <5> QED
          BY <1>1, <5>1
      <4>5. c # <<>>
        BY <1>3, <4>3, EmptySeq
      <4> QED
        BY <1>3, <4>2, <4>3, <4>4, <4>5
    <3> QED
      BY <3>1, <3>2
  <2> QED
    BY <1>6, <1>8, <2>1, <2>2, <2>3, <2>4, <2>5 DEF PlainStage, e
<1> QED
  BY <1>7, <1>8

\* The last two stages.
LEMMA LastSame ==
  ASSUME NEW s \in DState, NEW c \in Seq(Byte), Len(s.buf) >= 2,
         AltOffset(Extended(s, c)) = AltOffset(s)
  PROVE  /\ DoubleEscStage(Extended(s, c)) = DoubleEscStage(s)
         /\ LegacyAltStage(s).act # "pass" =>
              LegacyAltStage(Extended(s, c)) = LegacyAltStage(s)
<1> DEFINE t == Extended(s, c)
<1>1. /\ t \in DState /\ t.buf = s.buf \o c /\ Len(s.buf \o c) = Len(s.buf) + Len(c)
      /\ Begins(s.buf, t.buf)
  BY ExtendedType
<1>2. PICK n \in Nat, m \in Nat :
        n = Len(s.buf) /\ m = Len(c) /\ Len(t.buf) = n + m /\ n >= 2
  BY <1>1, DStateFields, LenProperties
<1> HIDE DEF t
<1>3. \A i \in 1..n : t.buf[i] = s.buf[i]
  BY <1>1, <1>2 DEF Begins
<1>4. DoubleEscStage(t) = DoubleEscStage(s)
  <2>1. t.buf[2] = s.buf[2] /\ Len(s.buf) >= 2 /\ Len(t.buf) >= 2
    BY <1>2, <1>3
  <2> QED
    BY <2>1 DEF DoubleEscStage, t
<1>5. ASSUME LegacyAltStage(s).act # "pass"
      PROVE  LegacyAltStage(t) = LegacyAltStage(s)
  <2> DEFINE d == Drop(s.buf, 1)
             e == Drop(t.buf, 1)
  <2>1. d \in Seq(Byte) /\ Len(d) = n - 1 /\ e \in Seq(Byte) /\ Len(e) = n + m - 1
    <3>1. /\ 1 \in 0..Len(s.buf) /\ 1 \in 0..Len(t.buf)
          /\ s.buf \in Seq(Byte) /\ t.buf \in Seq(Byte)
      BY <1>1, <1>2, DStateFields
    <3>2. d \in Seq(Byte) /\ Len(d) = Len(s.buf) - 1
      BY <3>1, DropType
    <3>3. e \in Seq(Byte) /\ Len(e) = Len(t.buf) - 1
      BY <3>1, DropType
    <3> HIDE DEF d, e
    <3> QED
      BY <1>2, <3>2, <3>3
  <2>2. \A i \in 1..(n - 1) : d[i] = s.buf[i + 1] /\ e[i] = t.buf[i + 1]
    <3>1. /\ \A i \in 2..n : s.buf[i] \in Byte
          /\ \A i \in 2..(n + m) : t.buf[i] \in Byte
      BY <1>1, <1>2, DStateFields
    <3>2. /\ \A i \in 1..(n - 2 + 1) : SubSeq(s.buf, 2, n)[i] = s.buf[2 + i - 1]
          /\ \A i \in 1..(n + m - 2 + 1) : SubSeq(t.buf, 2, n + m)[i] = t.buf[2 + i - 1]
      BY <3>1, SubSeqProperties
    <3>3. d = SubSeq(s.buf, 2, n) /\ e = SubSeq(t.buf, 2, n + m)
      BY <1>2 DEF Drop
    <3>4. \A i \in 1..(n - 1) : /\ i \in 1..(n - 2 + 1) /\ i \in 1..(n + m - 2 + 1)
                                /\ 2 + i - 1 = i + 1
      OBVIOUS
    <3> HIDE DEF d, e
    <3> QED
      BY <3>2, <3>3, <3>4
  <2> HIDE DEF d, e
  <2>3. Begins(d, e)
    <3>1. \A i \in 1..(n - 1) : e[i] = d[i]
      <4> TAKE i \in 1..(n - 1)
      <4>1. i + 1 \in 1..n
        OBVIOUS
      <4> QED
        BY <1>3, <2>2, <4>1
    <3>2. Len(d) <= Len(e)
      BY <2>1
    <3> QED
      BY <2>1, <3>1, <3>2 DEF Begins
  <2>4. FullRune(d)
    BY <1>5 DEF LegacyAltStage, Pass, d
  <2>5. PICK size \in 1..Len(d) : size = RuneSize(d)
    BY <2>1, <2>4, RuneInside
  <2>6. FullRune(e) /\ RuneSize(e) = size
    BY <2>1, <2>3, <2>4, <2>5, BeginsRune
  <2>7. SubSeq(e, 1, size) = SubSeq(d, 1, size)
    <3>1. 1 \in Nat \ {0} /\ size \in Int /\ size <= Len(d)
      BY <2>1, <2>5
    <3> QED
      BY <2>1, <2>3, <3>1, BeginsSub
  <2> QED
    BY <2>4, <2>5, <2>6, <2>7 DEF LegacyAltStage, d, e
<1> QED
  BY <1>4, <1>5 DEF t

-----------------------------------------------------------------------------
(***************************************************************************)
(* An iteration that finds something to do does the same when more bytes   *)
(* have come, unless one of them comes too late.                           *)
(***************************************************************************)

\* A character at the front of the buffer.
LEMMA PlainDecides ==
  ASSUME NEW s \in DState, NEW c \in Seq(Byte), s.buf # <<>>, s.buf[1] # ESC,
         ~AtRest(s), InTime(s, c)
  PROVE  Decide(Extended(s, c)) = Decide(s)
<1> DEFINE b == s.buf
           t == Extended(s, c)
<1>1. b \in Seq(Byte) /\ b # <<>> /\ Len(b) \in Nat /\ Len(c) \in Nat /\ Len(b) # 0
  BY DStateFields, LenProperties, EmptySeq
<1>2. Decide(s) = PlainStage(b)
  BY DEF Decide
<1>3. PlainStage(b).act # "idle"
  BY <1>2 DEF AtRest
<1>4. Decide(t) = PlainStage(b \o c)
  <2>1. t.buf = b \o c /\ Len(b \o c) = Len(b) + Len(c) /\ (b \o c)[1] = b[1]
    BY <1>1, ExtendedType DEF Begins
  <2>2. t.buf # <<>>
    BY <1>1, <2>1, EmptySeq
  <2> HIDE DEF t
  <2> QED
    BY <2>1, <2>2 DEF Decide
<1>5. ASSUME Len(b) = 1, b[1] = EQ, c # <<>>, c[1] = SPACE PROVE FALSE
  <2>1. FullRune(b)
    <3>1. b[1] # DEL
      BY <1>5 DEF EQ, DEL
    <3>2. ~FullRune(b) => PlainStage(b) = Idle
      BY <3>1, Zenon DEF PlainStage
    <3> QED
      BY <1>3, <3>2 DEF Idle
  <2>2. RuneNeed(b[1]) = 1
    BY <1>5 DEF RuneNeed, EQ
  <2>3. RuneSize(b) = 1
    BY <2>2 DEF RuneSize
  <2>4. SubSeq(b, 1, 1) = <<EQ>>
    <3>1. EQ \in Byte
      BY DEF EQ, Byte
    <3>2. <<EQ>> \in Seq(Byte) /\ Len(<<EQ>>) = 1 /\ <<EQ>>[1] = EQ
      BY <3>1
    <3>3. \A i \in 1..Len(b) : b[i] = <<EQ>>[i]
      BY <1>5, <3>2
    <3>4. b = <<EQ>>
      BY <1>1, <1>5, <3>2, <3>3, SeqEqual
    <3>5. SubSeq(b, 1, Len(b)) = b
      BY <1>1, SubSeqFull
    <3> QED
      BY <1>5, <3>4, <3>5
  <2>5. b[1] # DEL /\ ~(Len(b) > RuneSize(b)) /\ 1 + 0 = 1
    BY <1>5, <2>3 DEF EQ, DEL
  <2>6. PlainStage(b) = Emit(1, Event("char", FALSE, <<EQ>>))
    BY <2>1, <2>3, <2>4, <2>5 DEF PlainStage
  <2>7. PICK ev : ev = Event("char", FALSE, <<EQ>>)
    OBVIOUS
  <2>8. Decide(s) = Emit(1, ev)
    BY <1>2, <2>6, <2>7
  <2>9. Decide(s).act = "emit" /\ Decide(s).n = 1 /\ Decide(s).event = ev
    BY <2>8, EmitFields
  <2>10. ev.kind = "char" /\ ev.text = <<EQ>>
    BY <2>7 DEF Event
  <2>11. After(s).buf = <<>>
    BY <1>5, <2>9, Emptied
  <2>12. Early(Decide(s), c[1])
    BY <1>5, <2>9, <2>10 DEF Early
  <2> QED
    BY <1>5, <2>11, <2>12 DEF InTime
<1> QED
  BY <1>1, <1>2, <1>3, <1>4, <1>5, PlainSame

\* The focus report, unless it turns out to be a function key.
LEMMA FocusInTime ==
  ASSUME NEW s \in DState, NEW c \in Seq(Byte), s.buf # <<>>, s.buf[1] = ESC,
         InTime(s, c), Grows(s, Extended(s, c)), UnwrapStage(s).act = "pass"
  PROVE  ~(/\ Len(ParseBuf(s)) = 3 /\ Len(ParseBuf(Extended(s, c))) > 3
           /\ FocusStage(ParseBuf(s)).act = "emit" /\ ParseBuf(s)[3] = CapO
           /\ ParseBuf(Extended(s, c))[4] \in BrokenSS3)
<1> DEFINE d == ParseBuf(s)
           t == Extended(s, c)
           e == ParseBuf(t)
           off == AltOffset(s)
<1> SUFFICES ASSUME Len(d) = 3, Len(e) > 3, FocusStage(d).act = "emit", d[3] = CapO,
                    e[4] \in BrokenSS3
             PROVE  FALSE
  OBVIOUS
<1>1. /\ t \in DState /\ AltOffset(t) = off /\ off \in {0, 1}
      /\ t.buf = s.buf \o c
  BY ExtendedType, ParseBufType DEF Grows
<1>2. PICK n \in Nat, m \in Nat : n = Len(s.buf) /\ m = Len(c) /\ Len(t.buf) = n + m
  BY <1>1, ExtendedType, DStateFields, LenProperties
<1>3. n = 3 + off /\ n + m = Len(e) + off /\ m # 0
  <2>1. Len(d) = n - off /\ Len(e) = n + m - off
    <3>1. Len(d) = Len(s.buf) - off
      BY ParseBufType
    <3>2. Len(e) = Len(t.buf) - AltOffset(t)
      BY <1>1, ParseBufType
    <3>3. n = Len(s.buf) /\ Len(t.buf) = n + m /\ AltOffset(t) = off
      BY <1>1, <1>2
    <3> HIDE DEF d, e, t, off
    <3>4. Len(d) = n - off
      BY <3>1, <3>3
    <3>5. Len(e) = n + m - off
      <4>1. PICK x \in Nat, y \in {0, 1} :
              x = Len(t.buf) /\ y = AltOffset(t) /\ x = n + m /\ y = off
        BY <1>1, <3>3
      <4>2. Len(e) = x - y
        BY <3>2, <4>1
      <4> QED
        BY <4>1, <4>2
    <3> QED
      BY <3>4, <3>5
  <2> HIDE DEF d, e, off
  <2>2. \A x \in Nat, y \in Nat, z \in {0, 1} : 3 = x - z /\ x + y - z > 3
          => x = 3 + z /\ x + y = (x + y - z) + z /\ y # 0
    OBVIOUS
  <2> QED
    BY <1>1, <2>1, <2>2
<1>4. e[4] = c[1]
  <2>1. e[4] = t.buf[4 + off]
    <3>1. 4 \in 1..Len(e)
      <4>1. Len(e) \in Nat
        BY <1>1, <1>3, <1>2, ParseBufType
      <4> QED
        BY <4>1
    <3> QED
      BY <1>1, <3>1, ParseBufBytes
  <2>2. t.buf[n + 1] = c[1]
    <3>1. 1 \in 1..Len(c)
      BY <1>2, <1>3
    <3> QED
      BY <1>1, <1>2, <3>1, ExtendedType
  <2>3. n + 1 = 4 + off
    BY <1>1, <1>3
  <2> QED
    BY <2>1, <2>2, <2>3
<1>5. PICK ev : ev = Event("focus", FALSE, SubSeq(d, 1, 3))
  OBVIOUS
<1>6. FocusStage(d) = Emit(3, ev)
  <2>1. FocusStage(d) # Pass
    BY DEF Pass
  <2> QED
    BY <1>5, <2>1 DEF FocusStage
<1>7. Ladder(s) = Emit(3, ev)
  <2>1. Ladder(s) = Otherwise(FocusStage(d), 
         Otherwise(DSRStage(d),
      Otherwise(APCStage(d),
      Otherwise(PasteStage(d),
      Otherwise(SGRStage(d, off = 1),
      Otherwise(X10Stage(d, off = 1),
      Otherwise(URXVTStage(d, off = 1),
      Otherwise(SS3Stage(d, off = 1),
      Otherwise(DAStage(d),
                CSIStage(d, off = 1, s.far2l))))))))))
    BY Zenon DEF Ladder, Otherwise
  <2>2. FocusStage(d).act # "pass"
    OBVIOUS
  <2> HIDE DEF d, off
  <2> QED
    BY <1>6, <2>1, <2>2 DEF Otherwise
<1>8. Decide(s) = [Emit(3, ev) EXCEPT !.n = @ + off]
  <2>1. Ladder(s).act = "emit"
    BY <1>7, EmitFields
  <2>2. WithPrefix(Ladder(s), off) = [Ladder(s) EXCEPT !.n = @ + off]
    BY <2>1, Zenon DEF WithPrefix
  <2>3. [Ladder(s) EXCEPT !.n = @ + off].act = "emit"
    BY <1>7 DEF Emit
  <2> QED
    BY <1>7, <2>2, <2>3, DecideEsc DEF Otherwise
<1> HIDE DEF off, d, e, t
<1>9. /\ Decide(s).act = "emit" /\ Decide(s).n = n /\ Decide(s).event = ev
  BY <1>1, <1>3, <1>8 DEF Emit
<1>10. ev.kind = "focus" /\ ev.text = SubSeq(d, 1, 3)
  BY <1>5 DEF Event
<1>11. SubSeq(d, 1, 3)[3] = d[3]
  <2>1. d \in Seq(Byte)
    BY ParseBufType DEF d
  <2>2. \A i \in 1..3 : d[i] \in Byte
    <3> TAKE i \in 1..3
    <3>1. i \in 1..Len(d)
      OBVIOUS
    <3> QED
      BY <2>1, <3>1, ElementOfSeq
  <2> QED
    BY <2>2, SubSeqProperties
<1>12. Early(Decide(s), c[1])
  BY <1>4, <1>9, <1>10, <1>11 DEF Early
<1>13. After(s).buf = <<>>
  BY <1>2, <1>9, Emptied
<1>14. c # <<>>
  BY <1>2, <1>3, EmptySeq
<1> QED
  BY <1>12, <1>13, <1>14 DEF InTime

\* An escape sequence.
LEMMA EscDecides ==
  ASSUME NEW s \in DState, NEW c \in Seq(Byte), s.buf # <<>>, s.buf[1] = ESC,
         Decide(s).act # "wait", InTime(s, c)
  PROVE  /\ Decide(Extended(s, c)) = Decide(s)
         /\ Runaway(Extended(s, c)) <=> Runaway(s)
<1> DEFINE t == Extended(s, c)
           off == AltOffset(s)
<1>1. /\ t \in DState /\ t.buf = s.buf \o c /\ Len(s.buf \o c) = Len(s.buf) + Len(c)
      /\ Len(s.buf) \in Nat /\ Len(c) \in Nat /\ Len(s.buf) # 0
      /\ t.buf[1] = s.buf[1] /\ t.buf # <<>>
  <2>1. Len(s.buf) \in Nat /\ Len(c) \in Nat /\ Len(s.buf) # 0
    BY DStateFields, LenProperties, EmptySeq
  <2>2. /\ t \in DState /\ t.buf = s.buf \o c /\ Len(s.buf \o c) = Len(s.buf) + Len(c)
        /\ Begins(s.buf, s.buf \o c)
    BY ExtendedType
  <2>3. 1 \in 1..Len(s.buf)
    BY <2>1
  <2>4. t.buf[1] = s.buf[1]
    BY <2>2, <2>3 DEF Begins
  <2>5. Len(t.buf) # 0
    BY <2>1, <2>2
  <2> QED
    BY <2>1, <2>2, <2>4, <2>5, EmptySeq
<1>2. AltOffset(t) = off
  BY AltSame
<1>3. Grows(s, t)
  BY <1>2, ExtendedGrows
<1>4. Whole(ParseBuf(s))
  BY WholeUnlessWaiting
<1>5. Ladder(s).act # "wait"
  BY DecideEsc
<1>6. Ladder(t) = Ladder(s)
  BY <1>3, <1>4, <1>5, FocusInTime, LadderSame
<1>7. Len(s.buf) >= 2
  <2>1. Len(ParseBuf(s)) = Len(s.buf) - off /\ off \in {0, 1} /\ Len(ParseBuf(s)) >= 2
    BY <1>4, ParseBufType DEF Whole
  <2> QED
    BY <1>1, <2>1
<1>8. /\ DoubleEscStage(t) = DoubleEscStage(s)
      /\ LegacyAltStage(s).act # "pass" => LegacyAltStage(t) = LegacyAltStage(s)
  BY <1>2, <1>7, LastSame
<1>9. Decide(t) = Decide(s)
  <2>1. Decide(s) = Otherwise(WithPrefix(Ladder(s), off),
                    Otherwise(DoubleEscStage(s), Otherwise(LegacyAltStage(s), Wait)))
    BY DecideEsc
  <2>2. Decide(t) = Otherwise(WithPrefix(Ladder(s), off),
                    Otherwise(DoubleEscStage(s), Otherwise(LegacyAltStage(t), Wait)))
    BY <1>1, <1>2, <1>6, <1>8, DecideEsc
  <2>3. PICK f, g, h, h2 : /\ f = WithPrefix(Ladder(s), off) /\ g = DoubleEscStage(s)
                           /\ h = LegacyAltStage(s) /\ h2 = LegacyAltStage(t)
    OBVIOUS
  <2> HIDE DEF t, off
  <2>4. CASE h.act # "pass"
    BY <1>8, <2>1, <2>2, <2>3, <2>4
  <2>5. CASE h.act = "pass" /\ (f.act # "pass" \/ g.act # "pass")
    BY <2>1, <2>2, <2>3, <2>5 DEF Otherwise
  <2>6. CASE h.act = "pass" /\ f.act = "pass" /\ g.act = "pass"
    <3>1. Decide(s) = Wait
      BY <2>1, <2>3, <2>6 DEF Otherwise
    <3> QED
      BY <3>1 DEF Wait
  <2> QED
    BY <2>4, <2>5, <2>6
<1>10. Runaway(t) <=> Runaway(s)
  <2>1. /\ Unwrapping(t) <=> Unwrapping(s)
        /\ RecordEnd(ParseBuf(t)) = RecordEnd(ParseBuf(s))
    BY <1>3, <1>4, UnwrapSame
  <2>2. /\ Len(ParseBuf(s)) <= Len(ParseBuf(t))
        /\ Len(ParseBuf(s)) \in Nat /\ Len(ParseBuf(t)) \in Nat
    BY <1>1, <1>3, ParseBufType, LenProperties DEF Grows, Begins
  <2>3. ASSUME Unwrapping(s), RecordEnd(ParseBuf(s)) = 0
        PROVE  Len(ParseBuf(s)) >= RunawayLen
    <3>1. UnwrapStage(s).act # "wait"
      <4>1. PICK g : Ladder(s) = Otherwise(UnwrapStage(s), g)
        BY Zenon DEF Ladder
      <4>2. UnwrapStage(s).act = "wait" => Otherwise(UnwrapStage(s), g).act = "wait"
        BY PassOn
      <4> QED
        BY <1>5, <4>1, <4>2
    <3>2. CASE ~(Len(ParseBuf(s)) < RunawayLen)
      BY <2>2, <3>2 DEF RunawayLen
    <3>3. CASE Len(ParseBuf(s)) < RunawayLen
      <4>1. ~(RecordEnd(ParseBuf(s)) > 0)
        BY <2>3
      <4>2. UnwrapStage(s) = Wait
        BY <2>3, <3>3, <4>1 DEF UnwrapStage
      <4> QED
        BY <3>1, <4>2 DEF Wait
    <3> QED
      BY <3>2, <3>3
  <2>4. Len(ParseBuf(s)) >= RunawayLen => Len(ParseBuf(t)) >= RunawayLen
    BY <2>2 DEF RunawayLen
  <2> HIDE DEF t
  <2> QED
    BY <1>1, <2>1, <2>3, <2>4 DEF Runaway
<1> QED
  BY <1>9, <1>10 DEF t

\* What ReadEventTimeout finds to do at the front of r.buf does not change when
\* any bytes come behind it, but for those that come too late; neither does
\* whether it gives up a runaway unwrapping.
THEOREM DecideSame ==
  ASSUME NEW s \in DState, NEW c \in Seq(Byte), ~AtRest(s), InTime(s, c)
  PROVE  /\ Decide(Extended(s, c)) = Decide(s)
         /\ Runaway(Extended(s, c)) <=> Runaway(s)
<1>1. Decide(s).act \notin {"wait", "idle"}
  BY DEF AtRest
<1>2. s.buf # <<>>
  BY <1>1 DEF Decide, Idle
<1>3. CASE s.buf[1] = ESC
  BY <1>1, <1>2, <1>3, EscDecides
<1>4. CASE s.buf[1] # ESC
  <2>1. Extended(s, c).buf[1] = s.buf[1]
    <3>1. 1 \in 1..Len(s.buf)
      BY <1>2, DStateFields, EmptySeq
    <3> QED
      BY <3>1, ExtendedType DEF Begins
  <2>2. ~Runaway(s) /\ ~Runaway(Extended(s, c))
    BY <1>4, <2>1 DEF Runaway
  <2> QED
    BY <1>2, <1>4, <2>2, PlainDecides
<1> QED
  BY <1>3, <1>4

\* A decoding state is its fields.
LEMMA DStateEqual ==
  ASSUME NEW s \in DState, NEW t \in DState,
         s.buf = t.buf, s.dbl = t.dbl, s.wrap = t.wrap, s.far2l = t.far2l
  PROVE  s = t
BY DEF DState

\* What is consumed comes before what is added.
LEMMA DropConcat ==
  ASSUME NEW b \in Seq(Byte), NEW c \in Seq(Byte), NEW n \in 0..Len(b)
  PROVE  Drop(b \o c, n) = Drop(b, n) \o c
<1>1. PICK k \in Nat, m \in Nat : k = Len(b) /\ m = Len(c) /\ n \in 0..k /\ n \in Nat
  BY LenProperties
<1>2. /\ b \o c \in Seq(Byte) /\ Len(b \o c) = k + m
      /\ \A i \in 1..(k + m) : (b \o c)[i] = IF i <= k THEN b[i] ELSE c[i - k]
  BY <1>1, ConcatProperties
<1>3. /\ \A i \in (n + 1)..k : b[i] \in Byte
      /\ \A i \in (n + 1)..(k + m) : (b \o c)[i] \in Byte
  <2>1. /\ \A i \in 1..Len(b) : b[i] \in Byte
        /\ \A i \in 1..Len(b \o c) : (b \o c)[i] \in Byte
    BY <1>2, ElementOfSeq
  <2> QED
    BY <1>1, <1>2, <2>1
<1>4. /\ Drop(b, n) \in Seq(Byte) /\ Len(Drop(b, n)) = k - n
      /\ \A i \in 1..(k - (n + 1) + 1) : Drop(b, n)[i] = b[n + 1 + i - 1]
  <2>1. Drop(b, n) = SubSeq(b, n + 1, k)
    BY <1>1 DEF Drop
  <2>2. n + 1 \in Int /\ k \in Int
    BY <1>1
  <2>3. (IF n + 1 <= k THEN k - (n + 1) + 1 ELSE 0) = k - n
    BY <1>1
  <2> QED
    BY <1>3, <2>1, <2>2, <2>3, SubSeqProperties
<1>5. PICK q : q = k + m
  OBVIOUS
<1>6. PICK e : e = b \o c
  OBVIOUS
<1>7. /\ Drop(e, n) \in Seq(Byte) /\ Len(Drop(e, n)) = q - n
      /\ \A i \in 1..(q - (n + 1) + 1) : Drop(e, n)[i] = e[n + 1 + i - 1]
  <2>1. k + m \in Nat /\ n <= k + m
    BY <1>1
  <2>2. q \in Nat /\ e \in Seq(Byte) /\ q = k + m /\ e = b \o c /\ n <= q
    BY <1>2, <1>5, <1>6, <2>1
  <2>3. Drop(e, n) = SubSeq(e, n + 1, q)
    BY <1>2, <2>2 DEF Drop
  <2>4. n + 1 \in Int /\ q \in Int /\ \A i \in (n + 1)..q : e[i] \in Byte
    BY <1>1, <1>3, <2>2
  <2>5. (IF n + 1 <= q THEN q - (n + 1) + 1 ELSE 0) = q - n
    BY <1>1, <2>2
  <2> QED
    BY <2>3, <2>4, <2>5, SubSeqProperties
<1> DEFINE x == Drop(b, n)
           y == Drop(e, n)
<1>8. /\ x \o c \in Seq(Byte) /\ Len(x \o c) = k - n + m
      /\ \A i \in 1..(k - n + m) : (x \o c)[i] = IF i <= k - n THEN x[i] ELSE c[i - (k - n)]
  <2>1. x \in Seq(Byte) /\ Len(x) = k - n /\ Len(c) = m
    BY <1>1, <1>4
  <2> HIDE DEF x
  <2>2. PICK p \in Nat : p = k - n
    <3>1. k - n \in Nat
      BY <1>1
    <3> QED
      BY <3>1
  <2>3. /\ x \o c \in Seq(Byte) /\ Len(x \o c) = Len(x) + Len(c)
        /\ \A i \in 1..(Len(x) + Len(c)) :
             (x \o c)[i] = IF i <= Len(x) THEN x[i] ELSE c[i - Len(x)]
    BY <2>1, ConcatProperties
  <2>4. Len(x) = p /\ Len(c) = m
    BY <2>1, <2>2
  <2>5. /\ x \o c \in Seq(Byte) /\ Len(x \o c) = p + m
        /\ \A i \in 1..(p + m) : (x \o c)[i] = IF i <= p THEN x[i] ELSE c[i - p]
    BY <2>3, <2>4
  <2> QED
    BY <2>2, <2>5
<1> HIDE DEF x, y
<1>9. \A i \in 1..(k + m - n) : y[i] = (x \o c)[i]
  <2> TAKE i \in 1..(k + m - n)
  <2>1. i \in 1..(k - n + m) /\ n + 1 + i - 1 = n + i /\ n + i \in 1..(k + m)
    BY <1>1
  <2>2. y[i] = IF n + i <= k THEN b[n + i] ELSE c[n + i - k]
    <3>1. y[i] = (b \o c)[n + i]
      <4>1. i \in 1..(q - (n + 1) + 1)
        BY <1>1, <1>5
      <4> QED
        BY <1>6, <1>7, <2>1, <4>1 DEF y
    <3> QED
      BY <1>2, <2>1, <3>1
  <2>3. CASE i <= k - n
    <3>1. x[i] = b[n + i]
      <4>1. i \in 1..(k - (n + 1) + 1)
        BY <1>1, <2>3
      <4> QED
        BY <1>4, <2>1, <4>1 DEF x
    <3>2. n + i <= k
      BY <1>1, <2>3
    <3> QED
      BY <1>8, <2>1, <2>2, <2>3, <3>1, <3>2
  <2>4. CASE ~(i <= k - n)
    <3>1. ~(n + i <= k) /\ n + i - k = i - (k - n)
      BY <1>1, <2>4
    <3> QED
      BY <1>8, <2>1, <2>2, <2>4, <3>1
  <2> QED
    BY <2>3, <2>4
<1>10. Len(y) = Len(x \o c) /\ Len(y) = k + m - n /\ y \in Seq(Byte)
  BY <1>1, <1>5, <1>7, <1>8 DEF y
<1>11. y = x \o c
  BY <1>8, <1>9, <1>10, SeqEqual
<1> QED
  BY <1>6, <1>11 DEF x, y

(***************************************************************************)
(* More bytes behind those that an iteration works on are still there      *)
(* after it, and change nothing else.                                      *)
(***************************************************************************)
LEMMA AfterSame ==
  ASSUME NEW s \in DState, NEW c \in Seq(Byte), ~AtRest(s), InTime(s, c)
  PROVE  /\ After(Extended(s, c)) = Extended(After(s), c)
         /\ Returned(Extended(s, c)) = Returned(s)
         /\ ~AtRest(Extended(s, c))
<1> DEFINE t == Extended(s, c)
<1>1. Decide(t) = Decide(s) /\ (Runaway(t) <=> Runaway(s))
  BY DecideSame
<1>2. /\ t \in DState /\ t.buf = s.buf \o c /\ t.dbl = s.dbl
      /\ t.wrap = s.wrap /\ t.far2l = s.far2l
  BY ExtendedType
<1>3. Returned(t) = Returned(s) /\ ~AtRest(t)
  BY <1>1 DEF Returned, AtRest
<1>4. After(s) \in DState /\ After(t) \in DState
  BY <1>2, <1>3, AfterShrinks
<1>5. /\ Extended(After(s), c) \in DState
      /\ Extended(After(s), c).buf = After(s).buf \o c
      /\ Extended(After(s), c).dbl = After(s).dbl
      /\ Extended(After(s), c).wrap = After(s).wrap
      /\ Extended(After(s), c).far2l = After(s).far2l
  BY <1>4, ExtendedType
<1>6. PICK o : o = Decide(s)
  OBVIOUS
<1>7. Sound(o, Len(s.buf)) /\ o.act \notin {"pass", "wait", "idle"}
  BY <1>6, DecideSound DEF AtRest
<1>8. s.buf \in Seq(Byte) /\ Len(s.buf) \in Nat /\ s.dbl \in Seq(Byte)
  BY DStateFields
<1>9. o.n \in 0..Len(s.buf) /\ Drop(t.buf, o.n) = Drop(s.buf, o.n) \o c
  <2>1. o.n \in 0..Len(s.buf)
    BY <1>7, <1>8 DEF Sound
  <2> QED
    BY <1>2, <1>8, <2>1, DropConcat
<1>10. Drop(s.buf, o.n) \in Seq(Byte) /\ Drop(t.buf, o.n) \in Seq(Byte)
  <2>1. Drop(s.buf, o.n) \in Seq(Byte)
    BY <1>8, <1>9, DropType
  <2> QED
    BY <1>9, <2>1, ConcatProperties
<1> HIDE DEF t
<1>11. ASSUME o.act = "peel" PROVE After(t) = Extended(After(s), c)
  <2> DEFINE dbl == s.dbl \o o.byte
  <2>1. After(s) = Peeled(s, o) /\ After(t) = Peeled(t, o)
    BY <1>1, <1>6, <1>11 DEF After
  <2>2. dbl \in Seq(Byte)
    <3>1. o.byte \in Seq(Byte)
      BY <1>7, <1>11 DEF Sound
    <3> QED
      BY <1>8, <3>1, ConcatProperties
  <2>3. PICK x, y : x = Drop(s.buf, o.n) /\ y = Drop(t.buf, o.n)
    OBVIOUS
  <2>4. (dbl \o x) \o c = dbl \o y
    <3>1. x \in Seq(Byte) /\ y = x \o c
      BY <1>9, <1>10, <2>3
    <3> HIDE DEF dbl
    <3> QED
      BY <2>2, <3>1, ConcatAssociative
  <2> HIDE DEF dbl
  <2>5. CASE isWinDoubleComplete(dbl)
    <3>1. /\ After(s) = [s EXCEPT !.buf = dbl \o x, !.dbl = <<>>, !.wrap = FALSE]
          /\ After(t) = [t EXCEPT !.buf = dbl \o y, !.dbl = <<>>, !.wrap = FALSE]
      BY <1>2, <2>1, <2>3, <2>5 DEF Peeled, dbl
    <3>2. /\ After(s).buf = dbl \o x /\ After(s).dbl = <<>> /\ After(s).wrap = FALSE
          /\ After(s).far2l = s.far2l
          /\ After(t).buf = dbl \o y /\ After(t).dbl = <<>> /\ After(t).wrap = FALSE
          /\ After(t).far2l = t.far2l
      BY <1>2, <3>1 DEF DState
    <3> QED
      BY <1>2, <1>4, <1>5, <2>4, <3>2, DStateEqual
  <2>6. CASE ~isWinDoubleComplete(dbl)
    <3>1. /\ After(s) = [s EXCEPT !.buf = x, !.dbl = dbl, !.wrap = TRUE]
          /\ After(t) = [t EXCEPT !.buf = y, !.dbl = dbl, !.wrap = TRUE]
      BY <1>2, <2>1, <2>3, <2>6 DEF Peeled, dbl
    <3>2. /\ After(s).buf = x /\ After(s).dbl = dbl /\ After(s).wrap = TRUE
          /\ After(s).far2l = s.far2l
          /\ After(t).buf = y /\ After(t).dbl = dbl /\ After(t).wrap = TRUE
          /\ After(t).far2l = t.far2l
      BY <1>2, <3>1 DEF DState
    <3> QED
      BY <1>2, <1>4, <1>5, <1>9, <2>3, <3>2, DStateEqual
  <2> QED
    BY <2>5, <2>6
<1>12. ASSUME o.act \in {"emit", "skip"} PROVE After(t) = Extended(After(s), c)
  <2> DEFINE f == s.far2l \/ (o.act = "emit" /\ o.event.kind = "far2l_ok")
  <2>1. After(s) = Consumed(s, o) /\ After(t) = Consumed(t, o)
    BY <1>1, <1>6, <1>12 DEF After
  <2>2. /\ After(s) = [Reset(s) EXCEPT !.buf = Drop(s.buf, o.n), !.far2l = f]
        /\ After(t) = [Reset(t) EXCEPT !.buf = Drop(t.buf, o.n), !.far2l = f]
    BY <1>2, <2>1 DEF Consumed
  <2> HIDE DEF f
  <2>3. Reset(s) \in DState /\ Reset(t) \in DState
    BY <1>2, ResetType
  <2>4. /\ After(s).buf = Drop(s.buf, o.n) /\ After(s).far2l = f
        /\ After(s).dbl = Reset(s).dbl /\ After(s).wrap = Reset(s).wrap
        /\ After(t).buf = Drop(t.buf, o.n) /\ After(t).far2l = f
        /\ After(t).dbl = Reset(t).dbl /\ After(t).wrap = Reset(t).wrap
    BY <2>2, <2>3 DEF DState
  <2>5. Reset(t).dbl = Reset(s).dbl /\ Reset(t).wrap = Reset(s).wrap
    <3>1. CASE Runaway(s)
      BY <1>1, <1>2, <3>1 DEF Reset, DState, t
    <3>2. CASE ~Runaway(s)
      BY <1>1, <1>2, <3>2 DEF Reset, t
    <3> QED
      BY <3>1, <3>2
  <2> QED
    <3>1. After(t).buf = Extended(After(s), c).buf
      BY <1>5, <1>9, <2>4
    <3>2. /\ After(t).dbl = Extended(After(s), c).dbl
          /\ After(t).wrap = Extended(After(s), c).wrap
          /\ After(t).far2l = Extended(After(s), c).far2l
      BY <1>5, <2>4, <2>5
    <3> QED
      BY <1>4, <1>5, <3>1, <3>2, DStateEqual
<1>13. After(t) = Extended(After(s), c)
  BY <1>7, <1>11, <1>12 DEF Sound
<1> QED
  BY <1>3, <1>13 DEF t

-----------------------------------------------------------------------------
(***************************************************************************)
(* The loop, iteration after iteration.                                    *)
(***************************************************************************)

\* Induction over the numbers up to n, as a fact about a set.
LEMMA EveryNumber ==
  ASSUME NEW n \in Nat, NEW S,
         0 \in S,
         \A k \in 0..(n - 1) : k \in S => k + 1 \in S
  PROVE  0..n \subseteq S
<1> DEFINE missing == (0..n) \ S
<1> SUFFICES ASSUME missing # {} PROVE FALSE
  OBVIOUS
<1>1. missing \in SUBSET Nat
  OBVIOUS
<1>2. First(missing) \in missing /\ \A j \in missing : First(missing) <= j
  BY <1>1, FirstIsLeast
<1>3. PICK m \in Nat : m = First(missing) /\ m \in 0..n /\ m \notin S
  BY <1>2
<1>4. m # 0
  BY <1>3
<1>5. m - 1 \in 0..(n - 1) /\ m - 1 \in 0..n /\ m - 1 + 1 = m /\ ~(m <= m - 1)
  BY <1>3, <1>4
<1>6. m - 1 \in S
  BY <1>2, <1>3, <1>5
<1> QED
  BY <1>3, <1>5, <1>6

\* Run(t) is what its recursive definition says.
LEMMA RunDef ==
  ASSUME NEW t, Weight(t) \in Nat
  PROVE  /\ Run(t)[0] = [r |-> t, evs |-> <<>>]
         /\ \A n \in 1..Weight(t) : Run(t)[n] = Onward(Run(t)[n - 1])
<1> DEFINE w == Weight(t)
           step(f, n) == IF n = 0 THEN [r |-> t, evs |-> <<>>] ELSE Onward(f[n - 1])
           S == {n \in 0..w : \E f : f = [i \in 0..n |-> step(f, i)]}
<1>1. 0 \in S
  <2> DEFINE f == [i \in 0..0 |-> [r |-> t, evs |-> <<>>]]
  <2>1. f = [i \in 0..0 |-> step(f, i)]
    OBVIOUS
  <2>2. \E g : g = [i \in 0..0 |-> step(g, i)]
    BY <2>1
  <2> QED
    BY <2>2
<1>2. ASSUME NEW k \in 0..(w - 1), k \in S
      PROVE  k + 1 \in S
  <2>1. PICK f : f = [i \in 0..k |-> step(f, i)]
    BY <1>2
  <2> DEFINE g == [i \in 0..(k + 1) |-> IF i = k + 1 THEN Onward(f[k]) ELSE f[i]]
  <2>2. \A i \in 0..(k + 1) : g[i] = step(g, i)
    <3> TAKE i \in 0..(k + 1)
    <3>1. CASE i = k + 1
      <4>1. g[i - 1] = f[k] /\ g[i] = Onward(f[k])
        BY <3>1
      <4> QED
        BY <3>1, <4>1
    <3>2. CASE i # k + 1
      <4>1. i \in 0..k
        BY <3>2
      <4>2. g[i] = f[i] /\ (i # 0 => g[i - 1] = f[i - 1])
        BY <4>1
      <4>3. f[i] = step(f, i)
        BY <2>1, <4>1
      <4> QED
        BY <4>2, <4>3
    <3> QED
      BY <3>1, <3>2
  <2>3. g = [i \in 0..(k + 1) |-> step(g, i)]
    BY <2>2
  <2> HIDE DEF g
  <2>4. \E h : h = [i \in 0..(k + 1) |-> step(h, i)]
    BY <2>3
  <2>5. k + 1 \in 0..w
    BY <1>2
  <2> QED
    BY <2>4, <2>5
<1>3. w \in S
  <2> HIDE DEF S
  <2>1. 0..w \subseteq S
    BY <1>1, <1>2, EveryNumber
  <2> QED
    BY <2>1
<1>4. PICK f : f = [i \in 0..w |-> IF i = 0 THEN [r |-> t, evs |-> <<>>] ELSE Onward(f[i - 1])]
  BY <1>3
<1>5. Run(t) = [i \in 0..w |->
        IF i = 0 THEN [r |-> t, evs |-> <<>>] ELSE Onward(Run(t)[i - 1])]
  BY <1>4 DEF Run
<1> QED
  BY <1>5

\* On its way from state t the loop comes to state u, after it has returned
\* the events new.
Reaches(t, u, new) ==
  \E n \in 0..Weight(t) :
    /\ n + Weight(u) <= Weight(t)
    /\ Run(t)[n] = [r |-> u, evs |-> new]

\* The weight of a decoding state is a number.
LEMMA WeightNat == ASSUME NEW s \in DState PROVE Weight(s) \in Nat
<1>1. PICK a \in Nat, b \in Nat : a = Len(s.buf) /\ b = Len(s.dbl)
  BY DStateFields
<1>2. Weight(s) = a + b
  BY <1>1 DEF Weight
<1> QED
  BY <1>2

LEMMA ReachesItself ==
  ASSUME NEW t \in DState
  PROVE  Reaches(t, t, <<>>)
<1>1. Weight(t) \in Nat
  BY WeightNat
<1>2. Run(t)[0] = [r |-> t, evs |-> <<>>]
  BY <1>1, RunDef
<1>3. 0 \in 0..Weight(t) /\ 0 + Weight(t) <= Weight(t)
  BY <1>1
<1> QED
  BY <1>2, <1>3 DEF Reaches

LEMMA ReachesNext ==
  ASSUME NEW t \in DState, NEW u \in DState, NEW new,
         Reaches(t, u, new), ~AtRest(u)
  PROVE  Reaches(t, After(u), new \o Returned(u))
<1>1. /\ Weight(t) \in Nat /\ Weight(u) \in Nat
      /\ Weight(After(u)) \in Nat /\ Weight(After(u)) < Weight(u)
  BY AfterShrinks, WeightNat
<1>2. PICK n \in 0..Weight(t) : /\ n + Weight(u) <= Weight(t)
                                /\ Run(t)[n] = [r |-> u, evs |-> new]
  BY DEF Reaches
<1>3. /\ n + 1 \in 1..Weight(t) /\ n + 1 \in 0..Weight(t) /\ n + 1 - 1 = n
      /\ n + 1 + Weight(After(u)) <= Weight(t)
  BY <1>1, <1>2
<1>4. Run(t)[n + 1] = Onward([r |-> u, evs |-> new])
  <2>1. \A i \in 1..Weight(t) : Run(t)[i] = Onward(Run(t)[i - 1])
    BY <1>1, RunDef
  <2>2. Run(t)[n + 1] = Onward(Run(t)[n + 1 - 1])
    BY <1>3, <2>1
  <2> QED
    BY <1>2, <1>3, <2>2
<1>5. Onward([r |-> u, evs |-> new]) = [r |-> After(u), evs |-> new \o Returned(u)]
  BY DEF Onward
<1> QED
  BY <1>3, <1>4, <1>5 DEF Reaches

\* Once the loop has to read nothing changes any more.
LEMMA ReachesEnd ==
  ASSUME NEW t \in DState, NEW u \in DState, NEW new,
         Reaches(t, u, new), AtRest(u)
  PROVE  Run(t)[Weight(t)] = [r |-> u, evs |-> new]
<1>1. Weight(t) \in Nat
  BY WeightNat
<1>2. PICK n \in 0..Weight(t) : Run(t)[n] = [r |-> u, evs |-> new]
  BY DEF Reaches
<1>3. PICK p : p = [r |-> u, evs |-> new]
  OBVIOUS
<1>4. Onward(p) = p
  BY <1>3 DEF Onward
<1> DEFINE S == {i \in 0..Weight(t) : i < n \/ Run(t)[i] = p}
<1>5. 0 \in S
  BY <1>1, <1>2, <1>3
<1>6. ASSUME NEW k \in 0..(Weight(t) - 1), k \in S
      PROVE  k + 1 \in S
  <2>1. k + 1 \in 1..Weight(t) /\ k + 1 \in 0..Weight(t) /\ k + 1 - 1 = k
    BY <1>1, <1>6
  <2>2. CASE k + 1 < n
    BY <2>1, <2>2
  <2>3. CASE k + 1 = n
    BY <1>2, <1>3, <2>1, <2>3
  <2>4. CASE ~(k + 1 <= n)
    <3>1. ~(k < n)
      BY <1>1, <1>2, <2>4
    <3>2. Run(t)[k] = p
      BY <1>6, <3>1
    <3>3. Run(t)[k + 1] = Onward(p)
      <4>1. \A i \in 1..Weight(t) : Run(t)[i] = Onward(Run(t)[i - 1])
        BY <1>1, RunDef
      <4>2. Run(t)[k + 1] = Onward(Run(t)[k + 1 - 1])
        BY <2>1, <4>1
      <4> QED
        BY <2>1, <3>2, <4>2
    <3> QED
      BY <1>4, <2>1, <3>3
  <2> QED
    BY <1>1, <1>2, <1>6, <2>2, <2>3, <2>4
<1> HIDE DEF S
<1>7. 0..Weight(t) \subseteq S
  BY <1>1, <1>5, <1>6, EveryNumber
<1>8. Weight(t) \in 0..Weight(t) /\ ~(Weight(t) < n)
  BY <1>1
<1> QED
  BY <1>3, <1>7, <1>8 DEF S

-----------------------------------------------------------------------------
(***************************************************************************)
(* The invariant.  As long as clean holds, the loop that got everything at *)
(* once, and as much more of what is still to be read as one likes, comes  *)
(* to where the program is now, with what is still to be read behind it.   *)
(* It has to be said of every such c: which bytes the next read returns is *)
(* open.                                                                   *)
(***************************************************************************)
Ahead ==
  \A k \in 0..Len(wire) :
    LET c == SubSeq(wire, 1, k)
    IN  Reaches(Extended(origin, got \o c), Extended(r, c), evs)

ChunkInv == TypeOK /\ origin.buf = <<>> /\ (clean => Ahead)

\* The first k bytes of what is still to be read.
LEMMA FirstBytes ==
  ASSUME NEW w \in Seq(Byte), NEW k \in 0..Len(w)
  PROVE  /\ SubSeq(w, 1, k) \in Seq(Byte) /\ Len(SubSeq(w, 1, k)) = k
         /\ \A i \in 1..k : SubSeq(w, 1, k)[i] = w[i]
<1>1. Len(w) \in Nat /\ \A i \in 1..Len(w) : w[i] \in Byte
  BY LenProperties, ElementOfSeq
<1>2. \A i \in 1..k : w[i] \in Byte
  BY <1>1
<1>3. 1 \in Int /\ k \in Int /\ k \in Nat
  BY <1>1
<1>4. (IF 1 <= k THEN k - 1 + 1 ELSE 0) = k
  BY <1>3
<1>5. /\ SubSeq(w, 1, k) \in Seq(Byte)
      /\ Len(SubSeq(w, 1, k)) = IF 1 <= k THEN k - 1 + 1 ELSE 0
      /\ \A i \in 1..(k - 1 + 1) : SubSeq(w, 1, k)[i] = w[1 + i - 1]
  BY <1>2, <1>3, SubSeqProperties
<1>6. \A i \in 1..k : i \in 1..(k - 1 + 1) /\ 1 + i - 1 = i
  BY <1>3
<1>7. \A i \in 1..k : SubSeq(w, 1, k)[i] = w[i]
  BY <1>5, <1>6
<1> QED
  BY <1>4, <1>5, <1>7

\* What a read returns and what the next one may return are the first bytes
\* of what was there.
LEMMA TwoReads ==
  ASSUME NEW w \in Seq(Byte), NEW n \in 1..Len(w), NEW k \in 0..Len(Drop(w, n))
  PROVE  /\ n + k \in 0..Len(w)
         /\ SubSeq(w, 1, n) \o SubSeq(Drop(w, n), 1, k) = SubSeq(w, 1, n + k)
<1>1. PICK m \in Nat : m = Len(w) /\ n \in 1..m /\ n \in 0..m
  BY LenProperties
<1>2. Drop(w, n) \in Seq(Byte) /\ Len(Drop(w, n)) = m - n
  BY <1>1, DropType
<1>3. PICK d : d = Drop(w, n)
  OBVIOUS
<1>4. d \in Seq(Byte) /\ Len(d) = m - n /\ k \in 0..Len(d)
  BY <1>2, <1>3
<1>5. n + k \in 0..m /\ k \in Nat /\ n \in Nat
  BY <1>1, <1>4
<1>6. PICK a : a = SubSeq(w, 1, n)
  OBVIOUS
<1>7. PICK b : b = SubSeq(d, 1, k)
  OBVIOUS
<1>8. PICK j \in Nat : j = n + k
  <2>1. n + k \in Nat
    BY <1>5
  <2> QED
    BY <2>1
<1>9. PICK e : e = SubSeq(w, 1, j)
  OBVIOUS
<1>10. a \in Seq(Byte) /\ Len(a) = n /\ \A i \in 1..n : a[i] = w[i]
  BY <1>1, <1>6, FirstBytes
<1>11. b \in Seq(Byte) /\ Len(b) = k /\ \A i \in 1..k : b[i] = d[i]
  BY <1>4, <1>7, FirstBytes
<1>12. e \in Seq(Byte) /\ Len(e) = j /\ \A i \in 1..j : e[i] = w[i]
  <2>1. j \in 0..Len(w)
    BY <1>1, <1>5, <1>8
  <2> QED
    BY <1>9, <2>1, FirstBytes
<1>13. \A i \in 1..(m - n) : d[i] = w[n + i]
  <2>1. \A i \in (n + 1)..m : w[i] \in Byte
    <3>1. \A i \in 1..Len(w) : w[i] \in Byte
      BY ElementOfSeq
    <3> QED
      BY <1>1, <1>5, <3>1
  <2>2. d = SubSeq(w, n + 1, m)
    BY <1>1, <1>3 DEF Drop
  <2>3. n + 1 \in Int /\ m \in Int
    BY <1>1, <1>5
  <2>4. \A i \in 1..(m - (n + 1) + 1) : d[i] = w[n + 1 + i - 1]
    BY <2>1, <2>2, <2>3, SubSeqProperties
  <2>5. \A i \in 1..(m - n) : i \in 1..(m - (n + 1) + 1) /\ n + 1 + i - 1 = n + i
    BY <1>1, <1>5
  <2> QED
    BY <2>4, <2>5
<1>14. /\ a \o b \in Seq(Byte) /\ Len(a \o b) = n + k
       /\ \A i \in 1..(n + k) : (a \o b)[i] = IF i <= n THEN a[i] ELSE b[i - n]
  BY <1>10, <1>11, ConcatProperties
<1>15. \A i \in 1..j : (a \o b)[i] = e[i]
  <2> TAKE i \in 1..j
  <2>1. e[i] = w[i] /\ i \in 1..(n + k)
    BY <1>8, <1>12
  <2>2. (a \o b)[i] = IF i <= n THEN a[i] ELSE b[i - n]
    BY <1>14, <2>1
  <2>3. CASE i <= n
    <3>1. i \in 1..n
      BY <1>5, <2>3
    <3> QED
      BY <1>10, <2>1, <2>2, <2>3, <3>1
  <2>4. CASE ~(i <= n)
    <3>1. i - n \in 1..k /\ i - n \in 1..(m - n) /\ n + (i - n) = i
      BY <1>1, <1>5, <1>8, <2>4
    <3>2. b[i - n] = w[i]
      BY <1>11, <1>13, <3>1
    <3> QED
      BY <2>1, <2>2, <2>4, <3>2
  <2> QED
    BY <2>3, <2>4
<1>16. a \o b = e
  <2>1. Len(a \o b) = Len(e) /\ Len(e) = j
    BY <1>8, <1>12, <1>14
  <2>2. \A i \in 1..Len(a \o b) : (a \o b)[i] = e[i]
    BY <1>15, <2>1
  <2> QED
    BY <1>12, <1>14, <2>1, <2>2, SeqEqual
<1>17. n + k \in 0..Len(w)
  BY <1>1, <1>5
<1> QED
  BY <1>3, <1>6, <1>7, <1>8, <1>9, <1>16, <1>17

\* Bytes that come in two portions.
LEMMA ExtendedTwice ==
  ASSUME NEW s \in DState, NEW w \in Seq(Byte), NEW c \in Seq(Byte)
  PROVE  Extended(Extended(s, w), c) = Extended(s, w \o c)
<1>1. Extended(s, w) \in DState /\ w \o c \in Seq(Byte)
  BY ExtendedType, ConcatProperties
<1>2. /\ Extended(Extended(s, w), c) \in DState
      /\ Extended(s, w \o c) \in DState
  BY <1>1, ExtendedType
<1>3. PICK t : t = Extended(s, w)
  OBVIOUS
<1>4. /\ t \in DState /\ t.buf = s.buf \o w /\ t.dbl = s.dbl
      /\ t.wrap = s.wrap /\ t.far2l = s.far2l
  BY <1>3, ExtendedType
<1>5. /\ Extended(t, c).buf = t.buf \o c /\ Extended(t, c).dbl = t.dbl
      /\ Extended(t, c).wrap = t.wrap /\ Extended(t, c).far2l = t.far2l
  BY <1>4, ExtendedType
<1>6. /\ Extended(s, w \o c).buf = s.buf \o (w \o c) /\ Extended(s, w \o c).dbl = s.dbl
      /\ Extended(s, w \o c).wrap = s.wrap /\ Extended(s, w \o c).far2l = s.far2l
  BY <1>1, ExtendedType
<1>7. (s.buf \o w) \o c = s.buf \o (w \o c)
  <2>1. PICK b \in Seq(Byte) : b = s.buf
    BY DStateFields
  <2>2. (b \o w) \o c = b \o (w \o c)
    BY ConcatAssociative
  <2> QED
    BY <2>1, <2>2
<1>8. Extended(t, c) \in DState
  BY <1>2, <1>3
<1> QED
  <2>1. PICK x : x = Extended(t, c)
    OBVIOUS
  <2>2. PICK y : y = Extended(s, w \o c)
    OBVIOUS
  <2>3. x \in DState /\ y \in DState
    BY <1>2, <1>8, <2>1, <2>2
  <2>4. x.dbl = y.dbl /\ x.wrap = y.wrap /\ x.far2l = y.far2l
    BY <1>4, <1>5, <1>6, <2>1, <2>2
  <2>5. x.buf = y.buf
    BY <1>4, <1>5, <1>6, <1>7, <2>1, <2>2
  <2>6. x = y
    BY <2>3, <2>4, <2>5, DStateEqual
  <2> QED
    BY <1>3, <2>1, <2>2, <2>6

\* A read adds its bytes, unless it ends a runaway unwrapping.
LEMMA ReceivedExtends ==
  ASSUME NEW s \in DState, ~Runaway(s), NEW w
  PROVE  Received(s, w) = Extended(s, w)
BY DEF Received, Extended, Reset

\* No bytes at all change nothing.
LEMMA ExtendedByNothing ==
  ASSUME NEW s \in DState
  PROVE  Extended(s, <<>>) = s
<1>1. <<>> \in Seq(Byte) /\ s.buf \o <<>> = s.buf
  BY DStateFields, NoBytes, ConcatEmptySeq
<1>2. /\ Extended(s, <<>>) \in DState /\ Extended(s, <<>>).buf = s.buf
      /\ Extended(s, <<>>).dbl = s.dbl /\ Extended(s, <<>>).wrap = s.wrap
      /\ Extended(s, <<>>).far2l = s.far2l
  BY <1>1, ExtendedType
<1> QED
  BY <1>2, DStateEqual

-----------------------------------------------------------------------------
\* What the invariant says of one c.
LEMMA AheadSays ==
  ASSUME TypeOK, Ahead, NEW k \in 0..Len(wire), NEW c, c = SubSeq(wire, 1, k)
  PROVE  Reaches(Extended(origin, got \o c), Extended(r, c), evs)
BY DEF Ahead

\* The states the invariant is about are decoding states.
LEMMA AheadTyped ==
  ASSUME NEW s \in DState, NEW g \in Seq(Byte), NEW c \in Seq(Byte)
  PROVE  Extended(s, g \o c) \in DState /\ Extended(s, c) \in DState
<1>1. g \o c \in Seq(Byte)
  BY ConcatProperties
<1> QED
  BY <1>1, ExtendedType

\* A fresh start of the history.
LEMMA FreshStart ==
  ASSUME NEW s \in DState, NEW w \in Seq(Byte), NEW k \in 0..Len(w), NEW c,
         c = SubSeq(w, 1, k)
  PROVE  Reaches(Extended(s, <<>> \o c), Extended(s, c), <<>>)
<1>1. c \in Seq(Byte)
  BY FirstBytes
<1>2. <<>> \o c = c
  BY <1>1, ConcatEmptySeq
<1>3. Extended(s, c) \in DState
  BY <1>1, ExtendedType
<1> QED
  BY <1>2, <1>3, ReachesItself

\* After a timeout or an early decision the history starts afresh or is not
\* clean.
LEMMA Restarts ==
  ASSUME TypeOK, origin.buf = <<>>, r' \in DState, wire' = wire,
         NEW new, NEW ok \in BOOLEAN, ~ok, Record(r', new, ok)
  PROVE  origin'.buf = <<>> /\ (clean' => Ahead')
<1>1. wire \in Seq(Byte)
  BY DEF TypeOK
<1>2. CASE Fresh(r')
  <2>1. got' = <<>> /\ evs' = <<>> /\ origin' = r'
    BY <1>2 DEF Record
  <2>2. origin'.buf = <<>>
    BY <1>2, <2>1 DEF Fresh
  <2>3. ASSUME NEW k \in 0..Len(wire'), NEW c, c = SubSeq(wire', 1, k)
        PROVE  Reaches(Extended(origin', got' \o c), Extended(r', c), evs')
    <3>1. k \in 0..Len(wire) /\ c = SubSeq(wire, 1, k)
      BY <2>3
    <3>2. Reaches(Extended(r', <<>> \o c), Extended(r', c), <<>>)
      BY <1>1, <3>1, FreshStart
    <3> QED
      BY <2>1, <3>2
  <2> QED
    BY <2>2, <2>3 DEF Ahead
<1>3. CASE ~Fresh(r')
  BY <1>3 DEF Record
<1> QED
  BY <1>2, <1>3

\* An iteration takes the loop that got everything at once as far.
LEMMA AheadIterate ==
  ASSUME ChunkInv, Iterate
  PROVE  origin'.buf = <<>> /\ (clean' => Ahead')
<1>1. TypeOK /\ origin.buf = <<>> /\ (clean => Ahead)
  BY DEF ChunkInv
<1>2. /\ wire \in Seq(Byte) /\ got \in Seq(Byte) /\ r \in DState /\ origin \in DState
      /\ clean \in BOOLEAN
  BY <1>1 DEF TypeOK, DState
<1>3. /\ ~AtRest(r) /\ r' = After(r) /\ wire' = wire
      /\ Record(r', Returned(r), clean /\ ~TooEarly)
  BY DEF Iterate
<1>4. r' \in DState
  BY <1>2, <1>3, AfterShrinks
<1>5. CASE ~(clean /\ ~TooEarly)
  <2>1. PICK ok \in BOOLEAN : ok = (clean /\ ~TooEarly)
    BY Zenon
  <2>2. Record(r', Returned(r), ok) /\ ~ok
    BY <1>3, <1>5, <2>1
  <2> QED
    BY <1>1, <1>3, <1>4, <2>2, Restarts
<1>6. CASE clean /\ ~TooEarly
  <2>1. /\ evs' = evs \o Returned(r) /\ got' = got /\ origin' = origin
    BY <1>3, <1>6 DEF Record
  <2>2. ASSUME NEW k \in 0..Len(wire'), NEW c, c = SubSeq(wire', 1, k)
        PROVE  Reaches(Extended(origin', got' \o c), Extended(r', c), evs')
    <3>1. k \in 0..Len(wire) /\ c = SubSeq(wire, 1, k)
      BY <1>3, <2>2
    <3>2. c \in Seq(Byte) /\ Len(c) = k /\ \A i \in 1..k : c[i] = wire[i]
      BY <1>2, <3>1, FirstBytes
    <3>3. InTime(r, c)
      <4> SUFFICES ASSUME After(r).buf = <<>>, c # <<>> PROVE ~Early(Decide(r), c[1])
        BY DEF InTime
      <4>1. Len(c) # 0 /\ Len(wire) \in Nat
        BY <1>2, <3>2, EmptySeq, LenProperties
      <4>2. 1 \in 1..k /\ Len(wire) # 0
        BY <3>1, <3>2, <4>1
      <4>3. c[1] = wire[1] /\ wire # <<>>
        BY <3>2, <4>2, EmptySeq
      <4> QED
        BY <1>6, <4>3 DEF TooEarly
    <3>4. PICK t : t = Extended(origin, got \o c)
      OBVIOUS
    <3>5. PICK u : u = Extended(r, c)
      OBVIOUS
    <3>6. t \in DState /\ u \in DState
      BY <1>2, <3>2, <3>4, <3>5, AheadTyped
    <3>7. Reaches(t, u, evs)
      BY <1>1, <1>6, <3>1, <3>4, <3>5, AheadSays
    <3>8. After(u) = Extended(After(r), c) /\ Returned(u) = Returned(r) /\ ~AtRest(u)
      BY <1>2, <1>3, <3>2, <3>3, <3>5, AfterSame
    <3>9. Reaches(t, After(u), evs \o Returned(u))
      BY <3>6, <3>7, <3>8, ReachesNext
    <3> QED
      BY <1>3, <2>1, <3>4, <3>8, <3>9
  <2> QED
    BY <1>1, <2>1, <2>2 DEF Ahead
<1> QED
  BY <1>5, <1>6

LEMMA BytesAssociate ==
  ASSUME NEW x \in Seq(Byte), NEW y \in Seq(Byte), NEW z \in Seq(Byte)
  PROVE  (x \o y) \o z = x \o (y \o z)
BY ConcatAssociative

\* A read takes one of the cs.
LEMMA AheadRead ==
  ASSUME ChunkInv, Read
  PROVE  origin'.buf = <<>> /\ (clean' => Ahead')
<1>1. TypeOK /\ origin.buf = <<>> /\ (clean => Ahead)
  BY DEF ChunkInv
<1>2. wire \in Seq(Byte) /\ got \in Seq(Byte) /\ r \in DState /\ origin \in DState
  BY <1>1 DEF TypeOK, DState
<1>3. PICK n \in 1..Len(wire) :
        /\ r' = Received(r, SubSeq(wire, 1, n))
        /\ wire' = Drop(wire, n)
        /\ got' = got \o SubSeq(wire, 1, n)
  BY DEF Read
<1>4. clean' = (clean /\ ~Runaway(r)) /\ evs' = evs /\ origin' = origin
  BY DEF Read
<1>5. ASSUME clean', NEW k \in 0..Len(wire'), NEW c, c = SubSeq(wire', 1, k)
      PROVE  Reaches(Extended(origin', got' \o c), Extended(r', c), evs')
  <2>1. Ahead /\ ~Runaway(r)
    BY <1>1, <1>4, <1>5
  <2>2. PICK w : w = SubSeq(wire, 1, n)
    OBVIOUS
  <2>3. w \in Seq(Byte) /\ wire' \in Seq(Byte)
    BY <1>2, <1>3, <2>2, ReadType
  <2>4. c \in Seq(Byte)
    BY <1>5, <2>3, FirstBytes
  <2>5. n + k \in 0..Len(wire) /\ w \o c = SubSeq(wire, 1, n + k)
    <3>1. k \in 0..Len(Drop(wire, n)) /\ c = SubSeq(Drop(wire, n), 1, k)
      BY <1>3, <1>5
    <3> QED
      BY <1>2, <2>2, <3>1, TwoReads
  <2>6. Reaches(Extended(origin, got \o (w \o c)), Extended(r, w \o c), evs)
    BY <1>1, <2>1, <2>5, AheadSays
  <2>7. (got \o w) \o c = got \o (w \o c)
    <3>1. got \in Seq(Byte) /\ w \in Seq(Byte) /\ c \in Seq(Byte)
      BY <1>2, <2>3, <2>4
    <3> QED
      BY <3>1, BytesAssociate
  <2>8. Extended(r', c) = Extended(r, w \o c)
    <3>1. r' = Extended(r, w)
      BY <1>2, <1>3, <2>1, <2>2, ReceivedExtends
    <3> QED
      BY <1>2, <2>3, <2>4, <3>1, ExtendedTwice
  <2>9. got' \o c = got \o (w \o c)
    BY <1>3, <2>2, <2>7
  <2> QED
    BY <1>4, <2>6, <2>8, <2>9
<1>6. clean' => Ahead'
  BY <1>5 DEF Ahead
<1> QED
  BY <1>1, <1>4, <1>6

LEMMA ChunkInvInit == Init => ChunkInv
<1> SUFFICES ASSUME Init PROVE ChunkInv
  OBVIOUS
<1>1. Start \in DState
  BY NoBytes DEF Start, DState
<1>2. /\ wire \in Seq(Byte) /\ r = Start /\ origin = Start
      /\ got = <<>> /\ evs = <<>> /\ clean = TRUE
  BY StreamsAssumption DEF Init
<1>3. TypeOK
  BY <1>1, <1>2, NoBytes DEF Init, TypeOK, DState
<1>4. origin.buf = <<>>
  BY <1>2 DEF Start
<1>5. Ahead
  <2>1. ASSUME NEW k \in 0..Len(wire), NEW c, c = SubSeq(wire, 1, k)
        PROVE  Reaches(Extended(origin, got \o c), Extended(r, c), evs)
    BY <1>1, <1>2, <2>1, FreshStart
  <2> QED
    BY <2>1 DEF Ahead
<1> QED
  BY <1>3, <1>4, <1>5 DEF ChunkInv

LEMMA ChunkInvStep == ChunkInv /\ [Next]_vars => ChunkInv'
<1> SUFFICES ASSUME ChunkInv, [Next]_vars PROVE ChunkInv'
  OBVIOUS
<1>1. TypeOK /\ origin.buf = <<>> /\ (clean => Ahead)
  BY DEF ChunkInv
<1>2. TypeOK'
  BY <1>1, StepSound
<1>3. r \in DState /\ r' \in DState
  BY <1>1, <1>2 DEF TypeOK, DState
<1>4. CASE Iterate
  BY <1>2, <1>4, AheadIterate DEF ChunkInv
<1>5. CASE Read
  BY <1>2, <1>5, AheadRead DEF ChunkInv
<1>6. CASE EscTimeout
  <2>1. wire' = wire /\ Record(r', <<EscapeKey>>, FALSE)
    BY <1>6 DEF EscTimeout
  <2>2. origin'.buf = <<>> /\ (clean' => Ahead')
    BY <1>1, <1>3, <2>1, Restarts
  <2> QED
    BY <1>2, <2>2 DEF ChunkInv
<1>7. CASE HangUp \/ ReadEOF \/ Done \/ UNCHANGED vars
  <2>1. UNCHANGED <<wire, r, got, evs, origin, clean>>
    BY <1>7 DEF HangUp, ReadEOF, Done, vars
  <2> QED
    BY <1>1, <1>2, <2>1 DEF ChunkInv, Ahead
<1> QED
  BY <1>4, <1>5, <1>6, <1>7 DEF Next

LEMMA ChunkInvHolds == Spec => []ChunkInv
BY ChunkInvInit, ChunkInvStep, PTL DEF Spec

\* With no byte ahead the invariant is the property.
LEMMA ChunkInvSuffices == ChunkInv => ChunkIndependence
<1> SUFFICES ASSUME ChunkInv, clean, AtRest(r)
             PROVE  r = Decode(origin, got).r /\ evs = Decode(origin, got).evs
  BY DEF ChunkIndependence
<1>1. TypeOK /\ origin.buf = <<>> /\ Ahead
  BY DEF ChunkInv
<1>2. wire \in Seq(Byte) /\ got \in Seq(Byte) /\ r \in DState /\ origin \in DState
  BY <1>1 DEF TypeOK, DState
<1>3. PICK t : t = Extended(origin, got)
  OBVIOUS
<1>4. t \in DState
  BY <1>2, <1>3, ExtendedType
<1>5. Reaches(t, r, evs)
  <2>1. 0 \in 0..Len(wire) /\ Len(wire) \in Nat
    BY <1>2, LenProperties
  <2>2. <<>> = SubSeq(wire, 1, 0)
    BY SubSeqEmpty
  <2>3. Reaches(Extended(origin, got \o <<>>), Extended(r, <<>>), evs)
    BY <1>1, <2>1, <2>2, AheadSays
  <2>4. got \o <<>> = got
    BY <1>2, ConcatEmptySeq
  <2>5. Extended(r, <<>>) = r
    BY <1>2, ExtendedByNothing
  <2> QED
    BY <1>3, <2>3, <2>4, <2>5
<1>6. Run(t)[Weight(t)] = [r |-> r, evs |-> evs]
  BY <1>2, <1>4, <1>5, ReachesEnd
<1>7. Received(origin, got) = t
  <2>1. ~Runaway(origin)
    BY <1>1 DEF Runaway
  <2> QED
    BY <1>2, <1>3, <2>1, ReceivedExtends
<1>8. Decode(origin, got) = [r |-> r, evs |-> evs]
  BY <1>6, <1>7 DEF Decode
<1> QED
  BY <1>8

(***************************************************************************)
(* However the reads cut the bytes of the terminal, inside an escape       *)
(* sequence, a character or a mouse report, ReadEventTimeout returns the   *)
(* same events and keeps the same state, unless a timeout or one of the    *)
(* four early decisions came between: for every set of streams.            *)
(***************************************************************************)
THEOREM CutsDoNotMatter == Spec => []ChunkIndependence
BY ChunkInvHolds, ChunkInvSuffices, PTL
================================================================================
