-------------------------- MODULE Far2lStackProofs ---------------------------
(***************************************************************************)
(* What is pushed is popped again, from under whatever else is on the      *)
(* stack, and a pop that finds too little leaves the stack as it is.       *)
(***************************************************************************)
EXTENDS Far2lStack, SequenceTheorems, TLAPS

Word  == {n \in Nat : n < 65536}
DWord == {n \in Nat : n < 4294967296}

\* The end of a concatenation is its second part, the rest its first.
LEMMA TopOfConcat ==
  ASSUME NEW s \in Seq(Byte), NEW t \in Seq(Byte)
  PROVE  /\ Len(s \o t) = Len(s) + Len(t)
         /\ Last(s \o t, Len(t)) = t
         /\ AllBut(s \o t, Len(t)) = s
<1> DEFINE st == s \o t
<1>1. /\ st \in Seq(Byte)
      /\ Len(st) = Len(s) + Len(t)
      /\ \A i \in 1..Len(s) + Len(t) : st[i] = IF i <= Len(s) THEN s[i] ELSE t[i - Len(s)]
  BY ConcatProperties
<1>2. Len(s) \in Nat /\ Len(t) \in Nat
  BY LenProperties
<1>3. \A i \in 1..Len(st) : st[i] \in Byte
  BY <1>1, ElementOfSeq
<1> HIDE DEF st
<1>4. SubSeq(st, Len(s) + 1, Len(st)) = t
  <2>1. \A i \in (Len(s) + 1)..Len(st) : st[i] \in Byte
    BY <1>1, <1>2, <1>3
  <2>2. /\ SubSeq(st, Len(s) + 1, Len(st)) \in Seq(Byte)
        /\ Len(SubSeq(st, Len(s) + 1, Len(st))) = Len(t)
        /\ \A i \in 1..Len(t) : SubSeq(st, Len(s) + 1, Len(st))[i] = st[Len(s) + i]
    <3>1. /\ SubSeq(st, Len(s) + 1, Len(st)) \in Seq(Byte)
          /\ Len(SubSeq(st, Len(s) + 1, Len(st))) =
               IF Len(s) + 1 <= Len(st) THEN Len(st) - (Len(s) + 1) + 1 ELSE 0
          /\ \A i \in 1..(Len(st) - (Len(s) + 1) + 1) :
               SubSeq(st, Len(s) + 1, Len(st))[i] = st[Len(s) + 1 + i - 1]
      <4>1. Len(s) + 1 \in Int /\ Len(st) \in Int
        BY <1>1, <1>2
      <4> QED BY <4>1, <2>1, SubSeqProperties
    <3> QED BY <3>1, <1>1, <1>2
  <2>3. \A i \in 1..Len(t) : st[Len(s) + i] = t[i]
    BY <1>1, <1>2
  <2> QED BY <2>2, <2>3, SeqEqual
<1>5. SubSeq(st, 1, Len(s)) = s
  <2>1. \A i \in 1..Len(s) : st[i] \in Byte
    BY <1>1, <1>2, <1>3
  <2>2. /\ SubSeq(st, 1, Len(s)) \in Seq(Byte)
        /\ Len(SubSeq(st, 1, Len(s))) = Len(s)
        /\ \A i \in 1..Len(s) : SubSeq(st, 1, Len(s))[i] = st[i]
    <3>1. /\ SubSeq(st, 1, Len(s)) \in Seq(Byte)
          /\ Len(SubSeq(st, 1, Len(s))) = IF 1 <= Len(s) THEN Len(s) - 1 + 1 ELSE 0
          /\ \A i \in 1..(Len(s) - 1 + 1) : SubSeq(st, 1, Len(s))[i] = st[1 + i - 1]
      <4>1. 1 \in Int /\ Len(s) \in Int
        BY <1>2
      <4> QED BY <4>1, <2>1, SubSeqProperties
    <3> QED BY <3>1, <1>2
  <2>3. \A i \in 1..Len(s) : st[i] = s[i]
    BY <1>1, <1>2
  <2> QED BY <2>2, <2>3, SeqEqual
<1> QED
  BY <1>1, <1>2, <1>4, <1>5 DEF Last, AllBut, st

LEMMA TwoBytes ==
  ASSUME NEW v \in Word
  PROVE  v % 256 \in Byte /\ v \div 256 \in Byte /\ v = (v % 256) + 256 * (v \div 256)
BY DEF Word, Byte

LEMMA TwoWords ==
  ASSUME NEW v \in DWord
  PROVE  /\ v % 65536 \in Word /\ v \div 65536 \in Word
         /\ v = (v % 65536) + 65536 * (v \div 65536)
<1>1. v \in Nat /\ v < 4294967296
  BY SMT DEF DWord
<1>2. v \div 65536 \in Nat /\ v \div 65536 < 65536
  BY <1>1, SMT
<1>3. v % 65536 \in Nat /\ v % 65536 < 65536 /\ v = (v % 65536) + 65536 * (v \div 65536)
  BY <1>1, SMT
<1> QED BY <1>2, <1>3 DEF Word

LEMMA Bytes16Sound ==
  ASSUME NEW v \in Word
  PROVE  /\ Bytes16(v) \in Seq(Byte)
         /\ Len(Bytes16(v)) = 2
         /\ Uint16(Bytes16(v)) = v
BY TwoBytes DEF Bytes16, Uint16

LEMMA Bytes32Sound ==
  ASSUME NEW v \in DWord
  PROVE  /\ Bytes32(v) \in Seq(Byte)
         /\ Len(Bytes32(v)) = 4
         /\ Uint32(Bytes32(v)) = v
<1> DEFINE low  == v % 65536
           high == v \div 65536
<1>1. low \in Word /\ high \in Word /\ v = low + 65536 * high
  BY TwoWords
<1> HIDE DEF low, high
<1> DEFINE b == <<low % 256, low \div 256, high % 256, high \div 256>>
<1>2. /\ low % 256 \in Byte /\ low \div 256 \in Byte
      /\ low = (low % 256) + 256 * (low \div 256)
  BY <1>1, TwoBytes
<1>3. /\ high % 256 \in Byte /\ high \div 256 \in Byte
      /\ high = (high % 256) + 256 * (high \div 256)
  BY <1>1, TwoBytes
<1>4. b \in Seq(Byte) /\ Len(b) = 4
  BY <1>2, <1>3
<1>5. Uint32(b) = ((low % 256) + 256 * (low \div 256)) + 65536 * ((high % 256) + 256 * (high \div 256))
  BY DEF Uint32
<1>6. Uint32(b) = v
  BY <1>1, <1>2, <1>3, <1>5
<1> QED BY <1>4, <1>6 DEF Bytes32, low, high

\* A byte that was pushed is popped, and the stack is as it was
\* (far2l_stack.go, PushU8 and PopU8).
THEOREM PopPushU8 ==
  ASSUME NEW s \in Seq(Byte), NEW v \in Byte
  PROVE  PopU8(PushU8(s, v)) = Popped(v, s)
<1>1. Append(s, v) = s \o <<v>> /\ <<v>> \in Seq(Byte) /\ Len(<<v>>) = 1 /\ <<v>>[1] = v
  BY DEF Byte
<1>2. Len(s) \in Nat
  BY LenProperties
<1>3. /\ Len(s \o <<v>>) = Len(s) + Len(<<v>>)
      /\ Last(s \o <<v>>, Len(<<v>>)) = <<v>>
      /\ AllBut(s \o <<v>>, Len(<<v>>)) = s
  BY <1>1, TopOfConcat
<1>4. Len(s \o <<v>>) = Len(s) + 1 /\ Last(s \o <<v>>, 1) = <<v>> /\ AllBut(s \o <<v>>, 1) = s
  BY <1>1, <1>3
<1>5. PushU8(s, v) = s \o <<v>>
  BY <1>1 DEF PushU8
<1> QED BY <1>1, <1>2, <1>4, <1>5 DEF PopU8

\* The same for two bytes (PushU16 and PopU16).
THEOREM PopPushU16 ==
  ASSUME NEW s \in Seq(Byte), NEW v \in Word
  PROVE  PopU16(PushU16(s, v)) = Popped(v, s)
<1>1. Len(s) \in Nat
  BY LenProperties
<1>2. /\ Len(s \o Bytes16(v)) = Len(s) + 2
      /\ Last(s \o Bytes16(v), 2) = Bytes16(v)
      /\ AllBut(s \o Bytes16(v), 2) = s
  <2>1. /\ Len(s \o Bytes16(v)) = Len(s) + Len(Bytes16(v))
        /\ Last(s \o Bytes16(v), Len(Bytes16(v))) = Bytes16(v)
        /\ AllBut(s \o Bytes16(v), Len(Bytes16(v))) = s
    BY Bytes16Sound, TopOfConcat
  <2> QED BY <2>1, Bytes16Sound
<1> QED BY <1>1, <1>2, Bytes16Sound DEF PopU16, PushU16

\* The same for four bytes (PushU32 and PopU32).
THEOREM PopPushU32 ==
  ASSUME NEW s \in Seq(Byte), NEW v \in DWord
  PROVE  PopU32(PushU32(s, v)) = Popped(v, s)
<1>1. Len(s) \in Nat
  BY LenProperties
<1>2. /\ Len(s \o Bytes32(v)) = Len(s) + 4
      /\ Last(s \o Bytes32(v), 4) = Bytes32(v)
      /\ AllBut(s \o Bytes32(v), 4) = s
  <2>1. /\ Len(s \o Bytes32(v)) = Len(s) + Len(Bytes32(v))
        /\ Last(s \o Bytes32(v), Len(Bytes32(v))) = Bytes32(v)
        /\ AllBut(s \o Bytes32(v), Len(Bytes32(v))) = s
    BY Bytes32Sound, TopOfConcat
  <2> QED BY <2>1, Bytes32Sound
<1> QED BY <1>1, <1>2, Bytes32Sound DEF PopU32, PushU32

\* A string that was pushed is popped in full, whatever its bytes are and
\* whatever lies under it, if its length is not the mark of no string
\* (PushString and PopString).
THEOREM PopPushString ==
  ASSUME NEW s \in Seq(Byte), NEW str \in Seq(Byte), Len(str) < NoString
  PROVE  PopString(PushString(s, str)) = Popped(str, s)
<1>1. Len(s) \in Nat /\ Len(str) \in Nat /\ Len(str) \in DWord
  <2>1. Len(s) \in Nat /\ Len(str) \in Nat
    BY LenProperties
  <2> QED BY <2>1, SMT DEF NoString, DWord
<1>2. s \o str \in Seq(Byte)
  BY ConcatProperties
<1>3. PopU32(PushString(s, str)) = Popped(Len(str), s \o str)
  BY <1>1, <1>2, PopPushU32 DEF PushString, PushBytes
<1>4. CASE str = <<>>
  <2>1. Len(str) = 0 /\ s \o str = s
    BY <1>4, ConcatEmptySeq
  <2> QED BY <1>3, <1>4, <2>1 DEF PopString, Popped
<1>5. CASE str # <<>>
  <2>1. Len(str) # 0 /\ Len(str) # NoString
    <3>1. Len(str) # 0
      BY <1>5, EmptySeq
    <3> QED BY <3>1, <1>1, SMT
  <2>2. PopBytes(s \o str, Len(str)) = Popped(str, s)
    BY <1>1, TopOfConcat DEF PopBytes
  <2> QED BY <1>3, <2>1, <2>2 DEF PopString, Popped
<1> QED BY <1>4, <1>5

\* A pop from a stack that is too short gives nothing and takes nothing,
\* whatever is on it ("if l < n", far2l_stack.go).
THEOREM UnderflowLeavesStack ==
  ASSUME NEW s \in Seq(Byte), NEW n \in Nat
  PROVE  /\ s = <<>> => PopU8(s) = Popped(0, s)
         /\ Len(s) < 2 => PopU16(s) = Popped(0, s)
         /\ Len(s) < 4 => PopU32(s) = Popped(0, s)
         /\ Len(s) < n => PopBytes(s, n) = Popped(<<>>, s)
BY EmptySeq DEF PopU8, PopU16, PopU32, PopBytes
=============================================================================
