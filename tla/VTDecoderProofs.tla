--------------------------- MODULE VTDecoderProofs ---------------------------
(***************************************************************************)
(* What one iteration of the loop in ReadEventTimeout may do, for every    *)
(* buffer: it never consumes bytes that are not there, and whatever it     *)
(* does without reading makes the buffers smaller.                         *)
(***************************************************************************)
EXTENDS VTDecoder, TLAPS, WellFoundedInduction, SequenceTheorems

\* The decoding states.
DState == [buf : Seq(Byte), dbl : Seq(Byte), wrap : BOOLEAN, far2l : BOOLEAN]

\* An outcome that stays within a buffer of m bytes.
Sound(o, m) ==
  \/ o.act \in {"pass", "wait", "idle"}
  \/ o.act \in {"emit", "skip"} /\ o.n \in 1..m
  \/ /\ o.act = "peel" /\ o.n \in 3..m
     /\ o.byte \in Seq(Byte) /\ Len(o.byte) <= 1

-----------------------------------------------------------------------------
\* A set of indices that is not empty has a first element.
LEMMA FirstIsLeast ==
  ASSUME NEW S \in SUBSET Nat, S # {}
  PROVE  First(S) \in S /\ \A j \in S : First(S) <= j
<1>1. PICK m \in S : \A j \in S : ~(<<j, m>> \in OpToRel(<, Nat))
  BY NatLessThanWellFounded, WFMin
<1>2. \A j \in S : m <= j
  <2> TAKE j \in S
  <2>1. <<j, m>> \in Nat \X Nat
    OBVIOUS
  <2>2. ~(j < m)
    BY <1>1, <2>1 DEF OpToRel
  <2> QED
    BY <2>2
<1> QED
  BY <1>1, <1>2 DEF First

\* scanCSI reports a final byte that is in the slice, after ESC [.
LEMMA ScanCSIInside ==
  ASSUME NEW d \in Seq(Byte), ScanCSI(d).st = "ok"
  PROVE  ScanCSI(d).end \in 3..Len(d) /\ d[ScanCSI(d).end] \in Final
<1>1. CSIStops(d) \in SUBSET Nat /\ CSIStops(d) \subseteq 3..Len(d)
  BY DEF CSIStops
<1>2. /\ CSIStops(d) # {}
      /\ ScanCSI(d).end = First(CSIStops(d))
      /\ d[First(CSIStops(d))] \in Final
  BY DEF ScanCSI
<1> QED
  BY <1>1, <1>2, FirstIsLeast

\* scanAPC reports a terminator that is in the slice, after ESC _.
LEMMA ScanAPCInside ==
  ASSUME NEW d \in Seq(Byte), ScanAPC(d).st = "ok"
  PROVE  ScanAPC(d).end \in 3..Len(d)
<1>1. APCStops(d) \in SUBSET Nat /\ APCStops(d) \subseteq 3..Len(d)
  BY DEF APCStops
<1>2. APCStops(d) # {} /\ ScanAPC(d).end = First(APCStops(d))
  BY DEF ScanAPC
<1> QED
  BY <1>1, <1>2, FirstIsLeast

\* peelWinWrapped consumes a record that is in the slice, or none.
LEMMA RecordInside ==
  ASSUME NEW d \in Seq(Byte)
  PROVE  RecordEnd(d) \in {0} \union 3..Len(d)
<1> DEFINE stops == {i \in 3..Len(d) : d[i] \notin Digits \union {SEMI}}
<1>1. stops \in SUBSET Nat /\ stops \subseteq 3..Len(d)
  OBVIOUS
<1>2. CASE stops = {}
  BY <1>2 DEF RecordEnd
<1>3. CASE stops # {}
  <2>1. First(stops) \in 3..Len(d)
    BY <1>1, <1>3, FirstIsLeast
  <2>2. RecordEnd(d) \in {0, First(stops)}
    BY DEF RecordEnd
  <2> QED
    BY <2>1, <2>2
<1> QED
  BY <1>2, <1>3

\* A record contributes one byte or none.
LEMMA RecordByteIsByte ==
  ASSUME NEW d
  PROVE  RecordByte(d) \in Seq(Byte) /\ Len(RecordByte(d)) <= 1
<1>1. \A n : LowByte(n) \in Byte
  BY DEF LowByte, Byte
<1> QED
  BY <1>1 DEF RecordByte

-----------------------------------------------------------------------------
(***************************************************************************)
(* The stages of the ladder.                                               *)
(***************************************************************************)
LEMMA FocusSound ==
  ASSUME NEW d \in Seq(Byte)
  PROVE  Sound(FocusStage(d), Len(d))
BY DEF FocusStage, Sound, Emit, Pass

LEMMA DSRSound ==
  ASSUME NEW d \in Seq(Byte)
  PROVE  Sound(DSRStage(d), Len(d))
BY ScanCSIInside DEF DSRStage, Sound, Skip, Wait, Pass

LEMMA APCSound ==
  ASSUME NEW d \in Seq(Byte)
  PROVE  Sound(APCStage(d), Len(d))
<1>1. ScanAPC(d).st \in {"ok", "incomplete", "invalid"}
  BY DEF ScanAPC
<1>2. ScanAPC(d).st = "ok" => ScanAPC(d).end \in 1..Len(d)
  BY ScanAPCInside
<1> QED
  BY <1>1, <1>2 DEF APCStage, Sound, Emit, Skip, Wait, Pass

LEMMA PasteSound ==
  ASSUME NEW d \in Seq(Byte)
  PROVE  Sound(PasteStage(d), Len(d))
BY DEF PasteStage, Sound, Emit, Pass

LEMMA SGRSound ==
  ASSUME NEW d \in Seq(Byte), NEW alt
  PROVE  Sound(SGRStage(d, alt), Len(d))
BY ScanCSIInside DEF SGRStage, Sound, Emit, Wait, Pass

LEMMA X10Sound ==
  ASSUME NEW d \in Seq(Byte), NEW alt
  PROVE  Sound(X10Stage(d, alt), Len(d))
BY DEF X10Stage, ParseMouseLegacy, Sound, Emit, Wait, Pass

LEMMA URXVTSound ==
  ASSUME NEW d \in Seq(Byte), NEW alt
  PROVE  Sound(URXVTStage(d, alt), Len(d))
BY ScanCSIInside DEF URXVTStage, Sound, Emit, Wait, Pass

LEMMA SS3Sound ==
  ASSUME NEW d \in Seq(Byte), NEW alt
  PROVE  Sound(SS3Stage(d, alt), Len(d))
BY DEF SS3Stage, ParseLegacySS3, IsCSI, Sound, Emit, Wait, Pass

LEMMA DASound ==
  ASSUME NEW d \in Seq(Byte)
  PROVE  Sound(DAStage(d), Len(d))
BY ScanCSIInside DEF DAStage, Sound, Skip, Wait, Pass

LEMMA CSISound ==
  ASSUME NEW d \in Seq(Byte), NEW alt, NEW far2l
  PROVE  Sound(CSIStage(d, alt, far2l), Len(d))
<1>1. ScanCSI(d).st \in {"ok", "incomplete", "invalid"}
  BY DEF ScanCSI
<1>2. ScanCSI(d).st = "ok" => ScanCSI(d).end \in 1..Len(d)
  BY ScanCSIInside
<1> QED
  BY <1>1, <1>2 DEF CSIStage, Sound, Emit, Skip, Wait, Pass

\* What the ladder looks at: the buffer, or the buffer without its first ESC.
LEMMA ParseBufType ==
  ASSUME NEW r \in DState
  PROVE  /\ AltOffset(r) \in {0, 1}
         /\ AltOffset(r) <= Len(r.buf)
         /\ ParseBuf(r) \in Seq(Byte)
         /\ Len(ParseBuf(r)) = Len(r.buf) - AltOffset(r)
<1>1. r.buf \in Seq(Byte) /\ Len(r.buf) \in Nat
  BY DEF DState
<1>2. AltOffset(r) \in {0, 1} /\ AltOffset(r) <= Len(r.buf)
  BY <1>1 DEF AltOffset
<1>3. \A i \in (1 + AltOffset(r))..Len(r.buf) : r.buf[i] \in Byte
  BY <1>1, <1>2
<1> QED
  BY <1>1, <1>2, <1>3, SubSeqProperties DEF ParseBuf

LEMMA UnwrapSound ==
  ASSUME NEW r \in DState
  PROVE  Sound(UnwrapStage(r), Len(ParseBuf(r)))
<1>1. ParseBuf(r) \in Seq(Byte) /\ Len(ParseBuf(r)) \in Nat
  BY ParseBufType
<1>2. RecordEnd(ParseBuf(r)) \in {0} \union 3..Len(ParseBuf(r))
  BY <1>1, RecordInside
<1>3. /\ RecordByte(ParseBuf(r)) \in Seq(Byte)
      /\ Len(RecordByte(ParseBuf(r))) <= 1
  BY RecordByteIsByte
<1> QED
  BY <1>1, <1>2, <1>3 DEF UnwrapStage, Sound, Peel, Wait, Pass

LEMMA OtherwiseSound ==
  ASSUME NEW m, NEW first, NEW second, Sound(first, m), Sound(second, m)
  PROVE  Sound(Otherwise(first, second), m)
BY DEF Otherwise

LEMMA LadderSound ==
  ASSUME NEW r \in DState
  PROVE  Sound(Ladder(r), Len(ParseBuf(r)))
<1> DEFINE d   == ParseBuf(r)
           alt == AltOffset(r) = 1
           m   == Len(d)
           s10 == Otherwise(DAStage(d), CSIStage(d, alt, r.far2l))
           s9  == Otherwise(SS3Stage(d, alt), s10)
           s8  == Otherwise(URXVTStage(d, alt), s9)
           s7  == Otherwise(X10Stage(d, alt), s8)
           s6  == Otherwise(SGRStage(d, alt), s7)
           s5  == Otherwise(PasteStage(d), s6)
           s4  == Otherwise(APCStage(d), s5)
           s3  == Otherwise(DSRStage(d), s4)
           s2  == Otherwise(FocusStage(d), s3)
<1>0. d \in Seq(Byte)
  BY ParseBufType
<1>1. Ladder(r) = Otherwise(UnwrapStage(r), s2)
  BY DEF Ladder
<1> HIDE DEF d, alt, m
<1>2. Sound(s10, Len(d))
  BY <1>0, DASound, CSISound, OtherwiseSound
<1>3. Sound(s9, Len(d))
  BY <1>0, <1>2, SS3Sound, OtherwiseSound
<1>4. Sound(s8, Len(d))
  BY <1>0, <1>3, URXVTSound, OtherwiseSound
<1>5. Sound(s7, Len(d))
  BY <1>0, <1>4, X10Sound, OtherwiseSound
<1>6. Sound(s6, Len(d))
  BY <1>0, <1>5, SGRSound, OtherwiseSound
<1>7. Sound(s5, Len(d))
  BY <1>0, <1>6, PasteSound, OtherwiseSound
<1>8. Sound(s4, Len(d))
  BY <1>0, <1>7, APCSound, OtherwiseSound
<1>9. Sound(s3, Len(d))
  BY <1>0, <1>8, DSRSound, OtherwiseSound
<1>10. Sound(s2, Len(d))
  BY <1>0, <1>9, FocusSound, OtherwiseSound
<1> QED
  BY <1>1, <1>10, UnwrapSound, OtherwiseSound DEF d

\* A full rune lies in the slice.
LEMMA RuneInside ==
  ASSUME NEW d \in Seq(Byte), FullRune(d)
  PROVE  RuneSize(d) \in 1..Len(d)
<1>1. Len(d) >= 1
  BY DEF FullRune
<1>2. RuneNeed(d[1]) \in 1..4
  BY DEF RuneNeed
<1> QED
  BY <1>1, <1>2 DEF FullRune, RuneSize

LEMMA PlainSound ==
  ASSUME NEW b \in Seq(Byte), b # <<>>
  PROVE  Sound(PlainStage(b), Len(b)) /\ PlainStage(b).act \in {"emit", "idle"}
<1>1. FullRune(b) => RuneSize(b) \in 1..Len(b)
  BY RuneInside
<1>2. Len(b) >= 1
  OBVIOUS
<1> QED
  BY <1>1, <1>2 DEF PlainStage, Sound, Emit, Idle

LEMMA DoubleEscSound ==
  ASSUME NEW r \in DState
  PROVE  Sound(DoubleEscStage(r), Len(r.buf))
BY DEF DoubleEscStage, Sound, Emit, Pass, DState

\* Dropping the first n bytes of a slice.
LEMMA DropType ==
  ASSUME NEW S, NEW s \in Seq(S), NEW n \in 0..Len(s)
  PROVE  Drop(s, n) \in Seq(S) /\ Len(Drop(s, n)) = Len(s) - n
<1>1. \A i \in (n + 1)..Len(s) : s[i] \in S
  OBVIOUS
<1> QED
  BY <1>1, SubSeqProperties DEF Drop

LEMMA LegacyAltSound ==
  ASSUME NEW r \in DState, r.buf # <<>>
  PROVE  Sound(LegacyAltStage(r), Len(r.buf))
<1> DEFINE rest == Drop(r.buf, 1)
<1>1. r.buf \in Seq(Byte) /\ Len(r.buf) \in Nat \ {0}
  BY DEF DState
<1>2. rest \in Seq(Byte) /\ Len(rest) = Len(r.buf) - 1
  <2>1. 1 \in 0..Len(r.buf)
    BY <1>1
  <2> QED
    BY <1>1, <2>1, DropType
<1>3. FullRune(rest) => RuneSize(rest) \in 1..Len(rest)
  BY <1>2, RuneInside
<1> QED
  BY <1>1, <1>2, <1>3 DEF LegacyAltStage, Sound, Emit, Pass

(***************************************************************************)
(* Slices are never cut beyond their end: whatever is in the buffer, an    *)
(* iteration consumes at least one byte and no more than there are, or     *)
(* reads, and it waits for the rest of a sequence only if the buffer is    *)
(* not empty (every r.buf[n:] of ReadEventTimeout).                        *)
(***************************************************************************)
THEOREM DecideSound ==
  ASSUME NEW r \in DState
  PROVE  /\ Sound(Decide(r), Len(r.buf))
         /\ Decide(r).act # "pass"
         /\ Decide(r).act = "wait" => r.buf # <<>>
<1>1. r.buf \in Seq(Byte) /\ Len(r.buf) \in Nat
  BY DEF DState
<1>2. CASE r.buf = <<>>
  BY <1>2 DEF Decide, Idle, Sound
<1>3. CASE r.buf # <<>> /\ r.buf[1] # ESC
  <2>1. Decide(r) = PlainStage(r.buf)
    BY <1>3 DEF Decide
  <2> QED
    BY <1>1, <1>3, <2>1, PlainSound
<1>4. CASE r.buf # <<>> /\ r.buf[1] = ESC
  <2> DEFINE o0 == WithPrefix(Ladder(r), AltOffset(r))
             o2 == Otherwise(LegacyAltStage(r), Wait)
             o1 == Otherwise(DoubleEscStage(r), o2)
             m  == Len(r.buf)
  <2>1. Decide(r) = Otherwise(o0, o1)
    BY <1>4 DEF Decide
  <2>2. Sound(o0, m)
    <3>1. Sound(Ladder(r), Len(ParseBuf(r)))
      BY LadderSound
    <3>2. /\ AltOffset(r) \in {0, 1}
          /\ Len(ParseBuf(r)) = m - AltOffset(r)
      BY ParseBufType
    <3> QED
      BY <1>1, <3>1, <3>2 DEF Sound, WithPrefix
  <2>3. Sound(Wait, m) /\ Wait.act # "pass"
    BY DEF Sound, Wait
  <2>4. Sound(o2, m) /\ o2.act # "pass"
    BY <1>4, <2>3, LegacyAltSound, OtherwiseSound DEF Otherwise
  <2>5. Sound(o1, m) /\ o1.act # "pass"
    BY <2>4, DoubleEscSound, OtherwiseSound DEF Otherwise
  <2>6. Sound(Otherwise(o0, o1), m) /\ Otherwise(o0, o1).act # "pass"
    BY <2>2, <2>5, OtherwiseSound DEF Otherwise
  <2> QED
    BY <1>4, <2>1, <2>6
<1> QED
  BY <1>2, <1>3, <1>4
=============================================================================
