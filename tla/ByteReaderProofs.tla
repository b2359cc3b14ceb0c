--------------------------- MODULE ByteReaderProofs ---------------------------
(***************************************************************************)
(* The state of the Reader is well formed after every step, and a step of  *)
(* the loop that does not read makes its buffers smaller, for every set of *)
(* streams the terminal may send.                                          *)
(***************************************************************************)
EXTENDS ByteReader, VTDecoderProofs

\* The decoding state, field by field.
LEMMA DStateFields ==
  ASSUME NEW s \in DState
  PROVE  /\ s.buf \in Seq(Byte) /\ Len(s.buf) \in Nat
         /\ s.dbl \in Seq(Byte) /\ Len(s.dbl) \in Nat
         /\ s.wrap \in BOOLEAN /\ s.far2l \in BOOLEAN
BY LenProperties DEF DState

\* No bytes at all.
LEMMA NoBytes == <<>> \in Seq(Byte) /\ Len(<<>>) = 0
BY EmptySeq

\* The sum of two lengths shrinks with the first of them.
LEMMA LessSum ==
  ASSUME NEW a \in Nat, NEW b \in Nat, NEW c \in Nat, NEW d \in Nat,
         a < c, b <= d
  PROVE  a + b < c + d
OBVIOUS

\* Giving up a runaway unwrapping only drops what was unwrapped.
LEMMA ResetType ==
  ASSUME NEW s \in DState
  PROVE  /\ Reset(s) \in DState
         /\ Reset(s).buf = s.buf
         /\ Len(Reset(s).dbl) <= Len(s.dbl)
<1>1. [s EXCEPT !.dbl = <<>>, !.wrap = FALSE] \in DState
  BY NoBytes DEF DState
<1>2. Len(s.dbl) \in Nat
  BY DStateFields
<1>3. CASE Runaway(s)
  BY <1>1, <1>2, <1>3, NoBytes DEF Reset, DState
<1>4. CASE ~Runaway(s)
  BY <1>2, <1>4 DEF Reset
<1> QED
  BY <1>3, <1>4

\* A decoding state with another buffer is a decoding state.
LEMMA NewBuf ==
  ASSUME NEW s \in DState, NEW b \in Seq(Byte)
  PROVE  /\ [s EXCEPT !.buf = b] \in DState
         /\ [s EXCEPT !.buf = b].buf = b
         /\ [s EXCEPT !.buf = b].dbl = s.dbl
BY DEF DState

\* What is emitted or skipped leaves the buffer, and it is a byte or more.
LEMMA ConsumedType ==
  ASSUME NEW s \in DState, NEW o,
         o.n \in 1..Len(s.buf)
  PROVE  Consumed(s, o) \in DState /\ Weight(Consumed(s, o)) < Weight(s)
<1> DEFINE b == Drop(s.buf, o.n)
           f == s.far2l \/ (o.act = "emit" /\ o.event.kind = "far2l_ok")
<1>1. s.buf \in Seq(Byte) /\ s.dbl \in Seq(Byte)
  BY DEF DState
<1>2. o.n \in 0..Len(s.buf)
  BY <1>1
<1>3. b \in Seq(Byte) /\ Len(b) = Len(s.buf) - o.n
  BY <1>1, <1>2, DropType
<1>4. f \in BOOLEAN
  BY Zenon
<1>5. Consumed(s, o) = [Reset(s) EXCEPT !.buf = b, !.far2l = f]
  BY DEF Consumed
<1> HIDE DEF b, f
<1>6. /\ Consumed(s, o) \in DState
      /\ Consumed(s, o).buf = b
      /\ Consumed(s, o).dbl = Reset(s).dbl
  BY <1>3, <1>4, <1>5, ResetType DEF DState
<1>7. Len(b) < Len(s.buf) /\ Len(Reset(s).dbl) <= Len(s.dbl)
  BY <1>1, <1>3, ResetType
<1>8. /\ Len(s.buf) \in Nat /\ Len(b) \in Nat
      /\ Len(s.dbl) \in Nat /\ Len(Reset(s).dbl) \in Nat
  BY <1>1, <1>3, ResetType, DStateFields, LenProperties
<1>9. Weight(Consumed(s, o)) = Len(b) + Len(Reset(s).dbl)
  BY <1>6, Zenon DEF Weight
<1>10. Len(b) + Len(Reset(s).dbl) < Len(s.buf) + Len(s.dbl)
  BY <1>7, <1>8, LessSum
<1> QED
  BY <1>6, <1>9, <1>10, Zenon DEF Weight

\* A record that is peeled leaves the buffer; at most one byte comes back.
LEMMA PeeledType ==
  ASSUME NEW s \in DState, NEW o,
         o.n \in 3..Len(s.buf),
         o.byte \in Seq(Byte), Len(o.byte) <= 1
  PROVE  Peeled(s, o) \in DState /\ Weight(Peeled(s, o)) < Weight(s)
<1> DEFINE dbl  == s.dbl \o o.byte
           rest == Drop(s.buf, o.n)
<1>1. s.buf \in Seq(Byte) /\ s.dbl \in Seq(Byte)
  BY DEF DState
<1>2. o.n \in 0..Len(s.buf)
  BY <1>1
<1>3. rest \in Seq(Byte) /\ Len(rest) = Len(s.buf) - o.n
  BY <1>1, <1>2, DropType
<1>4. dbl \in Seq(Byte) /\ Len(dbl) = Len(s.dbl) + Len(o.byte)
  BY <1>1, ConcatProperties
<1>5. dbl \o rest \in Seq(Byte) /\ Len(dbl \o rest) = Len(dbl) + Len(rest)
  BY <1>3, <1>4, ConcatProperties
<1>6. Peeled(s, o) = IF isWinDoubleComplete(dbl)
        THEN [s EXCEPT !.buf = dbl \o rest, !.dbl = <<>>, !.wrap = FALSE]
        ELSE [s EXCEPT !.buf = rest, !.dbl = dbl, !.wrap = TRUE]
  BY DEF Peeled
<1>7. /\ Len(s.buf) \in Nat /\ Len(s.dbl) \in Nat /\ Len(o.byte) \in Nat
      /\ Len(dbl) \in Nat /\ Len(rest) \in Nat
  BY <1>1, <1>3, <1>4, LenProperties
<1> HIDE DEF dbl, rest
<1>10. Len(dbl) + Len(rest) < Len(s.buf) + Len(s.dbl)
  <2>1. \A m, k, n, x \in Nat :
          m \in 3..k /\ x <= 1 => (n + x) + (k - m) < k + n
    OBVIOUS
  <2>2. o.n \in Nat /\ o.n \in 3..Len(s.buf)
    BY <1>2, <1>7
  <2>3. (Len(s.dbl) + Len(o.byte)) + (Len(s.buf) - o.n) < Len(s.buf) + Len(s.dbl)
    BY <1>7, <2>1, <2>2
  <2> QED
    BY <1>3, <1>4, <2>3
<1>8. CASE isWinDoubleComplete(dbl)
  <2>1. /\ Peeled(s, o) \in DState
        /\ Peeled(s, o).buf = dbl \o rest /\ Peeled(s, o).dbl = <<>>
    <3>1. Peeled(s, o) = [s EXCEPT !.buf = dbl \o rest, !.dbl = <<>>, !.wrap = FALSE]
      BY <1>6, <1>8
    <3> QED
      BY <1>5, <3>1, NoBytes DEF DState
  <2>2. Weight(Peeled(s, o)) = Len(dbl) + Len(rest)
    BY <1>5, <1>7, <2>1, NoBytes DEF Weight
  <2> QED
    BY <1>10, <2>1, <2>2 DEF Weight
<1>9. CASE ~isWinDoubleComplete(dbl)
  <2>1. /\ Peeled(s, o) \in DState
        /\ Peeled(s, o).buf = rest /\ Peeled(s, o).dbl = dbl
    <3>1. Peeled(s, o) = [s EXCEPT !.buf = rest, !.dbl = dbl, !.wrap = TRUE]
      BY <1>6, <1>9
    <3> QED
      BY <1>3, <1>4, <3>1 DEF DState
  <2>2. Weight(Peeled(s, o)) = Len(dbl) + Len(rest)
    BY <1>7, <2>1 DEF Weight
  <2> QED
    BY <1>10, <2>1, <2>2 DEF Weight
<1> QED
  BY <1>8, <1>9

(***************************************************************************)
(* The loop of ReadEventTimeout ends: an iteration that finds something in *)
(* the buffers leaves fewer bytes in them, whatever the bytes are.         *)
(***************************************************************************)
THEOREM AfterShrinks ==
  ASSUME NEW s \in DState, ~AtRest(s)
  PROVE  After(s) \in DState /\ Weight(After(s)) < Weight(s)
<1> DEFINE o == Decide(s)
<1>1. Sound(o, Len(s.buf)) /\ o.act \notin {"pass", "wait", "idle"}
  BY DecideSound DEF AtRest
<1> HIDE DEF o
<1>2. CASE o.act = "peel"
  <2>1. o.n \in 3..Len(s.buf) /\ o.byte \in Seq(Byte) /\ Len(o.byte) <= 1
    BY <1>1, <1>2 DEF Sound
  <2>2. After(s) = Peeled(s, o)
    BY <1>2 DEF After, o
  <2> QED
    BY <2>1, <2>2, PeeledType
<1>3. CASE o.act \in {"emit", "skip"}
  <2>1. o.n \in 1..Len(s.buf)
    BY <1>1, <1>3 DEF Sound
  <2>2. After(s) = Consumed(s, o)
    BY <1>3 DEF After, o
  <2> QED
    BY <2>1, <2>2, ConsumedType
<1> QED
  BY <1>1, <1>2, <1>3 DEF Sound

\* The ESC that nothing followed leaves the buffer.
LEMMA TimedOutType ==
  ASSUME NEW s \in DState, Decide(s).act = "wait"
  PROVE  TimedOut(s) \in DState /\ Weight(TimedOut(s)) < Weight(s)
<1>1. s.buf \in Seq(Byte) /\ s.dbl \in Seq(Byte) /\ s.buf # <<>>
  BY DecideSound DEF DState
<1>2. 1 \in 0..Len(s.buf) /\ Len(s.buf) \in Nat
  BY <1>1
<1>3. Drop(s.buf, 1) \in Seq(Byte) /\ Len(Drop(s.buf, 1)) = Len(s.buf) - 1
  BY <1>1, <1>2, DropType
<1>4. /\ TimedOut(s) \in DState
      /\ TimedOut(s).buf = Drop(s.buf, 1)
      /\ TimedOut(s).dbl = Reset(s).dbl
  BY <1>3, ResetType, NewBuf DEF TimedOut
<1>5. /\ Len(Reset(s).dbl) <= Len(s.dbl)
      /\ Len(s.dbl) \in Nat /\ Len(Reset(s).dbl) \in Nat
  BY ResetType, DStateFields
<1>6. Weight(TimedOut(s)) = Len(Drop(s.buf, 1)) + Len(Reset(s).dbl)
  BY <1>4, Zenon DEF Weight
<1>7. Len(Drop(s.buf, 1)) \in Nat /\ Len(Drop(s.buf, 1)) < Len(s.buf)
  BY <1>2, <1>3, LenProperties
<1>8. Len(Drop(s.buf, 1)) + Len(Reset(s).dbl) < Len(s.buf) + Len(s.dbl)
  BY <1>2, <1>5, <1>7, LessSum
<1> QED
  BY <1>4, <1>6, <1>8, Zenon DEF Weight

\* What a read returns is a non-empty prefix of what was sent.
LEMMA ReadType ==
  ASSUME NEW s \in DState, NEW w \in Seq(Byte), NEW n \in 1..Len(w)
  PROVE  /\ SubSeq(w, 1, n) \in Seq(Byte)
         /\ Received(s, SubSeq(w, 1, n)) \in DState
         /\ Drop(w, n) \in Seq(Byte)
<1>1. SubSeq(w, 1, n) \in Seq(Byte)
  BY SubSeqProperties
<1>2. s.buf \o SubSeq(w, 1, n) \in Seq(Byte)
  BY <1>1, ConcatProperties DEF DState
<1>3. Received(s, SubSeq(w, 1, n)) \in DState
  BY <1>2, ResetType, NewBuf DEF Received
<1>4. n \in 0..Len(w)
  OBVIOUS
<1>5. Drop(w, n) \in Seq(Byte)
  BY <1>4, DropType
<1> QED
  BY <1>1, <1>3, <1>5

-----------------------------------------------------------------------------
\* A step that records history in a typed state keeps the history typed.
LEMMA RecordType ==
  ASSUME NEW s \in DState, NEW new, NEW ok \in BOOLEAN,
         TypeOK, Record(s, new, ok)
  PROVE  got' \in Seq(Byte) /\ origin' \in DState /\ clean' \in BOOLEAN
<1>1. got \in Seq(Byte) /\ origin \in DState
  BY DEF TypeOK, DState
<1>2. CASE Fresh(s) /\ ~ok
  BY <1>2 DEF Record
<1>3. CASE ~(Fresh(s) /\ ~ok)
  BY <1>1, <1>3 DEF Record
<1> QED
  BY <1>2, <1>3

\* The decoding state stays well formed.
LEMMA StepSound ==
  ASSUME TypeOK, [Next]_vars
  PROVE  TypeOK'
<1>1. /\ wire \in Seq(Byte) /\ r \in DState /\ got \in Seq(Byte)
      /\ origin \in DState
      /\ hangup \in BOOLEAN /\ ended \in BOOLEAN /\ clean \in BOOLEAN
  BY DEF TypeOK, DState
<1>2. CASE Iterate
  <2>1. r' = After(r) /\ r' \in DState
    BY <1>1, <1>2, AfterShrinks DEF Iterate
  <2>2. (clean /\ ~TooEarly) \in BOOLEAN
    BY Zenon
  <2>3. Record(r', Returned(r), clean /\ ~TooEarly)
    BY <1>2 DEF Iterate
  <2>4. got' \in Seq(Byte) /\ origin' \in DState /\ clean' \in BOOLEAN
    BY <2>1, <2>2, <2>3, RecordType
  <2> QED
    BY <1>1, <1>2, <2>1, <2>4 DEF Iterate, TypeOK, DState
<1>3. CASE Read
  <2>1. PICK n \in 1..Len(wire) :
          /\ r' = Received(r, SubSeq(wire, 1, n))
          /\ wire' = Drop(wire, n)
          /\ got' = got \o SubSeq(wire, 1, n)
    BY <1>3 DEF Read
  <2>2. /\ r' \in DState /\ wire' \in Seq(Byte)
        /\ SubSeq(wire, 1, n) \in Seq(Byte)
    BY <1>1, <2>1, ReadType
  <2>3. got' \in Seq(Byte)
    BY <1>1, <2>1, <2>2, ConcatProperties
  <2>4. (clean /\ ~Runaway(r)) \in BOOLEAN
    BY Zenon
  <2>5. clean' \in BOOLEAN
    BY <1>3, <2>4 DEF Read
  <2> QED
    BY <1>1, <1>3, <2>2, <2>3, <2>5 DEF Read, TypeOK, DState
<1>4. CASE EscTimeout
  <2>1. r' \in DState
    BY <1>1, <1>4, TimedOutType DEF EscTimeout
  <2>2. Record(r', <<EscapeKey>>, FALSE)
    BY <1>4 DEF EscTimeout
  <2>3. got' \in Seq(Byte) /\ origin' \in DState /\ clean' \in BOOLEAN
    BY <2>1, <2>2, RecordType
  <2> QED
    BY <1>1, <1>4, <2>1, <2>3 DEF EscTimeout, TypeOK, DState
<1>5. CASE HangUp
  BY <1>1, <1>5 DEF HangUp, TypeOK, DState
<1>6. CASE ReadEOF
  BY <1>1, <1>6 DEF ReadEOF, TypeOK, DState
<1>7. CASE Done \/ UNCHANGED vars
  BY <1>1, <1>7 DEF Done, vars, TypeOK, DState
<1> QED
  BY <1>2, <1>3, <1>4, <1>5, <1>6, <1>7 DEF Next

\* The bytes the reader keeps are bytes and its flags are flags, whatever the
\* terminal sends and however the reads cut it.
THEOREM TypeCorrect == Spec => []TypeOK
<1>1. Init => TypeOK
  <2>1. Start \in DState
    BY NoBytes DEF Start, DState
  <2> QED
    BY <2>1, NoBytes, StreamsAssumption DEF Init, TypeOK, DState
<1>2. TypeOK /\ [Next]_vars => TypeOK'
  BY StepSound
<1> QED
  BY <1>1, <1>2, PTL DEF Spec

(***************************************************************************)
(* ReadEvent never loops on bytes it already has: in every state it        *)
(* reaches, an iteration that does not read takes bytes out of r.buf and   *)
(* winDoubleBuf together, although the unwrapping puts some back, and so   *)
(* does the end of the wait.                                               *)
(***************************************************************************)
THEOREM LoopAlwaysShrinks == Spec => []LoopShrinks
<1>1. TypeOK => LoopShrinks
  <2>1. TypeOK => r \in DState
    BY DEF TypeOK, DState
  <2> QED
    BY <2>1, AfterShrinks, TimedOutType DEF LoopShrinks
<1> QED
  BY <1>1, TypeCorrect, PTL

\* No iteration cuts r.buf beyond its end, for every set of streams and every
\* way to read them: none of the slices of ReadEventTimeout panics.
THEOREM SlicesStayInside == Spec => []SlicesInside
<1>1. ASSUME TypeOK, ~AtRest(r)
      PROVE  Decide(r).n \in 1..Len(r.buf)
  <2>1. r \in DState
    BY <1>1 DEF TypeOK, DState
  <2> DEFINE o == Decide(r)
  <2>2. Sound(o, Len(r.buf)) /\ o.act \notin {"pass", "wait", "idle"}
    BY <1>1, <2>1, DecideSound DEF AtRest
  <2>3. Len(r.buf) \in Nat
    BY <2>1, DStateFields
  <2> HIDE DEF o
  <2>4. o.n \in 1..Len(r.buf)
    BY <2>2, <2>3 DEF Sound
  <2> QED
    BY <2>4 DEF o
<1>2. TypeOK => SlicesInside
  BY <1>1 DEF SlicesInside
<1> QED
  BY <1>2, TypeCorrect, PTL
=============================================================================
