----------------------------- MODULE VTDecoder -----------------------------
(***************************************************************************)
(* One iteration of the loop in Reader.ReadEventTimeout, as a function of  *)
(* the Reader's decoding state:                                            *)
(*                                                                         *)
(*   r.buf    the bytes read and not consumed yet          (r.buf)         *)
(*   r.dbl    bytes unwrapped from win32 key records       (winDoubleBuf)  *)
(*   r.wrap   the unwrapping has started                   (winWrapping)   *)
(*   r.far2l  a far2l "ok" was seen              (far2lExtensionsEnabled)  *)
(*                                                                         *)
(* Decide(r) is what the iteration does with the buffer as it stands:      *)
(*   emit  return an event made from the first n bytes                     *)
(*   skip  drop the first n bytes and go round the loop                    *)
(*   peel  move one byte out of a win32 record of n bytes into dbl         *)
(*   wait  the buffer starts with ESC and its sequence is incomplete       *)
(*   idle  nothing to decode: empty, or the start of a UTF-8 character     *)
(* Every stage of the code's ladder is an operator of its own that decides *)
(* or passes to the next one.                                              *)
(*                                                                         *)
(* An event is abstracted to its kind, whether the Alt of an ESC prefix    *)
(* was added to it, and the bytes it was parsed from: every other field is *)
(* a function of those.                                                    *)
(***************************************************************************)
EXTENDS VTBytes, SequencesExt

Pass          == [act |-> "pass"]
Wait          == [act |-> "wait"]
Idle          == [act |-> "idle"]
Skip(n)       == [act |-> "skip", n |-> n]
Peel(n, byte) == [act |-> "peel", n |-> n, byte |-> byte]
Event(kind, alt, text) == [kind |-> kind, alt |-> alt, text |-> text]
Emit(n, event) == [act |-> "emit", n |-> n, event |-> event]

Otherwise(first, second) == IF first.act = "pass" THEN second ELSE first

(***************************************************************************)
(* ESC ESC followed by [ O < or _ is a sequence with an Alt prefix: the    *)
(* ladder looks at the buffer from its second ESC on.                      *)
(***************************************************************************)
AltOffset(r) ==
  IF /\ Len(r.buf) >= 3
     /\ r.buf[1] = ESC /\ r.buf[2] = ESC
     /\ r.buf[3] \in {LBR, CapO, LT, UND}
  THEN 1 ELSE 0

ParseBuf(r) == SubSeq(r.buf, 1 + AltOffset(r), Len(r.buf))

-----------------------------------------------------------------------------
(***************************************************************************)
(* Stage 0: unwrapping of win32 key records that each carry one byte of a  *)
(* mouse sequence (win_double_unwrap.go).                                  *)
(***************************************************************************)
WrappedStart == <<ESC, LBR, 48, SEMI, 48, SEMI, 50, 55>>

isWinWrappedStart(d) == IsPrefix(WrappedStart, d)

\* The length of the record at the front of d, 0 if there is none: digits
\* and at most five ';' up to the first '_'.
RecordEnd(d) ==
  LET stops == {i \in 3..Len(d) : d[i] \notin Digits \union {SEMI}} IN
  IF \/ Len(d) < 3 \/ d[1] # ESC \/ d[2] # LBR \/ stops = {} THEN 0
  ELSE IF d[First(stops)] = UND /\ Count(d, SEMI, 3, First(stops)) <= 5
       THEN First(stops)
       ELSE 0

\* The byte the record contributes to dbl: field 3 (Uc) if it is positive
\* and field 4 (Kd) is 1, else nothing.
RecordByte(d) ==
  LET Field(k) == FieldValue(d, k, 3, RecordEnd(d) - 1) IN
  IF Field(3) > 0 /\ Field(4) = 1 THEN <<LowByte(Field(3))>> ELSE <<>>

\* 32 bytes without a record: the workaround gives up.
RunawayLen == 32

Unwrapping(r) == isWinWrappedStart(ParseBuf(r)) \/ r.wrap

UnwrapStage(r) ==
  LET d == ParseBuf(r) IN
  IF ~Unwrapping(r) THEN Pass
  ELSE IF RecordEnd(d) > 0 THEN Peel(RecordEnd(d), RecordByte(d))
  ELSE IF Len(d) < RunawayLen THEN Wait
  ELSE Pass

\* A runaway accumulation resets the unwrapping before the other stages run.
Runaway(r) ==
  /\ r.buf # <<>> /\ r.buf[1] = ESC
  /\ Unwrapping(r)
  /\ RecordEnd(ParseBuf(r)) = 0
  /\ Len(ParseBuf(r)) >= RunawayLen

Reset(r) ==
  IF Runaway(r) THEN [r EXCEPT !.dbl = <<>>, !.wrap = FALSE] ELSE r

isWinDoubleComplete(b) ==
  Len(b) >= 3 /\ b[1] = ESC /\ b[Len(b)] \in Final

-----------------------------------------------------------------------------
(***************************************************************************)
(* Stages 1 to 7, on d = ParseBuf(r).  alt is "altOffset > 0".             *)
(***************************************************************************)
IsCSI(d) == Len(d) > 1 /\ d[2] = LBR

\* The bytes that make ESC [ O a function key sent by a broken VTE.
BrokenSS3 == Digits \union {80, 81, 82, 83}

FocusStage(d) ==
  IF /\ Len(d) >= 3 /\ IsCSI(d) /\ d[3] \in {CapI, CapO}
     /\ ~(d[3] = CapO /\ Len(d) > 3 /\ d[4] \in BrokenSS3)
  THEN Emit(3, Event("focus", FALSE, SubSeq(d, 1, 3)))
  ELSE Pass

DSRStage(d) ==
  LET s == ScanCSI(d) IN
  IF ~(Len(d) > 2 /\ IsCSI(d)) THEN Pass
  ELSE IF s.st = "incomplete" THEN Wait
  ELSE IF s.st = "ok" /\ d[s.end] = 110 THEN Skip(s.end)
  ELSE Pass

F2L   == <<102, 50, 108>>
FAR2L == <<102, 97, 114, 50, 108>>
OK    == <<111, 107>>
Drop(s, n) == SubSeq(s, n + 1, Len(s))
DropColon(s) == IF s # <<>> /\ s[1] = COLON THEN Drop(s, 1) ELSE s

\* base64.StdEncoding.DecodeString after padding to a multiple of four
\* succeeds: an alphabet prefix, then '=' only, at most two once padded.
Base64Alphabet == Digits \union 65..90 \union 97..122 \union {Plus, 47}

Base64Valid(s) ==
  LET plain  == {i \in 1..Len(s) : s[i] # EQ}
      padded == 4 * ((Len(s) + 3) \div 4)
  IN  /\ plain = 1..Cardinality(plain)
      /\ \A i \in plain : s[i] \in Base64Alphabet
      /\ padded - Cardinality(plain) <= 2

\* The event of an APC payload p, or <<>> for none.
ParseFar2lAPC(p) ==
  LET content == Drop(p, 5)
      data    == DropColon(Drop(p, IF IsPrefix(F2L, p) THEN 3 ELSE 5))
      kind    == CASE IsPrefix(F2L, p)                  -> "far2l_event"
                   [] ~IsPrefix(F2L, p) /\ content # data -> "far2l_interact"
                   [] OTHER                             -> "far2l_reply"
      One(k)  == <<Event(k, FALSE, p)>>
  IN  CASE p = FAR2L                -> <<>>
        [] p = FAR2L \o <<49>>      -> One("far2l_enable")
        [] p = FAR2L \o <<48>>      -> One("far2l_disable")
        [] p = FAR2L \o OK          -> One("far2l_ok")
        [] OTHER -> IF (IsPrefix(F2L, p) \/ IsPrefix(FAR2L, p)) /\ Base64Valid(data)
                    THEN One(kind) ELSE <<>>

\* The payload of an APC string of n bytes, without its terminator.
APCPayload(d, n) == SubSeq(d, 3, n - IF d[n] = BSL THEN 2 ELSE 1)

APCStage(d) ==
  LET s  == ScanAPC(d)
      ev == ParseFar2lAPC(APCPayload(d, s.end))
  IN  IF ~(Len(d) > 1 /\ d[2] = UND) THEN Pass
      ELSE IF s.st = "incomplete" THEN Wait
      ELSE IF s.st = "invalid" THEN Pass
      ELSE IF ev = <<>> THEN Skip(s.end) ELSE Emit(s.end, ev[1])

PasteStage(d) ==
  IF /\ Len(d) >= 6 /\ IsCSI(d)
     /\ d[3] = 50 /\ d[4] = 48 /\ d[5] \in {48, 49} /\ d[6] = TILDE
  THEN Emit(6, Event("paste", FALSE, SubSeq(d, 1, 6)))
  ELSE Pass

\* Three parameters or more; any final byte will do.
ParseMouseSGR(d, end) == Count(d, SEMI, 4, end) >= 2

SGRStage(d, alt) ==
  LET s == ScanCSI(d) IN
  IF ~(Len(d) > 3 /\ IsCSI(d) /\ d[3] = LT) THEN Pass
  ELSE IF s.st = "incomplete" THEN Wait
  ELSE IF s.st = "ok" /\ ParseMouseSGR(d, s.end)
  THEN Emit(s.end, Event("sgr_mouse", alt, SubSeq(d, 1, s.end)))
  ELSE Pass

\* Three bytes of any value after ESC [ M.
ParseMouseLegacy(d) ==
  [st |-> IF Len(d) < 6 THEN "incomplete" ELSE "ok", end |-> 6]

X10Stage(d, alt) ==
  LET s == ParseMouseLegacy(d) IN
  IF ~(Len(d) >= 3 /\ IsCSI(d) /\ d[3] = CapM) THEN Pass
  ELSE IF s.st = "incomplete" THEN Wait
  ELSE Emit(s.end, Event("legacy_mouse", alt, SubSeq(d, 1, s.end)))

\* Three parameters.
ParseMouseURXVT(d, end) == Count(d, SEMI, 3, end) = 2

URXVTStage(d, alt) ==
  LET s == ScanCSI(d) IN
  IF ~(Len(d) > 3 /\ IsCSI(d)) THEN Pass
  ELSE IF s.st = "incomplete" THEN Wait
  ELSE IF s.st = "ok" /\ d[s.end] = CapM /\ s.end > 3 /\ ParseMouseURXVT(d, s.end)
  THEN Emit(s.end, Event("urxvt_mouse", alt, SubSeq(d, 1, s.end)))
  ELSE Pass

\* P Q R S H F A B C D
SS3Keys == {80, 81, 82, 83, 72, 70, 65, 66, 67, 68}

\* ESC O key, ESC O digit key, and both with ESC [ O.
ParseLegacySS3(d) ==
  LET head == IF Len(d) > 2 /\ d[2] = LBR /\ d[3] = CapO THEN 3 ELSE 2
      key  == head + IF Len(d) > head /\ d[head + 1] \in Digits THEN 2 ELSE 1
  IN  IF Len(d) < key THEN [st |-> "incomplete", end |-> 0]
      ELSE [st |-> IF d[key] \in SS3Keys THEN "ok" ELSE "invalid", end |-> key]

SS3Stage(d, alt) ==
  LET s == ParseLegacySS3(d) IN
  IF ~(\/ Len(d) > 1 /\ d[2] = CapO
       \/ Len(d) > 2 /\ IsCSI(d) /\ d[3] = CapO) THEN Pass
  ELSE IF s.st = "incomplete" THEN Wait
  ELSE IF s.st = "ok" THEN Emit(s.end, Event("legacy_ss3", alt, SubSeq(d, 1, s.end)))
  ELSE Pass

\* ESC [ ? ... c
DAStage(d) ==
  LET s == ScanCSI(d) IN
  IF ~(Len(d) > 2 /\ IsCSI(d) /\ d[3] = QM) THEN Pass
  ELSE IF s.st = "incomplete" THEN Wait
  ELSE IF s.st = "ok" /\ d[s.end] = 99 THEN Skip(s.end)
  ELSE Pass

\* A B C D H F P Q R S Z
LegacyFinals == {65, 66, 67, 68, 72, 70, 80, 81, 82, 83, 90}
TildeCodes   == (1..8) \union (11..15) \union (17..21) \union {23, 24}

\* strconv.Atoi of the first field of d[3..end-1] is a key of mapTildeToVK:
\* a sign '+' is accepted, any other non-digit makes it the default 0.
TildeKey(d, end) ==
  LET b  == FieldBounds(d, 1, 3, end - 1)
      lo == IF b[1] <= b[2] /\ d[b[1]] = Plus THEN b[1] + 1 ELSE b[1]
  IN  /\ lo <= b[2]
      /\ \A i \in lo..b[2] : d[i] \in Digits
      /\ Number(d, lo, b[2]) \in TildeCodes

\* Whether the sequence d[1..end] is a legacy key.
ParseLegacyCSI(d, end) ==
  /\ \A i \in 3..(end - 1) : d[i] \notin {COLON, LT, GT}
  /\ IF d[end] = TILDE THEN TildeKey(d, end) ELSE d[end] \in LegacyFinals

\* u ~ A B C D E F H P Q R S
KittyFinals == {117, TILDE} \union (65..70) \union {72} \union (80..83)

\* Whether d[1..end] is a Kitty key: digits, at most one ';' and at most two
\* ':' on either side of it.
ParseKitty(d, end) ==
  LET semis == {i \in 3..(end - 1) : d[i] = SEMI}
      mid   == IF semis = {} THEN end ELSE First(semis)
  IN  /\ d[end] \in KittyFinals
      /\ \A i \in 3..(end - 1) : d[i] \in Digits \union {SEMI, COLON}
      /\ Cardinality(semis) <= 1
      /\ Count(d, COLON, 3, mid) <= 2 /\ Count(d, COLON, mid, end) <= 2

\* Any sequence with the final byte '_': missing fields are zero.
ParseWin32InputEvent(d, end) == d[end] = UND

\* Legacy keys, then win32 records, then Kitty; with far2l's extensions on,
\* legacy keys are dropped; a sequence nobody knows is dropped.
CSIStage(d, alt, far2l) ==
  LET s == ScanCSI(d)
      Key(kind) == Emit(s.end, Event(kind, alt, SubSeq(d, 1, s.end)))
  IN  IF ~IsCSI(d) \/ s.st = "invalid" THEN Pass
      ELSE IF s.st = "incomplete" THEN Wait
      ELSE IF ParseLegacyCSI(d, s.end)
           THEN IF far2l THEN Skip(s.end) ELSE Key("legacy_csi")
      ELSE IF ParseWin32InputEvent(d, s.end) THEN Key("win32")
      ELSE IF ParseKitty(d, s.end) THEN Key("kitty")
      ELSE Skip(s.end)

Ladder(r) ==
  LET d   == ParseBuf(r)
      alt == AltOffset(r) = 1
  IN  Otherwise(UnwrapStage(r),
      Otherwise(FocusStage(d),
      Otherwise(DSRStage(d),
      Otherwise(APCStage(d),
      Otherwise(PasteStage(d),
      Otherwise(SGRStage(d, alt),
      Otherwise(X10Stage(d, alt),
      Otherwise(URXVTStage(d, alt),
      Otherwise(SS3Stage(d, alt),
      Otherwise(DAStage(d),
                CSIStage(d, alt, r.far2l)))))))))))

-----------------------------------------------------------------------------
(***************************************************************************)
(* Stages 8 and 9, on the whole buffer, and the plain characters.          *)
(***************************************************************************)
DoubleEscStage(r) ==
  IF Len(r.buf) >= 2 /\ r.buf[2] = ESC /\ AltOffset(r) = 0
  THEN Emit(2, Event("escape", FALSE, <<ESC>>))
  ELSE Pass

LegacyAltStage(r) ==
  LET rest == Drop(r.buf, 1) IN
  IF FullRune(rest)
  THEN Emit(1 + RuneSize(rest),
            Event("legacy_alt", TRUE, SubSeq(rest, 1, RuneSize(rest))))
  ELSE Pass

\* 0x7F, a complete rune, or nothing yet.  far2l sends a space after '=',
\* which goes with it if it is in the buffer already.
PlainStage(b) ==
  LET size  == RuneSize(b)
      extra == IF b[1] = EQ /\ Len(b) > size /\ b[size + 1] = SPACE THEN 1 ELSE 0
  IN  IF b[1] = DEL THEN Emit(1, Event("back", FALSE, <<DEL>>))
      ELSE IF FullRune(b)
      THEN Emit(size + extra, Event("char", FALSE, SubSeq(b, 1, size)))
      ELSE Idle

\* Mutant: the prefix is counted twice.
WithPrefixTwice(o, offset) ==
  IF o.act \in {"emit", "skip", "peel"} THEN [o EXCEPT !.n = @ + 2 * offset] ELSE o

\* The ladder counts in ParseBuf; the Alt prefix is consumed with it.
WithPrefix(o, offset) ==
  IF o.act \in {"emit", "skip", "peel"} THEN [o EXCEPT !.n = @ + offset] ELSE o

Decide(r) ==
  IF r.buf = <<>> THEN Idle
  ELSE IF r.buf[1] # ESC THEN PlainStage(r.buf)
  ELSE Otherwise(WithPrefix(Ladder(r), AltOffset(r)),
       Otherwise(DoubleEscStage(r),
       Otherwise(LegacyAltStage(r),
                 Wait)))

-----------------------------------------------------------------------------
(***************************************************************************)
(* The decoding state after one iteration that did not read.               *)
(***************************************************************************)
Start == [buf |-> <<>>, dbl |-> <<>>, wrap |-> FALSE, far2l |-> FALSE]

\* Mutant: the unwrapping does not stop.
PeeledKeepsWrapping(r, o) ==
  LET dbl  == r.dbl \o o.byte
      rest == Drop(r.buf, o.n)
  IN  IF isWinDoubleComplete(dbl)
      THEN [r EXCEPT !.buf = dbl \o rest, !.dbl = <<>>, !.wrap = TRUE]
      ELSE [r EXCEPT !.buf = rest, !.dbl = dbl, !.wrap = TRUE]

\* A record is peeled: once the unwrapped bytes form an escape sequence they
\* go back to the front of the buffer.
Peeled(r, o) ==
  LET dbl  == r.dbl \o o.byte
      rest == Drop(r.buf, o.n)
  IN  IF isWinDoubleComplete(dbl)
      THEN [r EXCEPT !.buf = dbl \o rest, !.dbl = <<>>, !.wrap = FALSE]
      ELSE [r EXCEPT !.buf = rest, !.dbl = dbl, !.wrap = TRUE]

\* Mutant: what is skipped is not taken out of the buffer.
ConsumedKeepsSkipped(r, o) ==
  [Reset(r) EXCEPT
     !.buf   = IF o.act = "skip" THEN r.buf ELSE Drop(r.buf, o.n),
     !.far2l = r.far2l \/ (o.act = "emit" /\ o.event.kind = "far2l_ok")]

Consumed(r, o) ==
  [Reset(r) EXCEPT
     !.buf   = Drop(r.buf, o.n),
     !.far2l = r.far2l \/ (o.act = "emit" /\ o.event.kind = "far2l_ok")]

After(r) ==
  LET o == Decide(r) IN
  IF o.act = "peel" THEN Peeled(r, o)
  ELSE IF o.act \in {"emit", "skip"} THEN Consumed(r, o)
  ELSE Reset(r)

\* The events the iteration returns: one or none.
Returned(r) ==
  LET o == Decide(r) IN IF o.act = "emit" THEN <<o.event>> ELSE <<>>

AtRest(r) == Decide(r).act \in {"wait", "idle"}

\* ESC pressed alone: the sequence did not complete in time.
EscapeKey == Event("escape_timeout", FALSE, <<ESC>>)

TimedOut(r) == [Reset(r) EXCEPT !.buf = Drop(r.buf, 1)]

Received(r, bytes) == [Reset(r) EXCEPT !.buf = r.buf \o bytes]

=============================================================================
