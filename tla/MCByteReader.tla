---------------------------- MODULE MCByteReader ----------------------------
(***************************************************************************)
(* Streams for ByteReader: what terminals send, as byte sequences.         *)
(***************************************************************************)
EXTENDS ByteReader

CSI == <<ESC, LBR>>

\* Keys
CharA     == <<97>>
EAcute    == <<195, 169>>
Broken    == <<195, 40>>                               \* no UTF-8
Equals    == <<EQ, SPACE>>
Backspace == <<DEL>>
AltEsc    == <<ESC, ESC>>
AltA      == <<ESC, 97>>
AltEAcute == <<ESC, 195, 169>>
Up        == CSI \o <<65>>
AltUp     == <<ESC>> \o CSI \o <<65>>
Delete    == CSI \o <<51, SEMI, 50, TILDE>>            \* ESC [ 3 ; 2 ~
F1        == <<ESC, CapO, 80>>
VteF1     == CSI \o <<CapO, 53, 80>>                   \* ESC [ O 5 P
KittyA    == CSI \o <<57, 55, 117>>                    \* ESC [ 97 u
Win32A    == CSI \o <<54, 53, SEMI, SEMI, 57, 55, SEMI, 49, UND>>

\* Reports
FocusIn   == CSI \o <<CapI>>
FocusOut  == CSI \o <<CapO>>
PasteOn   == CSI \o <<50, 48, 48, TILDE>>
SGR       == CSI \o <<LT, 48, SEMI, 49, SEMI, 50, CapM>>
AltSGR    == <<ESC>> \o SGR
X10       == CSI \o <<CapM, 32, 33, 34>>
URXVT     == CSI \o <<51, 50, SEMI, 49, SEMI, 50, CapM>>
DSR       == CSI \o <<48, 110>>
DA        == CSI \o <<QM, 54, 99>>
Far2lOk   == <<ESC, UND>> \o FAR2L \o OK \o <<BEL>>
Far2lKey  == <<ESC, UND>> \o F2L \o <<65, 65, ESC, BSL>>
Unknown   == CSI \o <<57, 120>>                        \* ESC [ 9 x
Malformed == CSI \o <<49, 1>>

Tokens ==
  {CharA, EAcute, Broken, Equals, Backspace, AltEsc, AltA, AltEAcute, Up, AltUp,
   Delete, F1, VteF1, KittyA, Win32A, FocusIn, FocusOut, PasteOn, SGR, AltSGR,
   X10, URXVT, DSR, DA, Far2lOk, Far2lKey, Unknown, Malformed}

\* Numbers and key records as win32 input mode sends them.
Decimal(n) ==
  (IF n >= 100 THEN <<48 + (n \div 100)>> ELSE <<>>)
    \o (IF n >= 10 THEN <<48 + ((n \div 10) % 10)>> ELSE <<>>) \o <<48 + (n % 10)>>

WinRecord(vk, char, down) ==
  CSI \o Decimal(vk) \o <<SEMI, 48, SEMI>> \o Decimal(char)
    \o <<SEMI, 48 + down, SEMI, 48, SEMI, 49, UND>>

\* A win32 key record per byte, as wezterm sends its mouse reports: the first
\* in full, as its signature asks, the others (for fewer cuts) without the
\* fields that have their default value.
Wrapped(s) ==
  WinRecord(0, s[1], 1)
    \o FlattenSeq([i \in 1..(Len(s) - 1) |->
                     CSI \o <<SEMI, SEMI>> \o Decimal(s[i + 1]) \o <<SEMI, 49, UND>>])

\* A mouse report in its wrapping, with the key that follows it.
WrappedSGR == Wrapped(SGR)

\* ESC [ A in its wrapping, one record with so many leading zeros that a read
\* may deliver 32 bytes of it and not its end.
LongRecord ==
  CSI \o <<48, SEMI, 48, SEMI>> \o [i \in 1..27 |-> 48] \o <<57, 49, SEMI, 49, SEMI, 48, SEMI, 49, UND>>

WrappedLong == WinRecord(0, ESC, 1) \o LongRecord \o WinRecord(0, 65, 1)

\* A character typed with no virtual key: d with caron, U+010F.
TypedCaron == WinRecord(0, 271, 1)

\* Every two tokens in a row, the wrapped report, and the typed character.
TokenStreams ==
  {t \o u : t \in Tokens, u \in Tokens}
    \union {WrappedSGR \o CharA, WrappedLong \o CharA, TypedCaron \o CharA}

\* Every sequence of at most four of ESC [ O A and the first bytes of two
\* characters: mostly what no terminal sends.
RawStreams == BoundedSeq({ESC, LBR, CapO, 65, 195, 226}, 4)

AllStreams == TokenStreams \union RawStreams

\* One byte of a character, and then the input ends.
CutStreams == {<<195>>}

\* Keys typed in win32 input mode, and the wrapped report.
TypedStreams == {TypedCaron, WinRecord(65, 97, 1), WrappedSGR}

\* A mouse report that wezterm has wrapped byte by byte into key records
\* decodes to the event of the plain report, wherever the reads cut it, and
\* leaves nothing behind that would affect later keys (win_double_unwrap.go,
\* ReadEventTimeout stage 0).
UnwrapTransparent ==
  clean /\ AtRest(r) /\ got = WrappedSGR =>
    /\ evs = Decode(Start, SGR).evs
    /\ r = Start

=============================================================================
