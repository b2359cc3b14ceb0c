----------------------------- MODULE Far2lStack ------------------------------
(***************************************************************************)
(* The stack of bytes in which far2l packs an event: values are pushed     *)
(* with their lowest byte first, and popped from the end.  A pop returns   *)
(* the value and the stack that is left.                                   *)
(***************************************************************************)
EXTENDS Integers, Sequences

Byte == 0..255

Popped(v, s) == [value |-> v, rest |-> s]

Last(s, n)    == SubSeq(s, Len(s) - n + 1, Len(s))
AllBut(s, n)  == SubSeq(s, 1, Len(s) - n)

Uint16(b) == b[1] + 256 * b[2]
Uint32(b) == b[1] + 256 * b[2] + 65536 * (b[3] + 256 * b[4])

Bytes16(v) == <<v % 256, v \div 256>>
Bytes32(v) ==
  LET low == v % 65536  high == v \div 65536
  IN  <<low % 256, low \div 256, high % 256, high \div 256>>

\* A pop from a stack that is too short returns 0 and takes nothing.
PopU8(s) ==
  IF Len(s) < 1 THEN Popped(0, s) ELSE Popped(Last(s, 1)[1], AllBut(s, 1))

PopU16(s) ==
  IF Len(s) < 2 THEN Popped(0, s) ELSE Popped(Uint16(Last(s, 2)), AllBut(s, 2))

PopU32(s) ==
  IF Len(s) < 4 THEN Popped(0, s) ELSE Popped(Uint32(Last(s, 4)), AllBut(s, 4))

PopBytes(s, n) ==
  IF Len(s) < n THEN Popped(<<>>, s) ELSE Popped(Last(s, n), AllBut(s, n))

\* The length comes off first, and stays off when the bytes are missing.
NoString == 65536 * 65536 - 1

PopString(s) ==
  LET n == PopU32(s)
  IN  IF n.value \in {0, NoString} THEN Popped(<<>>, n.rest) ELSE PopBytes(n.rest, n.value)

PushU8(s, v)       == Append(s, v)
PushU16(s, v)      == s \o Bytes16(v)
PushU32(s, v)      == s \o Bytes32(v)
PushBytes(s, b)    == s \o b
PushString(s, str) == PushU32(PushBytes(s, str), Len(str))
=============================================================================
