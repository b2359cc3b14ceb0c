------------------------------ MODULE VTBytes ------------------------------
(***************************************************************************)
(* Bytes, and what the parsers of vtinput ask of a slice of them.          *)
(*                                                                         *)
(* A []byte is a sequence of Byte, indexed from 1.  The code's index i of  *)
(* the last byte of an escape sequence is therefore i + 1 here, which is   *)
(* the number of bytes the code consumes for it ("terminatorIdx + 1").     *)
(***************************************************************************)
EXTENDS Integers, Sequences, FiniteSets

Byte == 0..255

NUL == 0          BEL == 7          ESC == 27         SPACE == 32
Plus == 43        SEMI == 59        COLON == 58       LT == 60
EQ == 61          GT == 62          QM == 63          LBR == 91
BSL == 92         UND == 95         TILDE == 126      DEL == 127
CapI == 73        CapM == 77        CapO == 79

Digits == 48..57
Param  == 32..63      \* what scanCSI lets pass between ESC [ and the final byte
Final  == 64..126     \* what scanCSI takes for the final byte

\* The first element of a set of indices.
First(S) == CHOOSE i \in S : \A j \in S : i <= j

\* How often byte b occurs in d[lo..hi].
Count(d, b, lo, hi) == Cardinality({i \in lo..hi : d[i] = b})

\* The value of the decimal digits d[lo..hi], 0 when there are none.
Number(d, lo, hi) ==
  LET value[i \in (lo - 1)..hi] ==
        IF i < lo THEN 0 ELSE 10 * value[i - 1] + (d[i] - 48)
  IN  value[hi]

\* Where the k-th of the fields that ';' separates in d[lo..hi] starts and
\* ends; an empty interval when there are fewer fields.
FieldBounds(d, k, lo, hi) ==
  LET at(i) == lo <= i /\ i <= hi /\ d[i] # SEMI /\ Count(d, SEMI, lo, i) = k - 1
      field == {i \in lo..hi : at(i)}
  IN  IF field = {} THEN <<lo, lo - 1>>
      ELSE <<First(field), First(field) + Cardinality(field) - 1>>

FieldValue(d, k, lo, hi) ==
  LET b == FieldBounds(d, k, lo, hi) IN Number(d, b[1], b[2])

\* byte(n): the low eight bits of an int.
LowByteUncut(n) == n                    \* mutant: no truncation
LowByte(n) == IF n \in Nat THEN n % 256 ELSE 0

(***************************************************************************)
(* utf8.FullRune and the size utf8.DecodeRune reports.  RuneNeed is the    *)
(* length the first byte announces, SecondOK the range Go accepts for the  *)
(* second byte.  A prefix that can no longer become a rune is full: it     *)
(* decodes as RuneError of size 1.                                         *)
(***************************************************************************)
Continuation == 128..191

RuneNeed(b) ==
  IF b \in 194..223 THEN 2
  ELSE IF b \in 224..239 THEN 3
  ELSE IF b \in 240..244 THEN 4
  ELSE 1

SecondOK(b) ==
  CASE b = 224 -> 160..191
    [] b = 237 -> 128..159
    [] b = 240 -> 144..191
    [] b = 244 -> 128..143
    [] OTHER   -> Continuation

\* The bytes of d after the first that a rune starting at d[1] may have.
Accepts(d, i) == d[i] \in IF i = 2 THEN SecondOK(d[1]) ELSE Continuation

ValidSoFar(d) == \A i \in 2..RuneNeed(d[1]) : i <= Len(d) => Accepts(d, i)

FullRune(d) == d # <<>> /\ (Len(d) >= RuneNeed(d[1]) \/ ~ValidSoFar(d))

RuneSize(d) == IF ValidSoFar(d) THEN RuneNeed(d[1]) ELSE 1

(***************************************************************************)
(* scanCSI and scanAPC: where the sequence ends, and whether it does.      *)
(***************************************************************************)
CSIStops(d) == {i \in 3..Len(d) : d[i] \notin Param}

\* end is the length of the sequence when st = "ok".
ScanCSI(d) ==
  IF Len(d) < 2 THEN [st |-> "incomplete", end |-> 0]
  ELSE IF d[1] # ESC \/ d[2] # LBR THEN [st |-> "invalid", end |-> 0]
  ELSE IF CSIStops(d) = {} THEN [st |-> "incomplete", end |-> 0]
  ELSE LET e == First(CSIStops(d))
       IN  [st |-> IF d[e] \in Final THEN "ok" ELSE "invalid", end |-> e]

\* BEL, or ESC \ with the ESC inside the string.
APCStops(d) ==
  {i \in 3..Len(d) : d[i] = BEL \/ (i > 3 /\ d[i] = BSL /\ d[i - 1] = ESC)}

\* Mutant: a string that does not end yet is taken for a wrong one.
ScanAPCHasty(d) ==
  IF Len(d) < 2 THEN [st |-> "incomplete", end |-> 0]
  ELSE IF d[1] # ESC \/ d[2] # UND \/ APCStops(d) = {}
  THEN [st |-> "invalid", end |-> 0]
  ELSE [st |-> "ok", end |-> First(APCStops(d))]

ScanAPC(d) ==
  IF Len(d) < 2 THEN [st |-> "incomplete", end |-> 0]
  ELSE IF d[1] # ESC \/ d[2] # UND THEN [st |-> "invalid", end |-> 0]
  ELSE IF APCStops(d) = {} THEN [st |-> "incomplete", end |-> 0]
  ELSE [st |-> "ok", end |-> First(APCStops(d))]

=============================================================================
