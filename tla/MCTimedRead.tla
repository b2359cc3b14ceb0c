----------------------------- MODULE MCTimedRead -----------------------------
(***************************************************************************)
(* Small instances of TimedRead: two ticks to a millisecond, the wait for  *)
(* the rest two milliseconds.                                              *)
(***************************************************************************)
EXTENDS TimedRead, SequencesExt

\* A byte "rest" without its first half is decoded like a key.
Joined(s) == \A i \in DOMAIN s : s[i] = "rest" => i > 1 /\ s[i - 1] = "half"

\* Every input of at most two items, and a character cut behind an ESC.
ShortInputs ==
  {s \in BoundedSeq({"key", "esc", "half", "rest"}, 2) : Joined(s)}
    \union {<<"esc", "half", "rest">>}

\* Without characters of two bytes.
WholeInputs == BoundedSeq({"key", "esc"}, 2)
=============================================================================
