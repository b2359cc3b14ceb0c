----------------------------- MODULE MCEventPump -----------------------------
(***************************************************************************)
(* Small instances of EventPump.                                           *)
(***************************************************************************)
EXTENDS EventPump

\* A byte "rest" without its first half is decoded like a key.
Joined(s) == \A i \in DOMAIN s : s[i] = "rest" => i > 1 /\ s[i - 1] = "half"

\* Every input of at most two items, and some of three: more than the channel
\* and the pump hold, an ESC between others, a character cut in two.
ShortInputs ==
  {s \in BoundedSeq({"key", "esc", "half", "rest"}, 2) : Joined(s)}
    \union BoundedSeq({"key", "other"}, 2)
    \union {<<"key", "key", "key">>, <<"key", "esc", "key">>, <<"esc", "half", "rest">>,
            <<"half", "rest", "key">>}
KeyInputs  == BoundedSeq({"key", "esc"}, 2)
=============================================================================
