---------------------------- MODULE MCInputCheck -----------------------------
EXTENDS InputCheck

\* A letter that is also half of the exit chord, an arrow (a legacy sequence
\* under kitty), both Shift and both Ctrl keys (two keys told apart by the scan
\* code, two by the modifiers only), a lock.
MCKeys ==
  {Key(VK.KEYA + 2, 99, "u", 99), Navigation(VK.UP, 1, "A")}
    \union {m \in Modifiers : m.mod \in {"LShift", "RShift", "LCtrl", "RCtrl"}}
    \union {Lock("Caps", VK.CAPITAL, 57358)}
=============================================================================
