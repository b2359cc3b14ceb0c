----------------------------- MODULE InputCheck ------------------------------
(***************************************************************************)
(* cmd/input-check, the program that shows which keys are pressed, at the  *)
(* end of the chain: a keyboard, a terminal that reports its keys in one   *)
(* of four protocols, the parsers (KeyData), and the program's table of    *)
(* pressed keys, which it has to keep true with reports that come late,    *)
(* say too little, or not at all.                                          *)
(*                                                                         *)
(* One Tick is the 50 ms of the program's ticker.                          *)
(***************************************************************************)
EXTENDS KeyData

CONSTANTS
  Protocols,    \* subset of {"legacy", "kitty", "win32", "far2l"}
  Keys,         \* keys of the keyboard that are used
  MaxHeld,      \* bound: keys held at a time
  MaxStrokes,   \* bound: presses, repeats, losses of focus
  MaxQueue      \* bound: reports on their way

ASSUME CheckAssumption ==
  /\ Protocols \subseteq {"legacy", "kitty", "win32", "far2l"}
  /\ MaxHeld \in Nat /\ MaxStrokes \in Nat /\ MaxQueue \in Nat

VARIABLES
  protocol,
  held, locks, focused,   \* the keyboard, and whether the terminal listens
  queue,                  \* reports on their way to the program
  pressedKeys,            \* codes -> [age, legacy, down]
  currentMods,
  pc,                     \* "run", "exited", "panicked"
  lost,                   \* history: keys let go without a report
  told,                   \* history: locks whose state the program was told
  strokes

keyboard == <<protocol, held, locks, focused, lost, strokes>>
program  == <<pressedKeys, currentMods, pc, told>>
vars     == <<keyboard, queue, program>>

-----------------------------------------------------------------------------
(***************************************************************************)
(* The keyboard: code and scan code of Windows, code and final byte of the *)
(* kitty protocol, and what the key does.  place is where drawUI shows it. *)
(***************************************************************************)
Key(vk, code, final, char) ==
  [place |-> vk, vk |-> vk, scan |-> 0, code |-> code, final |-> final, char |-> char,
   nav |-> FALSE, mod |-> "none", lock |-> "none"]

Navigation(vk, code, final) == [Key(vk, code, final, 0) EXCEPT !.nav = TRUE]

Modifier(name, place, vk, scan, code) ==
  [Key(vk, code, "u", 0) EXCEPT !.place = place, !.scan = scan, !.mod = name]

Lock(name, vk, code) == [Key(vk, code, "u", 0) EXCEPT !.lock = name]

Letters   == {Key(c - 32, c, "u", c) : c \in 97..122}
Characters == Letters \union {Key(c, c, "u", c) : c \in 48..57} \union
  {Key(VK.OEM_3, 96, "u", 96), Key(VK.OEM_4, 91, "u", 91), Key(VK.OEM_1, 59, "u", 59)}
Controls  == {Key(VK.TAB, 9, "u", 9), Key(VK.RETURN, 13, "u", 13), Key(VK.ESCAPE, 27, "u", 27)}
Functions == {Key(VK.F1, 1, "P", 0), Key(VK.F1 + 1, 1, "Q", 0), Key(VK.F1 + 3, 1, "S", 0)}
        \union {Key(VK.F1 + 2, 13, "~", 0), Key(VK.F1 + 4, 15, "~", 0)}
        \union {Key(VK.F1 + 5 + n, 17 + n, "~", 0) : n \in 0..4}
        \union {Key(VK.F1 + 10 + n, 23 + n, "~", 0) : n \in 0..1}
Arrows    == {Navigation(VK.UP, 1, "A"), Navigation(VK.DOWN, 1, "B"),
              Navigation(VK.RIGHT, 1, "C"), Navigation(VK.LEFT, 1, "D")}
Cluster   == Arrows \union
  {Navigation(VK.HOME, 1, "H"), Navigation(VK.END, 1, "F"), Navigation(VK.INSERT, 2, "~"),
   Navigation(VK.DELETE, 3, "~"), Navigation(VK.PRIOR, 5, "~"), Navigation(VK.NEXT, 6, "~")}
KeypadDigits == {Key(VK.NUMPAD0 + n, 57399 + n, "u", 48 + n) : n \in 0..9}
Modifiers ==
  {Modifier("LShift", VK.LSHIFT, VK.SHIFT, LeftShift, 57441),
   Modifier("RShift", VK.RSHIFT, VK.SHIFT, RightShift, 57447),
   Modifier("LCtrl", VK.LCONTROL, VK.CONTROL, 29, 57442),
   Modifier("RCtrl", VK.RCONTROL, VK.CONTROL, 29, 57448),
   Modifier("LAlt", VK.LMENU, VK.MENU, 56, 57443),
   Modifier("RAlt", VK.RMENU, VK.MENU, 56, 57449)}
LockKeys  == {Lock("Caps", VK.CAPITAL, 57358), Lock("Num", VK.NUMLOCK, 57360)}

Keyboard ==
  UNION {Characters, Controls, Functions, Cluster, KeypadDigits, Modifiers, LockKeys}

ASSUME KeysAssumption == Keys \subseteq Keyboard

-----------------------------------------------------------------------------
(***************************************************************************)
(* The terminal: a report of key k, with the keys h held (k among them, if *)
(* it goes down) and the locks l.                                          *)
(***************************************************************************)
WindowsMod == [LShift |-> "Shift", RShift |-> "Shift", LCtrl |-> "LCtrl",
               RCtrl |-> "RCtrl", LAlt |-> "LAlt", RAlt |-> "RAlt"]
AnsiMod    == [LShift |-> "shift", RShift |-> "shift", LCtrl |-> "ctrl",
               RCtrl |-> "ctrl", LAlt |-> "alt", RAlt |-> "alt"]
AnsiLock   == [Caps |-> "caps", Num |-> "num"]

Held(h)        == {k.mod : k \in h} \ {"none"}
WindowsMods(h) == {WindowsMod[m] : m \in Held(h)}
AnsiMods(h)    == {AnsiMod[m] : m \in Held(h)}

IsLetter(k)    == k.char \in 97..122
Shifted(k, h)  == IsLetter(k) /\ "shift" \in AnsiMods(h)
Char(k, h, l)  ==
  CASE IsLetter(k) /\ "ctrl" \in AnsiMods(h) -> k.char - 96
    [] IsLetter(k) /\ "ctrl" \notin AnsiMods(h) /\ (Shifted(k, h) # ("Caps" \in l)) -> k.char - 32
    [] OTHER -> k.char

Numeric(flags) ==
  LET N(f) == IF f \in flags THEN Bit[f] ELSE 0
  IN  N("RAlt") + N("LAlt") + N("RCtrl") + N("LCtrl") + N("Shift")
      + N("Num") + N("Scroll") + N("Caps") + N("Enhanced")

\* The type of a press is left out.
KittyReport(k, type, h, l) ==
  [kind |-> "csi", final |-> k.final, type |-> IF type = 1 THEN 0 ELSE type,
   key |-> <<k.code, IF Shifted(k, h) THEN k.char - 32 ELSE 0, 0>>,
   mods |-> AnsiMods(h) \union {AnsiLock[x] : x \in l},
   colon |-> type # 1 \/ Shifted(k, h)]

WindowsFlags(k, h, l) ==
  WindowsMods(h) \union l \union EnhancedIf(k.nav \/ k.mod \in {"RCtrl", "RAlt"})

Win32Report(k, type, h, l) ==
  [kind |-> "win32", Vk |-> k.vk, Sc |-> k.scan, Uc |-> Char(k, h, l),
   Kd |-> IF type = 3 THEN 0 ELSE 1, Cs |-> Numeric(WindowsFlags(k, h, l))]

\* Characters in the small form ('C' and 'c'), other keys in the full one ('K'
\* and 'k').
Far2lReport(k, type, h, l) ==
  LET mods  == Numeric(WindowsFlags(k, h, l))
      small == PushU16(PushU16(PushU8(<<>>, k.vk), mods), Char(k, h, l))
      full  == PushU32(PushU32(PushU16(PushU16(PushU16(<<>>, 1), k.vk), k.scan), mods),
                       Char(k, h, l))
      cmd   == (IF IsLetter(k) THEN 67 ELSE 75) + (IF type = 3 THEN 32 ELSE 0)
  IN  [kind |-> "f2l", data |-> PushU8(IF IsLetter(k) THEN small ELSE full, cmd)]

LegacyReport(k, h, l) ==
  CASE k.char # 0 -> [kind |-> "byte", char |-> Char(k, h, l), alt |-> "alt" \in AnsiMods(h)]
    [] k.char = 0 /\ k.final \in {"P", "Q", "S"} /\ AnsiMods(h) = {} ->
         [kind |-> "ss3", final |-> k.final, mods |-> {}]
    [] OTHER -> [kind |-> "csi", final |-> k.final, key |-> <<k.code, 0, 0>>,
                 mods |-> AnsiMods(h), type |-> 0, colon |-> FALSE]

\* Without a protocol a terminal says nothing of modifiers and releases.
Reported(p, k, type) ==
  p # "legacy" \/ (type # 3 /\ k.mod = "none" /\ k.lock = "none")

Report(p, k, type, h, l) ==
  CASE p = "kitty"  -> KittyReport(k, type, h, l)
    [] p = "win32"  -> Win32Report(k, type, h, l)
    [] p = "far2l"  -> Far2lReport(k, type, h, l)
    [] p = "legacy" -> LegacyReport(k, h, l)

FocusReport == [kind |-> "focus"]

Enqueue(k, type, l) ==
  queue' = IF Reported(protocol, k, type)
           THEN Append(queue, [key |-> k, type |-> type,
                               report |-> Report(protocol, k, type, held', l)])
           ELSE queue

EnqueueFocus == queue' = Append(queue, [report |-> FocusReport])

LocksUsed == {k.lock : k \in Keys} \ {"none"}

CanSend == pc = "run" /\ Len(queue) < MaxQueue

Init ==
  /\ protocol \in Protocols
  /\ held = {} /\ locks \in SUBSET LocksUsed /\ focused = TRUE
  /\ queue = <<>>
  /\ pressedKeys = <<>> /\ currentMods = {} /\ pc = "run"
  /\ lost = {} /\ told = {} /\ strokes = 0

\* The report of a lock key has the state from before it.
Press ==
  /\ CanSend /\ focused /\ Cardinality(held) < MaxHeld /\ strokes < MaxStrokes
  /\ \E k \in Keys \ held :
       /\ held' = held \union {k}
       /\ locks' = IF k.lock = "none" THEN locks
                   ELSE IF k.lock \in locks THEN locks \ {k.lock} ELSE locks \union {k.lock}
       /\ lost' = lost \ {k}
       /\ Enqueue(k, 1, locks)
  /\ strokes' = strokes + 1
  /\ UNCHANGED <<protocol, focused, program>>

\* Modifiers and locks do not repeat.
Repeat ==
  /\ CanSend /\ focused /\ strokes < MaxStrokes
  /\ UNCHANGED <<protocol, held, locks, focused, lost, program>>
  /\ \E k \in held : k.mod = "none" /\ k.lock = "none" /\ Enqueue(k, 2, locks)
  /\ strokes' = strokes + 1

\* The state of the own lock may be stale when a lock key goes up.
Release ==
  /\ CanSend /\ focused
  /\ \E k \in held :
       /\ held' = held \ {k}
       /\ \E l \in {locks} \union (IF k.lock = "none" THEN {} ELSE {locks \ {k.lock}, locks \union {k.lock}}) :
            Enqueue(k, 3, l)
  /\ UNCHANGED <<protocol, locks, focused, lost, strokes, program>>

\* Another window gets the keys, with it the releases of those held.
FocusOut ==
  /\ CanSend /\ focused /\ strokes < MaxStrokes
  /\ focused' = FALSE /\ held' = {} /\ lost' = lost \union held
  /\ strokes' = strokes + 1
  /\ EnqueueFocus
  /\ UNCHANGED <<protocol, locks, program>>

FocusIn ==
  /\ CanSend /\ ~focused
  /\ focused' = TRUE /\ locks' \in SUBSET LocksUsed
  /\ EnqueueFocus
  /\ UNCHANGED <<protocol, held, lost, strokes, program>>

-----------------------------------------------------------------------------
(***************************************************************************)
(* The program.                                                            *)
(***************************************************************************)
LockOf(vk) ==
  CASE vk = VK.CAPITAL -> "Caps" [] vk = VK.NUMLOCK -> "Num" [] vk = VK.SCROLL -> "Scroll"
    [] OTHER -> "none"

\* Mutant: the lock bits of a lock key's report are believed.
ModsBelieved(e) == e.mods

\* The state of a lock is predicted when its key goes down.
ModsAfter(e) ==
  IF LockOf(e.vk) = "none" THEN e.mods
  ELSE LET lock == LockOf(e.vk)
           kept == currentMods \intersect Locks
       IN  (e.mods \ Locks) \union
           CASE ~e.down                       -> kept
             [] e.down /\ lock \in e.mods     -> kept \ {lock}
             [] e.down /\ lock \notin e.mods  -> kept \union {lock}

\* The code under which a key is kept: the two Shift keys apart.
TrackedVK(e) ==
  CASE e.vk = VK.SHIFT /\ e.scan = LeftShift  -> VK.LSHIFT
    [] e.vk = VK.SHIFT /\ e.scan = RightShift -> VK.RSHIFT
    [] OTHER                                  -> e.vk

PressedAfter(e) ==
  LET vk == TrackedVK(e)
  IN  CASE e.down ->
             [x \in DOMAIN pressedKeys \union {vk} |->
                IF x = vk THEN [age |-> 0, legacy |-> e.legacy, down |-> TRUE] ELSE pressedKeys[x]]
        [] ~e.down /\ vk \in DOMAIN pressedKeys -> [pressedKeys EXCEPT ![vk].down = FALSE]
        [] OTHER -> pressedKeys

isExitEvent(e) ==
  e.down /\ (e.vk = VK.ESCAPE \/ (e.vk = VK.KEYA + 2 /\ "LCtrl" \in e.mods))

\* What a report tells of the locks: its own if it is of a lock key that goes
\* down, all if it is of another key, none if it is a legacy sequence.
TellsLocks(r) == r.kind \in {"win32", "f2l"} \/ (r.kind = "csi" /\ ~AcceptsLegacy(r))

ToldBy(r, e) ==
  CASE ~TellsLocks(r)                    -> {}
    [] TellsLocks(r) /\ LockOf(e.vk) = "none" -> {"Caps", "Num"}
    [] TellsLocks(r) /\ LockOf(e.vk) # "none" -> IF e.down THEN told \union {LockOf(e.vk)} ELSE told

HandleKey ==
  /\ pc = "run" /\ queue # <<>> /\ Head(queue).report.kind # "focus"
  /\ LET r == Head(queue).report
         e == KeyEvent(r)
     IN  /\ currentMods' = ModsAfter(e)
         /\ pressedKeys' = PressedAfter(e)
         /\ pc' = IF isExitEvent(e) THEN "exited" ELSE "run"
         /\ told' = ToldBy(r, e)
  /\ queue' = Tail(queue)
  /\ UNCHANGED keyboard

\* An event without modifiers.
HandleFocus ==
  /\ pc = "run" /\ queue # <<>> /\ Head(queue).report.kind = "focus"
  /\ currentMods' = {} /\ told' = {}
  /\ queue' = Tail(queue)
  /\ UNCHANGED <<keyboard, pressedKeys, pc>>

\* What a closed EventChan yields is used like an event.
HandleNil ==
  /\ pc = "run" /\ queue = <<>>
  /\ pc' = "panicked"
  /\ UNCHANGED <<keyboard, queue, pressedKeys, currentMods, told>>

\* Mutant: only the time counts.
ExpiredByAge(p) == p.age >= IF p.legacy THEN 4 ELSE 3

\* Mutant: a legacy key has to be let go as well.
ExpiredWhenUp(p) == ~p.down /\ p.age >= 3

\* A legacy key goes after 150 ms, another after 100 ms and its release.
Expired(p) == (p.legacy /\ p.age >= 4) \/ (~p.legacy /\ ~p.down /\ p.age >= 3)

Tick ==
  /\ pc = "run"
  /\ LET older == [vk \in DOMAIN pressedKeys |->
                     [pressedKeys[vk] EXCEPT !.age = IF @ = 4 THEN 4 ELSE @ + 1]]
     IN  pressedKeys' = [vk \in {v \in DOMAIN older : ~Expired(older[v])} |-> older[vk]]
  /\ UNCHANGED <<keyboard, queue, currentMods, pc, told>>

Next ==
  \/ Press \/ Repeat \/ Release \/ FocusOut \/ FocusIn
  \/ HandleKey \/ HandleFocus \/ HandleNil \/ Tick

\* The step that HandleKey and HandleFocus share.
Handles == pc = "run" /\ queue # <<>> /\ queue' = Tail(queue)

Spec == Init /\ [][Next]_vars /\ WF_queue(Handles) /\ WF_vars(Tick)

-----------------------------------------------------------------------------
(***************************************************************************)
(* What a report tells of a key.                                           *)
(***************************************************************************)
Sides == {"LCtrl", "RCtrl", "LAlt", "RAlt"}

\* Win32 and far2l reports say which Ctrl and which Alt.  Kitty's and legacy
\* ones have a bit for both, which the parsers turn into the left one, so that
\* there only one of the two is asked for, less than README.md:29 promises.
SameModifiers(r, e, h) ==
  /\ "Shift" \in e.mods <=> "shift" \in AnsiMods(h)
  /\ e.mods \intersect {"LCtrl", "RCtrl"} # {} <=> "ctrl" \in AnsiMods(h)
  /\ e.mods \intersect {"LAlt", "RAlt"} # {} <=> "alt" \in AnsiMods(h)
  /\ r.kind \in {"win32", "f2l"} => \A x \in Sides : x \in e.mods <=> x \in WindowsMods(h)

\* Only without Ctrl and Alt; kitty does not tell what CapsLock and Shift make.
SameCharacter(p, e, k, h, l) ==
  (k.char = k.code /\ k.char > 32 /\ AnsiMods(h) \subseteq {"shift"} /\ (p = "kitty" => AnsiMods(h) = {} \/ "Caps" \notin l))
    => e.char = Char(k, h, l)

\* A printable byte has no code; Ctrl with H, I and M are the bytes of other keys.
Faithful(p, k, type, h, l) ==
  LET r == Report(p, k, type, h, l)
      e == KeyEvent(r)
  IN  /\ e.vk = k.vk \/ (r.kind = "byte" /\ (e.vk = 0 \/ r.char \in {8, 9, 13}))
      /\ e.down <=> type # 3
      /\ r.kind # "byte" => SameModifiers(r, e, h) /\ (k.mod = "none" => ("Enhanced" \in e.mods <=> k.nav))
      /\ type # 3 => SameCharacter(p, e, k, h, l)
      /\ TellsLocks(r) => e.mods \intersect Locks = l

\* Reports depend on no other state than the protocol: each is looked at once.
AtRest == strokes = 0 /\ queue = <<>> /\ pc = "run" /\ locks = {}

Chords == {h \in SUBSET Modifiers : Cardinality(h) <= 2}

ReportsOf(h) ==
  {x \in Keyboard \X (1..3) : (x[2] = 3 <=> x[1] \notin h) \/ x[1].mod = "none"}

-----------------------------------------------------------------------------
(***************************************************************************)
(* What the program shows.                                                 *)
(***************************************************************************)
Fallback == [LCtrl |-> VK.LCONTROL, RCtrl |-> VK.RCONTROL, LAlt |-> VK.LMENU,
             RAlt |-> VK.RMENU, Caps |-> VK.CAPITAL, Num |-> VK.NUMLOCK]

\* A key is shown if it is in the table or its modifier is on; a Shift key by
\* the modifier only if neither of them is in the table.
Shown(vk) ==
  \/ vk \in DOMAIN pressedKeys
  \/ \E f \in currentMods \intersect DOMAIN Fallback : Fallback[f] = vk
  \/ /\ vk \in {VK.LSHIFT, VK.RSHIFT} /\ "Shift" \in currentMods
     /\ {VK.LSHIFT, VK.RSHIFT} \intersect DOMAIN pressedKeys = {}

Tracked(k) == IF k.vk = VK.SHIFT THEN k.place ELSE k.vk

\* The keys whose press is certain to be told as long as it lasts: not those
\* that come in legacy sequences, and under kitty not Ctrl and Alt, which it
\* reports as the left ones.
Told(k) ==
  \/ protocol \in {"win32", "far2l"}
  \/ protocol = "kitty" /\ k.final = "u" /\ k.mod \in {"none", "LShift", "RShift"}

\* TYPE INVARIANT.  Codes are 16 bits, ages and the queue bounded, modifiers
\* among those of Windows.
TypeOK ==
  /\ held \subseteq Keys /\ lost \subseteq Keys
  /\ locks \subseteq {"Caps", "Num"} /\ told \subseteq Locks /\ focused \in BOOLEAN
  /\ Len(queue) <= MaxQueue
  /\ \A vk \in DOMAIN pressedKeys :
       /\ vk \in Nat /\ vk < 65536
       /\ pressedKeys[vk] \in [age : 0..4, legacy : BOOLEAN, down : BOOLEAN]
  /\ currentMods \subseteq Flags
  /\ pc \in {"run", "exited", "panicked"}

\* A key that is kept as down is held, or its release is on the way, or the
\* focus was away when it was let go: nothing else leaves a key on the screen.
\* In particular, press and release of a key are always filed under one code.
StuckNeedsLostRelease ==
  pc = "run" => \A vk \in DOMAIN pressedKeys :
    (pressedKeys[vk].down /\ ~pressedKeys[vk].legacy) =>
      \/ \E k \in held \union lost : Tracked(k) = vk
      \/ \E i \in DOMAIN queue : queue[i].report.kind # "focus" /\ queue[i].type = 3
                               /\ Tracked(queue[i].key) = vk

\* When no report is on its way, each key that is held is shown, whatever was
\* pressed and let go with it: also the second of two keys that share a code.
ShownWhileHeld ==
  pc = "run" /\ queue = <<>> => \A k \in held : Told(k) => Shown(k.place)

\* When no report is on its way, the locks are shown as they are, as far as
\* reports told of them, although a lock key's own reports have old states.
LocksPredicted ==
  queue = <<>> => \A l \in told : (l \in currentMods <=> l \in locks)

\* Every report names its key and says whether it goes down, and, if it is not
\* a byte, whether Shift, a Ctrl and an Alt are held and whether the key is one
\* of navigation.  Excepted by name: which Ctrl or Alt, except with win32 and
\* far2l; the locks, if the legacy parser takes the report (LocksReported); the
\* character, if Ctrl or Alt is held.
ProtocolsAgree ==
  AtRest => \A l \in SUBSET {"Caps", "Num"}, h \in Chords : \A x \in ReportsOf(h) :
    Reported(protocol, x[1], x[2]) => Faithful(protocol, x[1], x[2], h, l)

\* VIOLATED.  "Accurately reports [...] the state of lock keys" (README.md:29),
\* "granular modifier states ([...] CapsLock, NumLock)" under kitty
\* (README.md:19): what a kitty report says of the locks is in the event.
LocksReported ==
  \A i \in DOMAIN queue : queue[i].report.kind = "csi" =>
    LET r == queue[i].report
    IN  KeyEvent(r).mods \intersect Locks = {x \in Locks \ {"Scroll"} : AnsiLock[x] \in r.mods}

\* Once nobody types (MaxStrokes sees to it), keys that were let go and keys
\* that came in legacy sequences leave the screen: what stays is down.
Fades ==
  []<>(pc = "run" => \A vk \in DOMAIN pressedKeys :
                       pressedKeys[vk].down /\ ~pressedKeys[vk].legacy)
=============================================================================
