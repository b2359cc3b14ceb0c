-------------------------- MODULE InputCheckProofs ---------------------------
(***************************************************************************)
(* Proofs about cmd/input-check: its types, that nothing but a lost release*)
(* leaves a key on the screen, that what is held is shown, that locks are  *)
(* predicted, and that the protocols agree; for any set of keys of the     *)
(* keyboard, all protocols, and any typing.                                *)
(*                                                                         *)
(* The keys are known by kind (KeysKnown), from which follows what a report*)
(* of each protocol tells of its key (TellsKey) and that no two keys share *)
(* a code in the table, save the two Ctrl and the two Alt (TrackedIsOwn).  *)
(* With that, the queue needs no more than its entries' own words: IInv    *)
(* says what the program will show once the reports on their way are       *)
(* handled.                                                                *)
(***************************************************************************)
EXTENDS InputCheck, Far2lStackProofs

LEMMA Codes ==
  /\ VK.BACK = 8 /\ VK.TAB = 9 /\ VK.CLEAR = 12 /\ VK.RETURN = 13
  /\ VK.SHIFT = 16 /\ VK.CONTROL = 17 /\ VK.MENU = 18 /\ VK.CAPITAL = 20
  /\ VK.ESCAPE = 27 /\ VK.SPACE = 32 /\ VK.PRIOR = 33 /\ VK.NEXT = 34
  /\ VK.END = 35 /\ VK.HOME = 36 /\ VK.LEFT = 37 /\ VK.UP = 38
  /\ VK.RIGHT = 39 /\ VK.DOWN = 40 /\ VK.INSERT = 45 /\ VK.DELETE = 46
  /\ VK.KEY0 = 48 /\ VK.KEYA = 65 /\ VK.LWIN = 91 /\ VK.RWIN = 92
  /\ VK.APPS = 93 /\ VK.NUMPAD0 = 96 /\ VK.MULTIPLY = 106 /\ VK.ADD = 107
  /\ VK.SUBTRACT = 109 /\ VK.DECIMAL = 110 /\ VK.DIVIDE = 111 /\ VK.F1 = 112
  /\ VK.NUMLOCK = 144 /\ VK.SCROLL = 145 /\ VK.LSHIFT = 160 /\ VK.RSHIFT = 161
  /\ VK.LCONTROL = 162 /\ VK.RCONTROL = 163 /\ VK.LMENU = 164 /\ VK.RMENU = 165
  /\ VK.OEM_1 = 186 /\ VK.OEM_PLUS = 187 /\ VK.OEM_COMMA = 188
  /\ VK.OEM_MINUS = 189 /\ VK.OEM_PERIOD = 190 /\ VK.OEM_2 = 191
  /\ VK.OEM_3 = 192 /\ VK.OEM_4 = 219 /\ VK.OEM_5 = 220 /\ VK.OEM_6 = 221
  /\ VK.OEM_7 = 222 /\ VK.UNASSIGNED = 255
BY DEF VK

LEMMA Bits ==
  ASSUME NEW a \in 0..1, NEW b \in 0..1, NEW c \in 0..1, NEW d \in 0..1, NEW e \in 0..1,
         NEW f \in 0..1, NEW g \in 0..1, NEW h \in 0..1, NEW i \in 0..1
  PROVE  LET n == a + 2*b + 4*c + 8*d + 16*e + 32*f + 64*g + 128*h + 256*i
         IN  /\ n \in 0..511
             /\ n % 2 = a
             /\ (n \div 2) % 2 = b
             /\ (n \div 4) % 2 = c
             /\ (n \div 8) % 2 = d
             /\ (n \div 16) % 2 = e
             /\ (n \div 32) % 2 = f
             /\ (n \div 64) % 2 = g
             /\ (n \div 128) % 2 = h
             /\ (n \div 256) % 2 = i
OBVIOUS

-----------------------------------------------------------------------------
(***************************************************************************)
(* The keyboard: what is known of a key of each kind.                      *)
(***************************************************************************)
Plain(k) == k.place = k.vk /\ k.scan = 0 /\ k.mod = "none" /\ k.lock = "none"

LetterKey(k) ==
  /\ Plain(k) /\ ~k.nav /\ k.final = "u"
  /\ k.char \in 97..122 /\ k.code = k.char /\ k.vk = k.char - 32

DigitKey(k) ==
  /\ Plain(k) /\ ~k.nav /\ k.final = "u"
  /\ k.char \in 48..57 /\ k.code = k.char /\ k.vk = k.char

\* Keys with a character that is no letter and no digit.
SignKey(k) ==
  /\ Plain(k) /\ ~k.nav /\ k.final = "u" /\ k.code = k.char
  /\ \/ k.char = 96 /\ k.vk = 192
     \/ k.char = 91 /\ k.vk = 219
     \/ k.char = 59 /\ k.vk = 186

ControlsKey(k) ==
  /\ Plain(k) /\ ~k.nav /\ k.final = "u" /\ k.code = k.char /\ k.vk = k.char
  /\ k.char \in {9, 13, 27}

FunctionKey(k) ==
  /\ Plain(k) /\ ~k.nav /\ k.char = 0
  /\ \/ k.final = "P" /\ k.code = 1 /\ k.vk = 112
     \/ k.final = "Q" /\ k.code = 1 /\ k.vk = 113
     \/ k.final = "S" /\ k.code = 1 /\ k.vk = 115
     \/ k.final = "~" /\ k.code = 13 /\ k.vk = 114
     \/ k.final = "~" /\ k.code = 15 /\ k.vk = 116
     \/ k.final = "~" /\ k.code \in 17..21 /\ k.vk = k.code + 100
     \/ k.final = "~" /\ k.code \in 23..24 /\ k.vk = k.code + 99

ClusterKey(k) ==
  /\ Plain(k) /\ k.nav /\ k.char = 0
  /\ \/ k.final = "A" /\ k.code = 1 /\ k.vk = 38
     \/ k.final = "B" /\ k.code = 1 /\ k.vk = 40
     \/ k.final = "C" /\ k.code = 1 /\ k.vk = 39
     \/ k.final = "D" /\ k.code = 1 /\ k.vk = 37
     \/ k.final = "H" /\ k.code = 1 /\ k.vk = 36
     \/ k.final = "F" /\ k.code = 1 /\ k.vk = 35
     \/ k.final = "~" /\ k.code = 2 /\ k.vk = 45
     \/ k.final = "~" /\ k.code = 3 /\ k.vk = 46
     \/ k.final = "~" /\ k.code = 5 /\ k.vk = 33
     \/ k.final = "~" /\ k.code = 6 /\ k.vk = 34

KeypadKey(k) ==
  /\ Plain(k) /\ ~k.nav /\ k.final = "u"
  /\ k.char \in 48..57 /\ k.code = 57351 + k.char /\ k.vk = 48 + k.char

ModifierKey(k) ==
  /\ ~k.nav /\ k.final = "u" /\ k.char = 0 /\ k.lock = "none"
  /\ \/ k.mod = "LShift" /\ k.place = 160 /\ k.vk = 16 /\ k.scan = 42 /\ k.code = 57441
     \/ k.mod = "RShift" /\ k.place = 161 /\ k.vk = 16 /\ k.scan = 54 /\ k.code = 57447
     \/ k.mod = "LCtrl"  /\ k.place = 162 /\ k.vk = 17 /\ k.scan = 29 /\ k.code = 57442
     \/ k.mod = "RCtrl"  /\ k.place = 163 /\ k.vk = 17 /\ k.scan = 29 /\ k.code = 57448
     \/ k.mod = "LAlt"   /\ k.place = 164 /\ k.vk = 18 /\ k.scan = 56 /\ k.code = 57443
     \/ k.mod = "RAlt"   /\ k.place = 165 /\ k.vk = 18 /\ k.scan = 56 /\ k.code = 57449

LockKey(k) ==
  /\ ~k.nav /\ k.final = "u" /\ k.char = 0 /\ k.mod = "none"
  /\ k.place = k.vk /\ k.scan = 0
  /\ \/ k.lock = "Caps" /\ k.vk = 20 /\ k.code = 57358
     \/ k.lock = "Num"  /\ k.vk = 144 /\ k.code = 57360

LEMMA KeyFields ==
  ASSUME NEW vk, NEW code, NEW final, NEW char
  PROVE  /\ Key(vk, code, final, char).place = vk
         /\ Key(vk, code, final, char).vk = vk
         /\ Key(vk, code, final, char).scan = 0
         /\ Key(vk, code, final, char).code = code
         /\ Key(vk, code, final, char).final = final
         /\ Key(vk, code, final, char).char = char
         /\ ~Key(vk, code, final, char).nav
         /\ Key(vk, code, final, char).mod = "none"
         /\ Key(vk, code, final, char).lock = "none"
BY DEF Key

LEMMA NavigationFields ==
  ASSUME NEW vk, NEW code, NEW final
  PROVE  /\ Navigation(vk, code, final).place = vk
         /\ Navigation(vk, code, final).vk = vk
         /\ Navigation(vk, code, final).scan = 0
         /\ Navigation(vk, code, final).code = code
         /\ Navigation(vk, code, final).final = final
         /\ Navigation(vk, code, final).char = 0
         /\ Navigation(vk, code, final).nav
         /\ Navigation(vk, code, final).mod = "none"
         /\ Navigation(vk, code, final).lock = "none"
BY DEF Navigation, Key

LEMMA ModifierFields ==
  ASSUME NEW name, NEW place, NEW vk, NEW scan, NEW code
  PROVE  /\ Modifier(name, place, vk, scan, code).place = place
         /\ Modifier(name, place, vk, scan, code).vk = vk
         /\ Modifier(name, place, vk, scan, code).scan = scan
         /\ Modifier(name, place, vk, scan, code).code = code
         /\ Modifier(name, place, vk, scan, code).final = "u"
         /\ Modifier(name, place, vk, scan, code).char = 0
         /\ ~Modifier(name, place, vk, scan, code).nav
         /\ Modifier(name, place, vk, scan, code).mod = name
         /\ Modifier(name, place, vk, scan, code).lock = "none"
BY DEF Modifier, Key

LEMMA LockFields ==
  ASSUME NEW name, NEW vk, NEW code
  PROVE  /\ Lock(name, vk, code).place = vk
         /\ Lock(name, vk, code).vk = vk
         /\ Lock(name, vk, code).scan = 0
         /\ Lock(name, vk, code).code = code
         /\ Lock(name, vk, code).final = "u"
         /\ Lock(name, vk, code).char = 0
         /\ ~Lock(name, vk, code).nav
         /\ Lock(name, vk, code).mod = "none"
         /\ Lock(name, vk, code).lock = name
BY DEF Lock, Key

LEMMA LettersKnown ==
  ASSUME NEW k \in Letters
  PROVE  LetterKey(k)
<1>1. CASE \E c \in 97..122 : k = Key(c - 32, c, "u", c)
  <2>1. PICK c \in 97..122 : k = Key(c - 32, c, "u", c)
    BY <1>1
  <2> QED BY <2>1, KeyFields, Codes DEF LetterKey, Plain
<1> QED
  BY <1>1 DEF Letters

LEMMA CharactersKnown ==
  ASSUME NEW k \in Characters
  PROVE  LetterKey(k) \/ DigitKey(k) \/ SignKey(k)
<1>1. CASE k \in Letters
  BY <1>1, LettersKnown
<1>2. CASE \E c \in 48..57 : k = Key(c, c, "u", c)
  <2>1. PICK c \in 48..57 : k = Key(c, c, "u", c)
    BY <1>2
  <2> QED BY <2>1, KeyFields, Codes DEF DigitKey, SignKey, Plain
<1>3. CASE k = Key(VK.OEM_3, 96, "u", 96)
  BY <1>3, KeyFields, Codes DEF DigitKey, SignKey, Plain
<1>4. CASE k = Key(VK.OEM_4, 91, "u", 91)
  BY <1>4, KeyFields, Codes DEF DigitKey, SignKey, Plain
<1>5. CASE k = Key(VK.OEM_1, 59, "u", 59)
  BY <1>5, KeyFields, Codes DEF DigitKey, SignKey, Plain
<1> QED
  BY <1>1, <1>2, <1>3, <1>4, <1>5 DEF Characters

LEMMA ControlsKnown ==
  ASSUME NEW k \in Controls
  PROVE  ControlsKey(k)
<1>1. CASE k = Key(VK.TAB, 9, "u", 9)
  BY <1>1, KeyFields, Codes DEF ControlsKey, Plain
<1>2. CASE k = Key(VK.RETURN, 13, "u", 13)
  BY <1>2, KeyFields, Codes DEF ControlsKey, Plain
<1>3. CASE k = Key(VK.ESCAPE, 27, "u", 27)
  BY <1>3, KeyFields, Codes DEF ControlsKey, Plain
<1> QED
  BY <1>1, <1>2, <1>3 DEF Controls

LEMMA FunctionsKnown ==
  ASSUME NEW k \in Functions
  PROVE  FunctionKey(k)
<1>1. CASE \E n \in 0..4 : k = Key(VK.F1 + 5 + n, 17 + n, "~", 0)
  <2>1. PICK n \in 0..4 : k = Key(VK.F1 + 5 + n, 17 + n, "~", 0)
    BY <1>1
  <2> QED BY <2>1, KeyFields, Codes DEF FunctionKey, Plain
<1>2. CASE \E n \in 0..1 : k = Key(VK.F1 + 10 + n, 23 + n, "~", 0)
  <2>1. PICK n \in 0..1 : k = Key(VK.F1 + 10 + n, 23 + n, "~", 0)
    BY <1>2
  <2> QED BY <2>1, KeyFields, Codes DEF FunctionKey, Plain
<1>3. CASE k = Key(VK.F1, 1, "P", 0)
  BY <1>3, KeyFields, Codes DEF FunctionKey, Plain
<1>4. CASE k = Key(VK.F1 + 1, 1, "Q", 0)
  BY <1>4, KeyFields, Codes DEF FunctionKey, Plain
<1>5. CASE k = Key(VK.F1 + 3, 1, "S", 0)
  BY <1>5, KeyFields, Codes DEF FunctionKey, Plain
<1>6. CASE k = Key(VK.F1 + 2, 13, "~", 0)
  BY <1>6, KeyFields, Codes DEF FunctionKey, Plain
<1>7. CASE k = Key(VK.F1 + 4, 15, "~", 0)
  BY <1>7, KeyFields, Codes DEF FunctionKey, Plain
<1> QED
  BY <1>1, <1>2, <1>3, <1>4, <1>5, <1>6, <1>7 DEF Functions

LEMMA ClusterKnown ==
  ASSUME NEW k \in Cluster
  PROVE  ClusterKey(k)
<1>1. CASE k = Navigation(VK.UP, 1, "A")
  BY <1>1, NavigationFields, Codes DEF ClusterKey, Plain
<1>2. CASE k = Navigation(VK.DOWN, 1, "B")
  BY <1>2, NavigationFields, Codes DEF ClusterKey, Plain
<1>3. CASE k = Navigation(VK.RIGHT, 1, "C")
  BY <1>3, NavigationFields, Codes DEF ClusterKey, Plain
<1>4. CASE k = Navigation(VK.LEFT, 1, "D")
  BY <1>4, NavigationFields, Codes DEF ClusterKey, Plain
<1>5. CASE k = Navigation(VK.HOME, 1, "H")
  BY <1>5, NavigationFields, Codes DEF ClusterKey, Plain
<1>6. CASE k = Navigation(VK.END, 1, "F")
  BY <1>6, NavigationFields, Codes DEF ClusterKey, Plain
<1>7. CASE k = Navigation(VK.INSERT, 2, "~")
  BY <1>7, NavigationFields, Codes DEF ClusterKey, Plain
<1>8. CASE k = Navigation(VK.DELETE, 3, "~")
  BY <1>8, NavigationFields, Codes DEF ClusterKey, Plain
<1>9. CASE k = Navigation(VK.PRIOR, 5, "~")
  BY <1>9, NavigationFields, Codes DEF ClusterKey, Plain
<1>10. CASE k = Navigation(VK.NEXT, 6, "~")
  BY <1>10, NavigationFields, Codes DEF ClusterKey, Plain
<1> QED
  BY <1>1, <1>2, <1>3, <1>4, <1>5, <1>6, <1>7, <1>8, <1>9, <1>10 DEF Cluster, Arrows

LEMMA KeypadDigitsKnown ==
  ASSUME NEW k \in KeypadDigits
  PROVE  KeypadKey(k)
<1>1. CASE \E n \in 0..9 : k = Key(VK.NUMPAD0 + n, 57399 + n, "u", 48 + n)
  <2>1. PICK n \in 0..9 : k = Key(VK.NUMPAD0 + n, 57399 + n, "u", 48 + n)
    BY <1>1
  <2> QED BY <2>1, KeyFields, Codes DEF KeypadKey, Plain
<1> QED
  BY <1>1 DEF KeypadDigits

LEMMA ModifiersKnown ==
  ASSUME NEW k \in Modifiers
  PROVE  ModifierKey(k)
<1>1. CASE k = Modifier("LShift", VK.LSHIFT, VK.SHIFT, LeftShift, 57441)
  BY <1>1, ModifierFields, Codes DEF ModifierKey, LeftShift
<1>2. CASE k = Modifier("RShift", VK.RSHIFT, VK.SHIFT, RightShift, 57447)
  BY <1>2, ModifierFields, Codes DEF ModifierKey, RightShift
<1>3. CASE k = Modifier("LCtrl", VK.LCONTROL, VK.CONTROL, 29, 57442)
  BY <1>3, ModifierFields, Codes DEF ModifierKey
<1>4. CASE k = Modifier("RCtrl", VK.RCONTROL, VK.CONTROL, 29, 57448)
  BY <1>4, ModifierFields, Codes DEF ModifierKey
<1>5. CASE k = Modifier("LAlt", VK.LMENU, VK.MENU, 56, 57443)
  BY <1>5, ModifierFields, Codes DEF ModifierKey
<1>6. CASE k = Modifier("RAlt", VK.RMENU, VK.MENU, 56, 57449)
  BY <1>6, ModifierFields, Codes DEF ModifierKey
<1> QED
  BY <1>1, <1>2, <1>3, <1>4, <1>5, <1>6 DEF Modifiers

LEMMA LockKeysKnown ==
  ASSUME NEW k \in LockKeys
  PROVE  LockKey(k)
<1>1. CASE k = Lock("Caps", VK.CAPITAL, 57358)
  BY <1>1, LockFields, Codes DEF LockKey
<1>2. CASE k = Lock("Num", VK.NUMLOCK, 57360)
  BY <1>2, LockFields, Codes DEF LockKey
<1> QED
  BY <1>1, <1>2 DEF LockKeys

\* Every key is of one of nine kinds.
LEMMA KeysKnown ==
  ASSUME NEW k \in Keyboard
  PROVE  \/ LetterKey(k) \/ DigitKey(k) \/ SignKey(k) \/ ControlsKey(k) \/ FunctionKey(k)
         \/ ClusterKey(k) \/ KeypadKey(k) \/ ModifierKey(k) \/ LockKey(k)
BY CharactersKnown, ControlsKnown, FunctionsKnown, ClusterKnown, KeypadDigitsKnown,
   ModifiersKnown, LockKeysKnown DEF Keyboard
-----------------------------------------------------------------------------
(***************************************************************************)
(* What the terminal puts into a report.                                   *)
(***************************************************************************)
LEMMA FlagNames ==
  Flags = {"RAlt", "LAlt", "RCtrl", "LCtrl", "Shift", "Num", "Scroll", "Caps", "Enhanced"}
BY DEF Flags, Bit

\* The sides of a modifier: those that the two notations tell apart.
LEMMA HeldModifiers ==
  ASSUME NEW h \in SUBSET Keyboard
  PROVE  /\ Held(h) \subseteq {"LShift", "RShift", "LCtrl", "RCtrl", "LAlt", "RAlt"}
         /\ WindowsMods(h) \subseteq {"Shift", "LCtrl", "RCtrl", "LAlt", "RAlt"}
         /\ AnsiMods(h) \subseteq {"shift", "ctrl", "alt"}
<1>1. Held(h) \subseteq {"LShift", "RShift", "LCtrl", "RCtrl", "LAlt", "RAlt"}
  <2> SUFFICES ASSUME NEW k \in h, k.mod # "none"
               PROVE  k.mod \in {"LShift", "RShift", "LCtrl", "RCtrl", "LAlt", "RAlt"}
    BY DEF Held
  <2> QED
    BY KeysKnown DEF Plain, LetterKey, DigitKey, SignKey, ControlsKey, FunctionKey, ClusterKey,
                     KeypadKey, ModifierKey, LockKey
<1>2. WindowsMods(h) \subseteq {"Shift", "LCtrl", "RCtrl", "LAlt", "RAlt"}
  <2> SUFFICES ASSUME NEW m \in Held(h)
               PROVE  WindowsMod[m] \in {"Shift", "LCtrl", "RCtrl", "LAlt", "RAlt"}
    BY DEF WindowsMods
  <2> QED BY <1>1 DEF WindowsMod
<1>3. AnsiMods(h) \subseteq {"shift", "ctrl", "alt"}
  <2> SUFFICES ASSUME NEW m \in Held(h)
               PROVE  AnsiMod[m] \in {"shift", "ctrl", "alt"}
    BY DEF AnsiMods
  <2> QED BY <1>1 DEF AnsiMod
<1> QED BY <1>1, <1>2, <1>3

LEMMA WindowsFlagsType ==
  ASSUME NEW k \in Keyboard, NEW h \in SUBSET Keyboard, NEW l \in SUBSET {"Caps", "Num"}
  PROVE  /\ WindowsFlags(k, h, l) \subseteq Flags
         /\ WindowsFlags(k, h, l) \intersect Locks = l
<1>1. EnhancedIf(k.nav \/ k.mod \in {"RCtrl", "RAlt"}) \subseteq {"Enhanced"}
  BY DEF EnhancedIf
<1> QED
  BY <1>1, HeldModifiers, FlagNames DEF WindowsFlags, Locks

LEMMA CharRange ==
  ASSUME NEW k \in Keyboard, NEW h, NEW l
  PROVE  /\ k.char \in 0..127
         /\ Char(k, h, l) \in 0..127
<1>1. k.char \in 0..127
  BY KeysKnown DEF LetterKey, DigitKey, SignKey, ControlsKey, FunctionKey, ClusterKey,
                   KeypadKey, ModifierKey, LockKey
<1> QED BY <1>1 DEF Char, IsLetter

LEMMA CodeRange ==
  ASSUME NEW k \in Keyboard
  PROVE  /\ k.vk \in 1..255 /\ k.scan \in 0..56
         /\ IsLetter(k) => k.scan = 0 /\ k.mod = "none"
BY KeysKnown DEF IsLetter, Plain, LetterKey, DigitKey, SignKey, ControlsKey, FunctionKey, ClusterKey,
                 KeypadKey, ModifierKey, LockKey

\* A set of flags is known from its number.
LEMMA NumericInverse ==
  ASSUME NEW S \in SUBSET Flags
  PROVE  Numeric(S) \in 0..511 /\ FlagsOf(Numeric(S)) = S
<1> DEFINE B(f) == IF f \in S THEN 1 ELSE 0
           n == B("RAlt") + 2 * B("LAlt") + 4 * B("RCtrl") + 8 * B("LCtrl") + 16 * B("Shift")
                + 32 * B("Num") + 64 * B("Scroll") + 128 * B("Caps") + 256 * B("Enhanced")
<1>1. Numeric(S) = n
  <2>1. /\ Bit["RAlt"] = 1 /\ Bit["LAlt"] = 2 /\ Bit["RCtrl"] = 4 /\ Bit["LCtrl"] = 8
        /\ Bit["Shift"] = 16 /\ Bit["Num"] = 32 /\ Bit["Scroll"] = 64 /\ Bit["Caps"] = 128
        /\ Bit["Enhanced"] = 256
    BY DEF Bit
  <2> QED BY <2>1 DEF Numeric
<1>2. \A f : B(f) \in 0..1
  OBVIOUS
<1>3. /\ n \in 0..511
      /\ n % 2 = B("RAlt")              /\ (n \div 2) % 2 = B("LAlt")
      /\ (n \div 4) % 2 = B("RCtrl")    /\ (n \div 8) % 2 = B("LCtrl")
      /\ (n \div 16) % 2 = B("Shift")   /\ (n \div 32) % 2 = B("Num")
      /\ (n \div 64) % 2 = B("Scroll")  /\ (n \div 128) % 2 = B("Caps")
      /\ (n \div 256) % 2 = B("Enhanced")
  <2>1. /\ B("RAlt") \in 0..1 /\ B("LAlt") \in 0..1 /\ B("RCtrl") \in 0..1
        /\ B("LCtrl") \in 0..1 /\ B("Shift") \in 0..1 /\ B("Num") \in 0..1
        /\ B("Scroll") \in 0..1 /\ B("Caps") \in 0..1 /\ B("Enhanced") \in 0..1
    BY <1>2
  <2> HIDE DEF B
  <2> QED BY <2>1, Bits
<1> HIDE DEF n
<1>4. n \div 1 = n
  BY <1>3
<1>5. ASSUME NEW f \in Flags
      PROVE  (n \div Bit[f]) % 2 = B(f)
  BY <1>3, <1>4, <1>5, FlagNames DEF Bit
<1>6. \A f \in Flags : (n \div Bit[f]) % 2 = 1 <=> f \in S
  BY <1>5
<1>7. FlagsOf(n) = S
  BY <1>6 DEF FlagsOf
<1> QED BY <1>1, <1>3, <1>7
-----------------------------------------------------------------------------
(***************************************************************************)
(* What the parsers make of the reports: win32 input mode and far2l.       *)
(***************************************************************************)
\* The fields of Windows, as they were sent.
WindowsEvent(e, k, type, h, l) ==
  /\ e.vk = k.vk /\ e.scan = k.scan /\ e.char = Char(k, h, l)
  /\ e.down <=> type # 3
  /\ e.mods = WindowsFlags(k, h, l)
  /\ ~e.legacy /\ e.legacy \in BOOLEAN

LEMMA Win32Fields ==
  ASSUME NEW s
  PROVE  /\ Win32Event(s).vk = s.Vk /\ Win32Event(s).scan = s.Sc /\ Win32Event(s).char = s.Uc
         /\ Win32Event(s).down <=> s.Kd = 1
         /\ Win32Event(s).mods = FlagsOf(s.Cs)
         /\ ~Win32Event(s).legacy /\ Win32Event(s).legacy \in BOOLEAN
BY DEF Win32Event, Event

LEMMA Win32Told ==
  ASSUME NEW k \in Keyboard, NEW type \in 1..3,
         NEW h \in SUBSET Keyboard, NEW l \in SUBSET {"Caps", "Num"}
  PROVE  /\ Win32Report(k, type, h, l).kind = "win32"
         /\ WindowsEvent(KeyEvent(Win32Report(k, type, h, l)), k, type, h, l)
<1> DEFINE r == Win32Report(k, type, h, l)
<1>1. /\ r.kind = "win32" /\ r.Vk = k.vk /\ r.Sc = k.scan /\ r.Uc = Char(k, h, l)
      /\ r.Kd = IF type = 3 THEN 0 ELSE 1
      /\ r.Cs = Numeric(WindowsFlags(k, h, l))
  BY DEF Win32Report
<1> HIDE DEF r
<1>2. FlagsOf(r.Cs) = WindowsFlags(k, h, l)
  BY <1>1, WindowsFlagsType, NumericInverse
<1>3. KeyEvent(r) = Win32Event(r)
  BY <1>1 DEF KeyEvent
<1>4. r.Kd = 1 <=> type # 3
  BY <1>1
<1> QED BY <1>1, <1>2, <1>3, <1>4, Win32Fields DEF WindowsEvent, r

\* Char and modifiers fit into the widths of both forms, the code of a letter
\* into a byte.
LEMMA Far2lWidths ==
  ASSUME NEW k \in Keyboard, NEW h \in SUBSET Keyboard, NEW l \in SUBSET {"Caps", "Num"}
  PROVE  /\ k.vk \in Byte /\ k.vk \in Word /\ k.scan \in Word
         /\ Char(k, h, l) \in Word /\ Char(k, h, l) \in DWord
         /\ Numeric(WindowsFlags(k, h, l)) \in Word
         /\ Numeric(WindowsFlags(k, h, l)) \in DWord
<1>1. /\ k.vk \in 1..255 /\ k.scan \in 0..56
      /\ Char(k, h, l) \in 0..127 /\ Numeric(WindowsFlags(k, h, l)) \in 0..511
  BY CodeRange, CharRange, WindowsFlagsType, NumericInverse
<1>2. /\ \A n \in 0..511 : n \in Word
      /\ \A n \in 0..511 : n \in DWord
      /\ \A n \in 1..255 : n \in Byte
  BY SMT DEF Word, DWord, Byte
<1> QED BY <1>1, <1>2

LEMMA PushTypes ==
  ASSUME NEW s \in Seq(Byte)
  PROVE  /\ \A v \in Byte : PushU8(s, v) \in Seq(Byte)
         /\ \A v \in Word : PushU16(s, v) \in Seq(Byte)
         /\ \A v \in DWord : PushU32(s, v) \in Seq(Byte)
<1>1. \A v \in Word : PushU16(s, v) \in Seq(Byte)
  BY Bytes16Sound, ConcatProperties DEF PushU16
<1>2. \A v \in DWord : PushU32(s, v) \in Seq(Byte)
  BY Bytes32Sound, ConcatProperties DEF PushU32
<1>3. \A v \in Byte : PushU8(s, v) \in Seq(Byte)
  BY AppendProperties DEF PushU8
<1> QED BY <1>1, <1>2, <1>3

LEMMA PoppedFields ==
  ASSUME NEW v, NEW s
  PROVE  Popped(v, s).value = v /\ Popped(v, s).rest = s
BY DEF Popped

\* The small form is read back.
LEMMA Far2lSmall ==
  ASSUME NEW cmd \in Byte, NEW vk \in Byte, NEW mods \in Word, NEW char \in Word
  PROVE  LET s == PushU16(PushU16(PushU8(<<>>, vk), mods), char)
         IN  /\ PopU8(PushU8(s, cmd)) = Popped(cmd, s)
             /\ \A c : /\ Far2lChar(c, s).vk = vk /\ Far2lChar(c, s).scan = 0
                       /\ Far2lChar(c, s).char = char
                       /\ Far2lChar(c, s).down <=> c = "C"
                       /\ Far2lChar(c, s).mods = FlagsOf(mods)
                       /\ ~Far2lChar(c, s).legacy /\ Far2lChar(c, s).legacy \in BOOLEAN
<1> DEFINE s1 == PushU8(<<>>, vk)
           s2 == PushU16(s1, mods)
           s  == PushU16(s2, char)
<1>1. <<>> \in Seq(Byte)
  OBVIOUS
<1>2. s1 \in Seq(Byte) /\ s2 \in Seq(Byte) /\ s \in Seq(Byte)
  BY <1>1, PushTypes
<1>3. PopU8(PushU8(s, cmd)) = Popped(cmd, s)
  BY <1>2, PopPushU8
<1>4. PopU16(s) = Popped(char, s2) /\ PopU16(s2) = Popped(mods, s1) /\ PopU8(s1) = Popped(vk, <<>>)
  BY <1>1, <1>2, PopPushU16, PopPushU8
<1> HIDE DEF s, s1, s2
<1>5. ASSUME NEW c
      PROVE  /\ Far2lChar(c, s).vk = vk /\ Far2lChar(c, s).scan = 0
             /\ Far2lChar(c, s).char = char
             /\ Far2lChar(c, s).down <=> c = "C"
             /\ Far2lChar(c, s).mods = FlagsOf(mods)
             /\ ~Far2lChar(c, s).legacy /\ Far2lChar(c, s).legacy \in BOOLEAN
  <2>1. /\ PopU16(s).value = char /\ PopU16(s).rest = s2
        /\ PopU16(s2).value = mods /\ PopU16(s2).rest = s1
        /\ PopU8(s1).value = vk
    BY <1>4, PoppedFields
  <2> QED BY <2>1 DEF Far2lChar, Event
<1> QED BY <1>3, <1>5 DEF s, s1, s2

\* The full form is read back.
LEMMA Far2lFull ==
  ASSUME NEW cmd \in Byte, NEW vk \in Word, NEW scan \in Word, NEW mods \in DWord,
         NEW char \in DWord
  PROVE  LET s == PushU32(PushU32(PushU16(PushU16(PushU16(<<>>, 1), vk), scan), mods), char)
         IN  /\ PopU8(PushU8(s, cmd)) = Popped(cmd, s)
             /\ \A c : /\ Far2lKey(c, s).vk = vk /\ Far2lKey(c, s).scan = scan
                       /\ Far2lKey(c, s).char = char
                       /\ Far2lKey(c, s).down <=> c = "K"
                       /\ Far2lKey(c, s).mods = FlagsOf(mods)
                       /\ ~Far2lKey(c, s).legacy /\ Far2lKey(c, s).legacy \in BOOLEAN
<1> DEFINE s0 == PushU16(<<>>, 1)
           s1 == PushU16(s0, vk)
           s2 == PushU16(s1, scan)
           s3 == PushU32(s2, mods)
           s  == PushU32(s3, char)
<1>1. <<>> \in Seq(Byte) /\ 1 \in Word
  BY DEF Word
<1>2. s0 \in Seq(Byte) /\ s1 \in Seq(Byte) /\ s2 \in Seq(Byte) /\ s3 \in Seq(Byte) /\ s \in Seq(Byte)
  BY <1>1, PushTypes
<1>3. PopU8(PushU8(s, cmd)) = Popped(cmd, s)
  BY <1>2, PopPushU8
<1>4. /\ PopU32(s) = Popped(char, s3) /\ PopU32(s3) = Popped(mods, s2)
      /\ PopU16(s2) = Popped(scan, s1) /\ PopU16(s1) = Popped(vk, s0)
  BY <1>2, PopPushU16, PopPushU32
<1> HIDE DEF s, s0, s1, s2, s3
<1>5. ASSUME NEW c
      PROVE  /\ Far2lKey(c, s).vk = vk /\ Far2lKey(c, s).scan = scan
             /\ Far2lKey(c, s).char = char
             /\ Far2lKey(c, s).down <=> c = "K"
             /\ Far2lKey(c, s).mods = FlagsOf(mods)
             /\ ~Far2lKey(c, s).legacy /\ Far2lKey(c, s).legacy \in BOOLEAN
  <2>1. /\ PopU32(s).value = char /\ PopU32(s).rest = s3
        /\ PopU32(s3).value = mods /\ PopU32(s3).rest = s2
        /\ PopU16(s2).value = scan /\ PopU16(s2).rest = s1
        /\ PopU16(s1).value = vk
    BY <1>4, PoppedFields
  <2> QED BY <2>1 DEF Far2lKey, Event
<1> QED BY <1>3, <1>5 DEF s, s0, s1, s2, s3

LEMMA Far2lTold ==
  ASSUME NEW k \in Keyboard, NEW type \in 1..3,
         NEW h \in SUBSET Keyboard, NEW l \in SUBSET {"Caps", "Num"}
  PROVE  /\ Far2lReport(k, type, h, l).kind = "f2l"
         /\ WindowsEvent(KeyEvent(Far2lReport(k, type, h, l)), k, type, h, l)
<1> DEFINE r     == Far2lReport(k, type, h, l)
           flags == WindowsFlags(k, h, l)
           mods  == Numeric(flags)
           char  == Char(k, h, l)
           small == PushU16(PushU16(PushU8(<<>>, k.vk), mods), char)
           full  == PushU32(PushU32(PushU16(PushU16(PushU16(<<>>, 1), k.vk), k.scan), mods), char)
           cmd   == (IF IsLetter(k) THEN 67 ELSE 75) + (IF type = 3 THEN 32 ELSE 0)
<1>1. r.kind = "f2l" /\ r.data = PushU8(IF IsLetter(k) THEN small ELSE full, cmd)
  BY DEF Far2lReport
<1>2. FlagsOf(mods) = flags
  BY WindowsFlagsType, NumericInverse
<1>3. cmd \in Byte
  BY DEF Byte
<1>4. CASE IsLetter(k)
  <2>1. /\ PopU8(PushU8(small, cmd)) = Popped(cmd, small)
        /\ \A c : /\ Far2lChar(c, small).vk = k.vk /\ Far2lChar(c, small).scan = 0
                  /\ Far2lChar(c, small).char = char
                  /\ Far2lChar(c, small).down <=> c = "C"
                  /\ Far2lChar(c, small).mods = FlagsOf(mods)
                  /\ ~Far2lChar(c, small).legacy /\ Far2lChar(c, small).legacy \in BOOLEAN
    BY <1>3, Far2lWidths, Far2lSmall
  <2>2. Far2lCommand(cmd) = IF type = 3 THEN "c" ELSE "C"
    <3>1. cmd = IF type = 3 THEN 99 ELSE 67
      BY <1>4
    <3> HIDE DEF cmd
    <3> QED BY <3>1 DEF Far2lCommand
  <2> HIDE DEF r, mods, flags, char, small, full, cmd
  <2>3. KeyEvent(r) = Far2lChar(Far2lCommand(cmd), small)
    BY <1>1, <1>4, <2>1, <2>2, PoppedFields DEF KeyEvent, Far2lEvent
  <2>5. /\ KeyEvent(r).vk = k.vk /\ KeyEvent(r).scan = 0 /\ KeyEvent(r).char = char
        /\ KeyEvent(r).down <=> Far2lCommand(cmd) = "C"
        /\ KeyEvent(r).mods = flags /\ ~KeyEvent(r).legacy /\ KeyEvent(r).legacy \in BOOLEAN
    BY <2>1, <2>3, <1>2
  <2>6. k.scan = 0
    BY <1>4, CodeRange
  <2> QED BY <1>1, <2>2, <2>5, <2>6 DEF WindowsEvent, r, flags, char
<1>5. CASE ~IsLetter(k)
  <2>1. /\ PopU8(PushU8(full, cmd)) = Popped(cmd, full)
        /\ \A c : /\ Far2lKey(c, full).vk = k.vk /\ Far2lKey(c, full).scan = k.scan
                  /\ Far2lKey(c, full).char = char
                  /\ Far2lKey(c, full).down <=> c = "K"
                  /\ Far2lKey(c, full).mods = FlagsOf(mods)
                  /\ ~Far2lKey(c, full).legacy /\ Far2lKey(c, full).legacy \in BOOLEAN
    BY <1>3, Far2lWidths, Far2lFull
  <2>2. Far2lCommand(cmd) = IF type = 3 THEN "k" ELSE "K"
    <3>1. cmd = IF type = 3 THEN 107 ELSE 75
      BY <1>5
    <3> HIDE DEF cmd
    <3> QED BY <3>1 DEF Far2lCommand
  <2> HIDE DEF r, mods, flags, char, small, full, cmd
  <2>3. KeyEvent(r) = Far2lKey(Far2lCommand(cmd), full)
    BY <1>1, <1>5, <2>1, <2>2, PoppedFields DEF KeyEvent, Far2lEvent
  <2>5. /\ KeyEvent(r).vk = k.vk /\ KeyEvent(r).scan = k.scan /\ KeyEvent(r).char = char
        /\ KeyEvent(r).down <=> Far2lCommand(cmd) = "K"
        /\ KeyEvent(r).mods = flags /\ ~KeyEvent(r).legacy /\ KeyEvent(r).legacy \in BOOLEAN
    BY <2>1, <2>3, <1>2
  <2> QED BY <1>1, <2>2, <2>5 DEF WindowsEvent, r, flags, char
<1> QED BY <1>4, <1>5
-----------------------------------------------------------------------------
(***************************************************************************)
(* The same for kitty, whose reports of some keys are legacy sequences.    *)
(***************************************************************************)
\* The code before "u" names the key.
LEMMA KittyCodeOfU ==
  ASSUME NEW k \in Keyboard, k.final = "u"
  PROVE  KittyKeyVK(k.code, "u") = k.vk
<1>1. CASE LetterKey(k)
  <2>1. Punctuation(k.code) = 0 /\ Keypad(k.code) = 0
    BY <1>1 DEF LetterKey, Punctuation, Keypad
  <2> QED BY <1>1, <2>1 DEF LetterKey, KittyKeyVK
<1>2. CASE DigitKey(k)
  <2>1. Punctuation(k.code) = 0 /\ Keypad(k.code) = 0
    BY <1>2 DEF DigitKey, Punctuation, Keypad
  <2> QED BY <1>2, <2>1 DEF DigitKey, KittyKeyVK
<1>3. CASE SignKey(k)
  <2>1. Punctuation(k.code) = k.vk /\ Keypad(k.code) = 0
    BY <1>3, Codes DEF SignKey, Punctuation, Keypad
  <2> QED BY <1>3, <2>1 DEF SignKey, KittyKeyVK
<1>4. CASE ControlsKey(k)
  <2>1. Keypad(k.code) = 0
    BY <1>4 DEF ControlsKey, Keypad
  <2>2. CASE k.code = 13
    <3>1. Punctuation(13) = 0
      BY DEF Punctuation
    <3> QED BY <1>4, <2>1, <2>2, <3>1, Codes DEF ControlsKey, KittyKeyVK
  <2>3. CASE k.code # 13
    <3>1. Punctuation(k.code) = k.vk
      BY <1>4, <2>3, Codes DEF ControlsKey, Punctuation
    <3> QED BY <1>4, <2>1, <2>3, <3>1 DEF ControlsKey, KittyKeyVK
  <2> QED BY <2>2, <2>3
<1>5. CASE KeypadKey(k)
  <2>1. Punctuation(k.code) = 0 /\ Keypad(k.code) = k.vk
    BY <1>5, Codes DEF KeypadKey, Punctuation, Keypad
  <2> QED BY <1>5, <2>1 DEF KeypadKey, KittyKeyVK
<1>6. CASE ModifierKey(k)
  <2>1. Punctuation(k.code) = 0 /\ Keypad(k.code) = 0
    BY <1>6 DEF ModifierKey, Punctuation, Keypad
  <2>2. KittySpecial(k.code) = k.vk
    BY <1>6, Codes DEF ModifierKey, KittySpecial
  <2> QED BY <1>6, <2>1, <2>2 DEF ModifierKey, KittyKeyVK
<1>7. CASE LockKey(k)
  <2>1. Punctuation(k.code) = 0 /\ Keypad(k.code) = 0
    BY <1>7 DEF LockKey, Punctuation, Keypad
  <2>2. KittySpecial(k.code) = k.vk
    BY <1>7, Codes DEF LockKey, KittySpecial
  <2> QED BY <1>7, <2>1, <2>2 DEF LockKey, KittyKeyVK
<1>8. CASE FunctionKey(k) \/ ClusterKey(k)
  BY <1>8 DEF FunctionKey, ClusterKey
<1> QED BY <1>1, <1>2, <1>3, <1>4, <1>5, <1>6, <1>7, <1>8, KeysKnown

\* The code before "~", and the other final bytes, for both parsers.
LEMMA CodeOfOthers ==
  ASSUME NEW k \in Keyboard, k.final # "u"
  PROVE  /\ k.final = "~" => KittyKeyVK(k.code, "~") = k.vk /\ mapTildeToVK(k.code) = k.vk
         /\ k.final # "~" => /\ k.final \in {"A", "B", "C", "D", "H", "F", "P", "Q", "S"}
                             /\ LegacyFinal[k.final] = k.vk
<1>1. FunctionKey(k) \/ ClusterKey(k)
  BY KeysKnown DEF LetterKey, DigitKey, SignKey, ControlsKey, KeypadKey, ModifierKey, LockKey
<1>2. ASSUME k.final = "~"
      PROVE  KittyKeyVK(k.code, "~") = k.vk /\ mapTildeToVK(k.code) = k.vk
  <2>1. mapTildeToVK(k.code) = k.vk
    <3>1. CASE FunctionKey(k)
      BY <1>2, <3>1, Codes DEF FunctionKey, mapTildeToVK
    <3>2. CASE ClusterKey(k)
      BY <1>2, <3>2, Codes DEF ClusterKey, mapTildeToVK
    <3> QED BY <1>1, <3>1, <3>2
  <2>2. /\ k.code \in {2, 3, 5, 6, 13, 15, 17, 18, 19, 20, 21, 23, 24}
        /\ k.code = 13 => k.vk = 114
    BY <1>1, <1>2 DEF FunctionKey, ClusterKey
  <2>3. Punctuation(k.code) = 0 /\ Keypad(k.code) = 0
    BY <2>2 DEF Punctuation, Keypad
  <2> QED BY <2>1, <2>2, <2>3, Codes DEF KittyKeyVK
<1>3. ASSUME k.final # "~"
      PROVE  /\ k.final \in {"A", "B", "C", "D", "H", "F", "P", "Q", "S"}
             /\ LegacyFinal[k.final] = k.vk
  <2>1. CASE FunctionKey(k)
    BY <1>3, <2>1, Codes DEF FunctionKey, LegacyFinal
  <2>2. CASE ClusterKey(k)
    BY <1>3, <2>2, Codes DEF ClusterKey, LegacyFinal
  <2> QED BY <1>1, <2>1, <2>2
<1> QED BY <1>2, <1>3

LEMMA FinalNames ==
  DOMAIN LegacyFinal = {"A", "B", "C", "D", "H", "F", "Z", "P", "Q", "R", "S"}
BY DEF LegacyFinal

\* Which key a CSI sequence is of, for both parsers.
LEMMA SequenceNamesKey ==
  ASSUME NEW k \in Keyboard, NEW s, s.final = k.final, s.key[1] = k.code, s.key[3] = 0
  PROVE  /\ LegacyVK(s) = IF k.final = "u" THEN 0 ELSE k.vk
         /\ KittyBase(s) = k.code
         /\ KittyVK(s) = k.vk
         /\ KittyScan(s) = CASE k.mod = "LShift" -> 42 [] k.mod = "RShift" -> 54 [] OTHER -> 0
<1>1. k.code \notin 65..90 /\ k.code \in Nat
  BY KeysKnown DEF Plain, LetterKey, DigitKey, SignKey, ControlsKey, FunctionKey, ClusterKey,
                   KeypadKey, ModifierKey, LockKey
<1>2. KittyBase(s) = k.code
  BY <1>1 DEF KittyBase
<1>3. LegacyVK(s) = IF k.final = "u" THEN 0 ELSE k.vk
  <2>1. CASE k.final = "u"
    BY <2>1, FinalNames DEF LegacyVK, mapCSICommandToVK
  <2>2. CASE k.final # "u"
    BY <2>2, CodeOfOthers, FinalNames DEF LegacyVK, mapCSICommandToVK
  <2> QED BY <2>1, <2>2
<1>4. KittyVK(s) = k.vk
  <2>1. CASE k.final = "u"
    BY <1>2, <2>1, KittyCodeOfU, FinalNames DEF KittyVK
  <2>2. CASE k.final = "~"
    BY <1>2, <2>2, CodeOfOthers, FinalNames DEF KittyVK
  <2>3. CASE k.final \notin {"u", "~"}
    BY <2>3, CodeOfOthers, FinalNames DEF KittyVK
  <2> QED BY <2>1, <2>2, <2>3
<1>5. /\ k.code = 57441 <=> k.mod = "LShift"
      /\ k.code = 57447 <=> k.mod = "RShift"
  BY KeysKnown DEF Plain, LetterKey, DigitKey, SignKey, ControlsKey, FunctionKey, ClusterKey,
                   KeypadKey, ModifierKey, LockKey
<1>6. KittyScan(s) = CASE k.mod = "LShift" -> 42 [] k.mod = "RShift" -> 54 [] OTHER -> 0
  BY <1>2, <1>5 DEF KittyScan, LeftShift, RightShift
<1> QED BY <1>2, <1>3, <1>4, <1>6
LEMMA KittyFields ==
  ASSUME NEW k, NEW type, NEW h, NEW l
  PROVE  LET r == KittyReport(k, type, h, l)
         IN  /\ r.kind = "csi" /\ r.final = k.final
             /\ r.type = 3 <=> type = 3
             /\ r.key[1] = k.code /\ r.key[3] = 0
             /\ r.mods = AnsiMods(h) \union {AnsiLock[x] : x \in l}
             /\ r.colon <=> (type # 1 \/ Shifted(k, h))
<1> DEFINE r == KittyReport(k, type, h, l)
<1>1. r.type = 3 <=> type = 3
  BY DEF KittyReport
<1>2. r.key[1] = k.code /\ r.key[3] = 0
  BY DEF KittyReport
<1>3. r.colon <=> (type # 1 \/ Shifted(k, h))
  BY DEF KittyReport
<1>4. r.kind = "csi" /\ r.final = k.final /\ r.mods = AnsiMods(h) \union {AnsiLock[x] : x \in l}
  BY DEF KittyReport
<1> QED BY <1>1, <1>2, <1>3, <1>4

\* The locks are passed on, and no other bit is taken for one.
LEMMA KittyLocks ==
  ASSUME NEW h \in SUBSET Keyboard, NEW l \in SUBSET {"Caps", "Num"},
         NEW s, s.mods = AnsiMods(h) \union {AnsiLock[x] : x \in l}
  PROVE  KittyFlags(s) \subseteq Flags /\ KittyFlags(s) \intersect Locks = l
<1> DEFINE sent == {AnsiLock[x] : x \in l}
<1>1. /\ sent \subseteq {"caps", "num"}
      /\ "caps" \in sent <=> "Caps" \in l
      /\ "num" \in sent <=> "Num" \in l
  BY DEF AnsiLock
<1>2. AnsiMods(h) \subseteq {"shift", "ctrl", "alt"}
  BY HeldModifiers
<1>3. /\ s.mods \subseteq {"shift", "ctrl", "alt", "caps", "num"}
      /\ "caps" \in s.mods <=> "Caps" \in l
      /\ "num" \in s.mods <=> "Num" \in l
  BY <1>1, <1>2
<1> DEFINE mods == KittyMods(s.mods)
<1>4. /\ mods \subseteq {"Shift", "LCtrl", "LAlt", "Caps", "Num"}
      /\ "Caps" \in mods <=> "Caps" \in l
      /\ "Num" \in mods <=> "Num" \in l
  BY <1>3 DEF KittyMods, KittyFlag
<1> HIDE DEF mods
<1>5. \A x \in {"Caps", "Num"} : x \in OwnModifier(s, mods) <=> x \in mods
  BY DEF OwnModifier
<1>6. OwnModifier(s, mods) \subseteq Flags \ {"Scroll"}
  BY <1>4, FlagNames DEF OwnModifier
<1>7. KittyFlags(s) \ {"Enhanced"} = OwnModifier(s, mods) \ {"Enhanced"}
  BY DEF KittyFlags, EnhancedIf, mods
<1> HIDE DEF sent
<1>8. \A x \in Flags \ {"Enhanced"} : x \in KittyFlags(s) <=> x \in OwnModifier(s, mods)
  BY <1>7
<1>9. KittyFlags(s) \subseteq Flags
  BY <1>6, <1>7, FlagNames
<1>10. \A x \in Locks : x \in KittyFlags(s) <=> x \in l
  BY <1>4, <1>5, <1>6, <1>8, FlagNames DEF Locks
<1> QED BY <1>9, <1>10 DEF Locks

LEMMA KittyEventFields ==
  ASSUME NEW s, KittyVK(s) # 0
  PROVE  /\ KittyEvent(s).vk = KittyVK(s) /\ KittyEvent(s).scan = KittyScan(s)
         /\ KittyEvent(s).down <=> s.type # 3
         /\ KittyEvent(s).mods = KittyFlags(s)
         /\ ~KittyEvent(s).legacy
         /\ KittyEvent(s).legacy \in BOOLEAN
BY DEF KittyEvent, Event

LEMMA LegacyEventFields ==
  ASSUME NEW s
  PROVE  /\ LegacyCSIEvent(s).vk = LegacyVK(s) /\ LegacyCSIEvent(s).scan = 0
         /\ LegacyCSIEvent(s).down /\ LegacyCSIEvent(s).legacy
         /\ LegacyCSIEvent(s).legacy \in BOOLEAN
         /\ LegacyCSIEvent(s).mods \subseteq Flags
<1>1. decodeAnsiModifiers(s.mods) \subseteq Flags
  BY FlagNames DEF decodeAnsiModifiers, AnsiFlag
<1>2. EnhancedIf(isEnhancedVK(LegacyVK(s))) \subseteq Flags
  BY FlagNames DEF EnhancedIf
<1>3. (IF s.final = "Z" THEN {"Shift"} ELSE {}) \subseteq Flags
  BY FlagNames
<1>4. LegacyCSIEvent(s).mods \subseteq Flags
  BY <1>1, <1>2, <1>3 DEF LegacyCSIEvent, Event
<1> QED BY <1>4 DEF LegacyCSIEvent, Event
-----------------------------------------------------------------------------
(***************************************************************************)
(* What a report of each protocol tells of its key.                        *)
(***************************************************************************)
TellsKey(p, k, type, h, l) ==
  LET r == Report(p, k, type, h, l)
      e == KeyEvent(r)
  IN  /\ r.kind # "focus"
      /\ e.vk = k.vk /\ TrackedVK(e) = Tracked(k)
      /\ e.down <=> type # 3
      /\ e.mods \subseteq Flags /\ e.legacy \in BOOLEAN
      /\ e.legacy => type # 3
      /\ TellsLocks(r) => e.mods \intersect Locks = l
      /\ (p \in {"win32", "far2l"} \/ k.final = "u") => ~e.legacy /\ TellsLocks(r)
      /\ p \in {"win32", "far2l"} => e.mods = WindowsFlags(k, h, l)

\* The scan code, or its absence, leads to the place where a key is kept.
LEMMA TrackedPlace ==
  ASSUME NEW k \in Keyboard, NEW e, e.vk = k.vk,
         \/ e.scan = k.scan
         \/ e.scan = CASE k.mod = "LShift" -> 42 [] k.mod = "RShift" -> 54 [] OTHER -> 0
  PROVE  TrackedVK(e) = Tracked(k)
<1>1. /\ k.vk = 16 => \/ k.mod = "LShift" /\ k.place = 160 /\ k.scan = 42
                      \/ k.mod = "RShift" /\ k.place = 161 /\ k.scan = 54
  BY KeysKnown DEF Plain, LetterKey, DigitKey, SignKey, ControlsKey, FunctionKey, ClusterKey,
                   KeypadKey, ModifierKey, LockKey
<1> QED BY <1>1, Codes DEF TrackedVK, Tracked, LeftShift, RightShift

LEMMA KittyTold ==
  ASSUME NEW k \in Keyboard, NEW type \in 1..3,
         NEW h \in SUBSET Keyboard, NEW l \in SUBSET {"Caps", "Num"}
  PROVE  TellsKey("kitty", k, type, h, l)
<1> DEFINE r == KittyReport(k, type, h, l)
           e == KeyEvent(r)
<1>1. /\ r.kind = "csi" /\ r.final = k.final
      /\ r.type = 3 <=> type = 3
      /\ r.key[1] = k.code /\ r.key[3] = 0
      /\ r.mods = AnsiMods(h) \union {AnsiLock[x] : x \in l}
      /\ r.colon <=> (type # 1 \/ Shifted(k, h))
  BY KittyFields
<1>2. Report("kitty", k, type, h, l) = r
  BY DEF Report
<1> HIDE DEF r
<1>3. /\ LegacyVK(r) = IF k.final = "u" THEN 0 ELSE k.vk
      /\ KittyVK(r) = k.vk
      /\ KittyScan(r) = CASE k.mod = "LShift" -> 42 [] k.mod = "RShift" -> 54 [] OTHER -> 0
  BY <1>1, SequenceNamesKey
<1>4. KittyFlags(r) \subseteq Flags /\ KittyFlags(r) \intersect Locks = l
  BY <1>1, KittyLocks
<1>5. k.vk # 0
  BY CodeRange
<1>6. KeyEvent(r) = IF AcceptsLegacy(r) THEN LegacyCSIEvent(r) ELSE KittyEvent(r)
  BY <1>1 DEF KeyEvent, CSIEvent
<1>7. AcceptsLegacy(r) => type = 1 /\ k.final # "u"
  BY <1>1, <1>3 DEF AcceptsLegacy
<1>8. TellsLocks(r) <=> ~AcceptsLegacy(r)
  BY <1>1 DEF TellsLocks
<1>9. CASE AcceptsLegacy(r)
  <2>1. /\ KeyEvent(r).vk = k.vk /\ KeyEvent(r).scan = 0
        /\ KeyEvent(r).down /\ KeyEvent(r).legacy /\ KeyEvent(r).legacy \in BOOLEAN
        /\ KeyEvent(r).mods \subseteq Flags
    BY <1>3, <1>6, <1>7, <1>9, LegacyEventFields
  <2>2. k.scan = 0
    BY <1>7, <1>9, KeysKnown DEF Plain, LetterKey, DigitKey, SignKey, ControlsKey, FunctionKey, ClusterKey,
                   KeypadKey, ModifierKey, LockKey
  <2>3. TrackedVK(KeyEvent(r)) = Tracked(k)
    BY <2>1, <2>2, TrackedPlace
  <2>4. r.kind # "focus" /\ type # 3 /\ k.final # "u" /\ ~TellsLocks(r)
    BY <1>1, <1>7, <1>8, <1>9
  <2> QED BY <1>2, <2>1, <2>3, <2>4 DEF TellsKey
<1>10. CASE ~AcceptsLegacy(r)
  <2>1. /\ KeyEvent(r).vk = k.vk /\ KeyEvent(r).scan = KittyScan(r)
        /\ KeyEvent(r).down <=> type # 3
        /\ ~KeyEvent(r).legacy /\ KeyEvent(r).legacy \in BOOLEAN
        /\ KeyEvent(r).mods = KittyFlags(r)
    BY <1>1, <1>3, <1>5, <1>6, <1>10, KittyEventFields
  <2>3. TrackedVK(KeyEvent(r)) = Tracked(k)
    BY <1>3, <2>1, TrackedPlace
  <2> QED BY <1>1, <1>2, <1>4, <1>8, <1>10, <2>1, <2>3 DEF TellsKey
<1> QED BY <1>9, <1>10

LEMMA KeyTold ==
  ASSUME NEW p \in {"kitty", "win32", "far2l"}, NEW k \in Keyboard, NEW type \in 1..3,
         NEW h \in SUBSET Keyboard, NEW l \in SUBSET {"Caps", "Num"}
  PROVE  TellsKey(p, k, type, h, l)
<1>1. CASE p = "kitty"
  BY <1>1, KittyTold
<1>2. CASE p \in {"win32", "far2l"}
  <2> DEFINE r == Report(p, k, type, h, l)
  <2>1. /\ r.kind \in {"win32", "f2l"}
        /\ WindowsEvent(KeyEvent(r), k, type, h, l)
    BY <1>2, Win32Told, Far2lTold DEF Report
  <2>2. TellsLocks(r)
    BY <2>1 DEF TellsLocks
  <2> HIDE DEF r
  <2>3. /\ KeyEvent(r).vk = k.vk /\ KeyEvent(r).scan = k.scan
        /\ KeyEvent(r).down <=> type # 3
        /\ KeyEvent(r).mods = WindowsFlags(k, h, l)
        /\ ~KeyEvent(r).legacy /\ KeyEvent(r).legacy \in BOOLEAN
    BY <2>1 DEF WindowsEvent
  <2>4. TrackedVK(KeyEvent(r)) = Tracked(k)
    BY <2>3, TrackedPlace
  <2> QED BY <1>2, <2>1, <2>2, <2>3, <2>4, WindowsFlagsType DEF TellsKey, r
<1> QED BY <1>1, <1>2
-----------------------------------------------------------------------------
(***************************************************************************)
(* Without a protocol: a key that goes down, in a sequence without lock    *)
(* states; only ESC is not marked as legacy, and ESC ends the program.     *)
(***************************************************************************)
LegacyTold(r) ==
  LET e == KeyEvent(r)
  IN  /\ r.kind # "focus" /\ ~TellsLocks(r)
      /\ e.down /\ e.legacy \in BOOLEAN
      /\ e.vk \in 0..255 /\ e.mods \subseteq Flags
      /\ e.legacy \/ e.vk = VK.ESCAPE

\* An ESC in front of a byte.
WithAlt(e) == [e EXCEPT !.mods = @ \union {"LAlt"}]

\* A legacy sequence of a key that goes down.
Pressed(e, vk, char, mods) ==
  e = [vk |-> vk, scan |-> 0, char |-> char, down |-> TRUE, mods |-> mods, legacy |-> TRUE]

LEMMA PressedFields ==
  ASSUME NEW e, NEW vk, NEW char, NEW mods, Pressed(e, vk, char, mods)
  PROVE  /\ e.vk = vk /\ e.down /\ e.legacy /\ e.legacy \in BOOLEAN /\ e.mods = mods
         /\ WithAlt(e).vk = vk
         /\ WithAlt(e).mods = mods \union {"LAlt"}
         /\ WithAlt(e).down
         /\ WithAlt(e).legacy
         /\ WithAlt(e).legacy \in BOOLEAN
<1>1. e.vk = vk /\ e.down /\ e.legacy /\ e.legacy \in BOOLEAN /\ e.mods = mods
  BY DEF Pressed
<1>2. /\ WithAlt(e).vk = vk
      /\ WithAlt(e).mods = mods \union {"LAlt"}
  BY DEF Pressed, WithAlt
<1>3. WithAlt(e).down
  BY DEF Pressed, WithAlt
<1>4. /\ WithAlt(e).legacy
      /\ WithAlt(e).legacy \in BOOLEAN
  BY DEF Pressed, WithAlt
<1> QED BY <1>1, <1>2, <1>3, <1>4

\* A key or its Ctrl combination goes down, with ESC in front or without.
GoesDown(e) ==
  /\ e.vk \in 0..255 /\ e.down /\ e.legacy /\ e.legacy \in BOOLEAN /\ e.mods \subseteq Flags

LEMMA PressedGoesDown ==
  ASSUME NEW e, NEW vk \in 0..255, NEW char, NEW mods \in SUBSET {"LCtrl"},
         Pressed(e, vk, char, mods)
  PROVE  GoesDown(e) /\ GoesDown(WithAlt(e))
<1>1. mods \subseteq Flags /\ mods \union {"LAlt"} \subseteq Flags
  BY FlagNames
<1>2. /\ e.vk = vk /\ e.down /\ e.legacy /\ e.legacy \in BOOLEAN /\ e.mods = mods
      /\ WithAlt(e).vk = vk /\ WithAlt(e).down /\ WithAlt(e).legacy
      /\ WithAlt(e).legacy \in BOOLEAN /\ WithAlt(e).mods = mods \union {"LAlt"}
  BY PressedFields
<1> QED BY <1>1, <1>2 DEF GoesDown

LEMMA LegacyByteTold ==
  ASSUME NEW c \in 0..127
  PROVE  LET e == translateLegacyByte(c)
         IN  GoesDown(e) /\ GoesDown(WithAlt(e))
<1> {} \in SUBSET {"LCtrl"} /\ {"LCtrl"} \in SUBSET {"LCtrl"}
  OBVIOUS
<1>1. CASE c = 8
  <2>1. Pressed(translateLegacyByte(c), VK.BACK, 0, {})
    BY <1>1 DEF translateLegacyByte, Event, Pressed
  <2>2. VK.BACK \in 0..255
    BY Codes
  <2> QED BY <2>1, <2>2, PressedGoesDown
<1>2. CASE c = 9
  <2>1. Pressed(translateLegacyByte(c), VK.TAB, 9, {})
    BY <1>2 DEF translateLegacyByte, Event, Pressed
  <2>2. VK.TAB \in 0..255
    BY Codes
  <2> QED BY <2>1, <2>2, PressedGoesDown
<1>3. CASE c = 13
  <2>1. Pressed(translateLegacyByte(c), VK.RETURN, 13, {})
    BY <1>3 DEF translateLegacyByte, Event, Pressed
  <2>2. VK.RETURN \in 0..255
    BY Codes
  <2> QED BY <2>1, <2>2, PressedGoesDown
<1>4. CASE c = 27
  <2>1. Pressed(translateLegacyByte(c), VK.ESCAPE, 0, {})
    BY <1>4 DEF translateLegacyByte, Event, Pressed
  <2>2. VK.ESCAPE \in 0..255
    BY Codes
  <2> QED BY <2>1, <2>2, PressedGoesDown
<1>5. CASE c \in (0..31) \ {8, 9, 13, 27}
  <2>1. ControlKey(c) \in 0..255
    BY <1>5, Codes DEF ControlKey
  <2>2. Pressed(translateLegacyByte(c), ControlKey(c), IF c = 0 THEN 32 ELSE 0, {"LCtrl"})
    BY <1>5 DEF translateLegacyByte, Event, Pressed
  <2> QED BY <2>1, <2>2, PressedGoesDown
<1>6. CASE c > 31
  <2>1. Pressed(translateLegacyByte(c), 0, c, {})
    BY <1>6 DEF translateLegacyByte, Event, Pressed
  <2>2. 0 \in 0..255
    OBVIOUS
  <2> QED BY <2>1, <2>2, PressedGoesDown
<1> QED BY <1>1, <1>2, <1>3, <1>4, <1>5, <1>6

LEMMA ByteTold ==
  ASSUME NEW c \in 0..127, NEW r, r.kind = "byte", r.char = c, r.alt \in BOOLEAN
  PROVE  LegacyTold(r)
<1>1. KeyEvent(r) = ByteEvent(r)
  BY DEF KeyEvent
<1>2. ~TellsLocks(r) /\ r.kind # "focus"
  BY DEF TellsLocks
<1>3. GoesDown(ByteEvent(r)) => LegacyTold(r)
  BY <1>1, <1>2 DEF LegacyTold, GoesDown
<1>4. CASE r.alt
  <2>1. ByteEvent(r) = WithAlt(translateLegacyByte(c))
    BY <1>4 DEF ByteEvent, WithAlt
  <2> QED BY <1>3, <2>1, LegacyByteTold
<1>5. CASE ~r.alt /\ c = 27
  <2>1. ByteEvent(r) = [vk |-> VK.ESCAPE, scan |-> 0, char |-> 0, down |-> TRUE, mods |-> {},
                        legacy |-> FALSE]
    BY <1>5 DEF ByteEvent, Event
  <2>2. /\ ByteEvent(r).vk = VK.ESCAPE /\ ByteEvent(r).down /\ ByteEvent(r).mods = {}
        /\ ByteEvent(r).legacy \in BOOLEAN
    BY <2>1
  <2> QED BY <1>1, <1>2, <2>2, Codes DEF LegacyTold
<1>6. CASE ~r.alt /\ c = 127
  <2>1. Pressed(ByteEvent(r), VK.BACK, 0, {})
    BY <1>6 DEF ByteEvent, Event, Pressed
  <2>2. VK.BACK \in 0..255 /\ {} \in SUBSET {"LCtrl"}
    BY Codes
  <2> QED BY <1>3, <2>1, <2>2, PressedGoesDown
<1>7. CASE ~r.alt /\ c # 27 /\ c # 127
  <2>1. ByteEvent(r) = translateLegacyByte(c)
    BY <1>7 DEF ByteEvent
  <2> QED BY <1>3, <2>1, LegacyByteTold
<1> QED BY <1>4, <1>5, <1>6, <1>7

LEMMA SS3Told ==
  ASSUME NEW r, r.kind = "ss3", r.final \in {"P", "Q", "S"}, r.mods = {}
  PROVE  LegacyTold(r)
<1>1. LegacyFinal[r.final] \in 112..115
  BY Codes DEF LegacyFinal
<1>2. KeyEvent(r) = SS3Event(r)
  BY DEF KeyEvent
<1>3. ~TellsLocks(r) /\ r.kind # "focus"
  BY DEF TellsLocks
<1>4. decodeAnsiModifiers(r.mods) = {}
  BY DEF decodeAnsiModifiers
<1>5. /\ SS3Event(r).vk = LegacyFinal[r.final] /\ SS3Event(r).down /\ SS3Event(r).legacy
      /\ SS3Event(r).legacy \in BOOLEAN
      /\ SS3Event(r).mods \subseteq Flags
  <2>1. EnhancedIf(isEnhancedVK(LegacyFinal[r.final])) \subseteq Flags
    BY FlagNames DEF EnhancedIf
  <2>2. (IF r.mods = {} /\ r.final \in {"A", "B", "C", "D"} THEN {"LCtrl"} ELSE {}) \subseteq Flags
    BY FlagNames
  <2> QED BY <1>4, <2>1, <2>2 DEF SS3Event, Event
<1> QED BY <1>1, <1>2, <1>3, <1>5 DEF LegacyTold

LEMMA SequenceTold ==
  ASSUME NEW k \in Keyboard, k.final # "u",
         NEW r, r.kind = "csi", r.final = k.final, r.key[1] = k.code, r.key[3] = 0, ~r.colon
  PROVE  LegacyTold(r)
<1>1. LegacyVK(r) = k.vk
  BY SequenceNamesKey
<1>2. k.vk \in 1..255
  BY CodeRange
<1>3. AcceptsLegacy(r)
  BY <1>1, <1>2 DEF AcceptsLegacy
<1>4. KeyEvent(r) = LegacyCSIEvent(r) /\ ~TellsLocks(r)
  BY <1>3 DEF KeyEvent, CSIEvent, TellsLocks
<1> QED BY <1>1, <1>2, <1>4, LegacyEventFields DEF LegacyTold

LEMMA WithoutProtocolTold ==
  ASSUME NEW k \in Keyboard, NEW type \in 1..2, k.mod = "none", k.lock = "none",
         NEW h \in SUBSET Keyboard, NEW l \in SUBSET {"Caps", "Num"}
  PROVE  LegacyTold(Report("legacy", k, type, h, l))
<1> DEFINE r == LegacyReport(k, h, l)
<1>1. Report("legacy", k, type, h, l) = r
  BY DEF Report
<1>2. CASE k.char # 0
  <2>1. r = [kind |-> "byte", char |-> Char(k, h, l), alt |-> "alt" \in AnsiMods(h)]
    BY <1>2 DEF LegacyReport
  <2>2. r.kind = "byte" /\ r.char = Char(k, h, l)
    BY <2>1
  <2>3. r.alt \in BOOLEAN
    BY <2>1
  <2> HIDE DEF r
  <2> QED BY <1>1, <2>2, <2>3, CharRange, ByteTold
<1>3. CASE k.char = 0 /\ k.final \in {"P", "Q", "S"} /\ AnsiMods(h) = {}
  <2>1. r.kind = "ss3" /\ r.final = k.final /\ r.mods = {}
    BY <1>3 DEF LegacyReport
  <2> QED BY <1>1, <1>3, <2>1, SS3Told
<1>4. CASE k.char = 0 /\ ~(k.final \in {"P", "Q", "S"} /\ AnsiMods(h) = {})
  <2>1. /\ r.kind = "csi" /\ r.final = k.final /\ r.key[1] = k.code /\ r.key[3] = 0 /\ ~r.colon
    BY <1>4 DEF LegacyReport
  <2>2. k.final # "u"
    BY <1>4, KeysKnown DEF Plain, LetterKey, DigitKey, SignKey, ControlsKey, FunctionKey,
                           ClusterKey, KeypadKey, ModifierKey, LockKey
  <2> QED BY <1>1, <2>1, <2>2, SequenceTold
<1> QED BY <1>2, <1>3, <1>4
-----------------------------------------------------------------------------
(***************************************************************************)
(* The place of a key is its own, and so is the code it is kept under,     *)
(* unless it is one of two keys that share a code: Ctrl and Alt.           *)
(***************************************************************************)
SharesCode(k) == k.mod \in {"LCtrl", "RCtrl", "LAlt", "RAlt"}

LEMMA LetterPlaces ==
  ASSUME NEW k \in Letters
  PROVE  k.place \in 65..90 /\ k = Key(k.place, k.place + 32, "u", k.place + 32)
<1>1. CASE \E c \in 97..122 : k = Key(c - 32, c, "u", c)
  <2>1. PICK c \in 97..122 : k = Key(c - 32, c, "u", c)
    BY <1>1
  <2>2. k.place = c - 32
    BY <2>1, KeyFields
  <2>3. c = k.place + 32
    BY <2>2
  <2> QED BY <2>1, <2>2, <2>3
<1> QED
  BY <1>1 DEF Letters

LEMMA DigitPlaces ==
  ASSUME NEW k \in {Key(c, c, "u", c) : c \in 48..57}
  PROVE  k.place \in 48..57 /\ k = Key(k.place, k.place, "u", k.place)
<1>1. PICK c \in 48..57 : k = Key(c, c, "u", c)
  OBVIOUS
<1>2. k.place = c
  BY <1>1, KeyFields
<1> QED BY <1>1, <1>2

LEMMA KeypadPlaces ==
  ASSUME NEW k \in KeypadDigits
  PROVE  k.place \in 96..105 /\ k = Key(k.place, k.place + 57303, "u", k.place - 48)
<1>1. CASE \E n \in 0..9 : k = Key(VK.NUMPAD0 + n, 57399 + n, "u", 48 + n)
  <2>1. PICK n \in 0..9 : k = Key(VK.NUMPAD0 + n, 57399 + n, "u", 48 + n)
    BY <1>1
  <2>2. k.place = 96 + n
    BY <2>1, KeyFields, Codes
  <2>3. VK.NUMPAD0 + n = k.place /\ 57399 + n = k.place + 57303 /\ 48 + n = k.place - 48
    BY <2>2, Codes
  <2> QED BY <2>1, <2>2, <2>3
<1> QED
  BY <1>1 DEF KeypadDigits

LEMMA FunctionPlaces ==
  ASSUME NEW k \in Functions
  PROVE  /\ k.place \in 112..123
         /\ k.place = 112 => k = Key(112, 1, "P", 0)
         /\ k.place = 113 => k = Key(113, 1, "Q", 0)
         /\ k.place = 115 => k = Key(115, 1, "S", 0)
         /\ k.place = 114 => k = Key(114, 13, "~", 0)
         /\ k.place = 116 => k = Key(116, 15, "~", 0)
         /\ k.place \in 117..121 => k = Key(k.place, k.place - 100, "~", 0)
         /\ k.place \in 122..123 => k = Key(k.place, k.place - 99, "~", 0)
<1>1. CASE \E n \in 0..4 : k = Key(VK.F1 + 5 + n, 17 + n, "~", 0)
  <2>1. PICK n \in 0..4 : k = Key(VK.F1 + 5 + n, 17 + n, "~", 0)
    BY <1>1
  <2>2. k.place = 117 + n
    BY <2>1, KeyFields, Codes
  <2>3. VK.F1 + 5 + n = k.place /\ 17 + n = k.place - 100
    BY <2>2, Codes
  <2> QED BY <2>1, <2>2, <2>3
<1>2. CASE \E n \in 0..1 : k = Key(VK.F1 + 10 + n, 23 + n, "~", 0)
  <2>1. PICK n \in 0..1 : k = Key(VK.F1 + 10 + n, 23 + n, "~", 0)
    BY <1>2
  <2>2. k.place = 122 + n
    BY <2>1, KeyFields, Codes
  <2>3. VK.F1 + 10 + n = k.place /\ 23 + n = k.place - 99
    BY <2>2, Codes
  <2> QED BY <2>1, <2>2, <2>3
<1>3. CASE k = Key(VK.F1, 1, "P", 0)
  <2>1. VK.F1 = 112
    BY Codes
  <2>2. k.place = 112 /\ k = Key(112, 1, "P", 0)
    BY <1>3, <2>1, KeyFields
  <2> QED BY <2>2
<1>4. CASE k = Key(VK.F1 + 1, 1, "Q", 0)
  <2>1. VK.F1 + 1 = 113
    BY Codes
  <2>2. k.place = 113 /\ k = Key(113, 1, "Q", 0)
    BY <1>4, <2>1, KeyFields
  <2> QED BY <2>2
<1>5. CASE k = Key(VK.F1 + 3, 1, "S", 0)
  <2>1. VK.F1 + 3 = 115
    BY Codes
  <2>2. k.place = 115 /\ k = Key(115, 1, "S", 0)
    BY <1>5, <2>1, KeyFields
  <2> QED BY <2>2
<1>6. CASE k = Key(VK.F1 + 2, 13, "~", 0)
  <2>1. VK.F1 + 2 = 114
    BY Codes
  <2>2. k.place = 114 /\ k = Key(114, 13, "~", 0)
    BY <1>6, <2>1, KeyFields
  <2> QED BY <2>2
<1>7. CASE k = Key(VK.F1 + 4, 15, "~", 0)
  <2>1. VK.F1 + 4 = 116
    BY Codes
  <2>2. k.place = 116 /\ k = Key(116, 15, "~", 0)
    BY <1>7, <2>1, KeyFields
  <2> QED BY <2>2
<1> QED
  BY <1>1, <1>2, <1>3, <1>4, <1>5, <1>6, <1>7 DEF Functions

LEMMA SameFunction ==
  ASSUME NEW k \in Functions, NEW m \in Functions, k.place = m.place
  PROVE  k = m
<1>1. k.place \in {112, 113, 114, 115, 116} \/ k.place \in 117..121 \/ k.place \in 122..123
  BY FunctionPlaces
<1>2. CASE k.place \in {112, 113, 114, 115, 116}
  BY <1>2, FunctionPlaces
<1>3. CASE k.place \in 117..121
  BY <1>3, FunctionPlaces
<1>4. CASE k.place \in 122..123
  BY <1>4, FunctionPlaces
<1> QED BY <1>1, <1>2, <1>3, <1>4

LEMMA ControlsPlaces ==
  ASSUME NEW k \in Controls
  PROVE  \/ k.place = 9 /\ k = Key(VK.TAB, 9, "u", 9)
         \/ k.place = 13 /\ k = Key(VK.RETURN, 13, "u", 13)
         \/ k.place = 27 /\ k = Key(VK.ESCAPE, 27, "u", 27)
<1>1. CASE k = Key(VK.TAB, 9, "u", 9)
  BY <1>1, KeyFields, Codes
<1>2. CASE k = Key(VK.RETURN, 13, "u", 13)
  BY <1>2, KeyFields, Codes
<1>3. CASE k = Key(VK.ESCAPE, 27, "u", 27)
  BY <1>3, KeyFields, Codes
<1> QED
  BY <1>1, <1>2, <1>3 DEF Controls

LEMMA ClusterPlaces ==
  ASSUME NEW k \in Cluster
  PROVE  \/ k.place = 38 /\ k = Navigation(VK.UP, 1, "A")
         \/ k.place = 40 /\ k = Navigation(VK.DOWN, 1, "B")
         \/ k.place = 39 /\ k = Navigation(VK.RIGHT, 1, "C")
         \/ k.place = 37 /\ k = Navigation(VK.LEFT, 1, "D")
         \/ k.place = 36 /\ k = Navigation(VK.HOME, 1, "H")
         \/ k.place = 35 /\ k = Navigation(VK.END, 1, "F")
         \/ k.place = 45 /\ k = Navigation(VK.INSERT, 2, "~")
         \/ k.place = 46 /\ k = Navigation(VK.DELETE, 3, "~")
         \/ k.place = 33 /\ k = Navigation(VK.PRIOR, 5, "~")
         \/ k.place = 34 /\ k = Navigation(VK.NEXT, 6, "~")
<1>1. CASE k = Navigation(VK.UP, 1, "A")
  BY <1>1, NavigationFields, Codes
<1>2. CASE k = Navigation(VK.DOWN, 1, "B")
  BY <1>2, NavigationFields, Codes
<1>3. CASE k = Navigation(VK.RIGHT, 1, "C")
  BY <1>3, NavigationFields, Codes
<1>4. CASE k = Navigation(VK.LEFT, 1, "D")
  BY <1>4, NavigationFields, Codes
<1>5. CASE k = Navigation(VK.HOME, 1, "H")
  BY <1>5, NavigationFields, Codes
<1>6. CASE k = Navigation(VK.END, 1, "F")
  BY <1>6, NavigationFields, Codes
<1>7. CASE k = Navigation(VK.INSERT, 2, "~")
  BY <1>7, NavigationFields, Codes
<1>8. CASE k = Navigation(VK.DELETE, 3, "~")
  BY <1>8, NavigationFields, Codes
<1>9. CASE k = Navigation(VK.PRIOR, 5, "~")
  BY <1>9, NavigationFields, Codes
<1>10. CASE k = Navigation(VK.NEXT, 6, "~")
  BY <1>10, NavigationFields, Codes
<1> QED
  BY <1>1, <1>2, <1>3, <1>4, <1>5, <1>6, <1>7, <1>8, <1>9, <1>10 DEF Cluster, Arrows

LEMMA ModifierPlaces ==
  ASSUME NEW k \in Modifiers
  PROVE  \/ k.place = 160 /\ k = Modifier("LShift", VK.LSHIFT, VK.SHIFT, LeftShift, 57441)
         \/ k.place = 161 /\ k = Modifier("RShift", VK.RSHIFT, VK.SHIFT, RightShift, 57447)
         \/ k.place = 162 /\ k = Modifier("LCtrl", VK.LCONTROL, VK.CONTROL, 29, 57442)
         \/ k.place = 163 /\ k = Modifier("RCtrl", VK.RCONTROL, VK.CONTROL, 29, 57448)
         \/ k.place = 164 /\ k = Modifier("LAlt", VK.LMENU, VK.MENU, 56, 57443)
         \/ k.place = 165 /\ k = Modifier("RAlt", VK.RMENU, VK.MENU, 56, 57449)
<1>1. CASE k = Modifier("LShift", VK.LSHIFT, VK.SHIFT, LeftShift, 57441)
  BY <1>1, ModifierFields, Codes
<1>2. CASE k = Modifier("RShift", VK.RSHIFT, VK.SHIFT, RightShift, 57447)
  BY <1>2, ModifierFields, Codes
<1>3. CASE k = Modifier("LCtrl", VK.LCONTROL, VK.CONTROL, 29, 57442)
  BY <1>3, ModifierFields, Codes
<1>4. CASE k = Modifier("RCtrl", VK.RCONTROL, VK.CONTROL, 29, 57448)
  BY <1>4, ModifierFields, Codes
<1>5. CASE k = Modifier("LAlt", VK.LMENU, VK.MENU, 56, 57443)
  BY <1>5, ModifierFields, Codes
<1>6. CASE k = Modifier("RAlt", VK.RMENU, VK.MENU, 56, 57449)
  BY <1>6, ModifierFields, Codes
<1> QED
  BY <1>1, <1>2, <1>3, <1>4, <1>5, <1>6 DEF Modifiers

LEMMA LockPlaces ==
  ASSUME NEW k \in LockKeys
  PROVE  \/ k.place = 20 /\ k = Lock("Caps", VK.CAPITAL, 57358)
         \/ k.place = 144 /\ k = Lock("Num", VK.NUMLOCK, 57360)
<1>1. CASE k = Lock("Caps", VK.CAPITAL, 57358)
  BY <1>1, LockFields, Codes
<1>2. CASE k = Lock("Num", VK.NUMLOCK, 57360)
  BY <1>2, LockFields, Codes
<1> QED
  BY <1>1, <1>2 DEF LockKeys

LEMMA CharacterPlaces ==
  ASSUME NEW k \in Characters
  PROVE  \/ k.place \in 65..90 /\ k = Key(k.place, k.place + 32, "u", k.place + 32)
         \/ k.place \in 48..57 /\ k = Key(k.place, k.place, "u", k.place)
         \/ k.place = 192 /\ k = Key(VK.OEM_3, 96, "u", 96)
         \/ k.place = 219 /\ k = Key(VK.OEM_4, 91, "u", 91)
         \/ k.place = 186 /\ k = Key(VK.OEM_1, 59, "u", 59)
<1>1. CASE k \in Letters
  BY <1>1, LetterPlaces
<1>2. CASE k \in {Key(c, c, "u", c) : c \in 48..57}
  BY <1>2, DigitPlaces
<1>3. CASE k = Key(VK.OEM_3, 96, "u", 96)
  BY <1>3, KeyFields, Codes
<1>4. CASE k = Key(VK.OEM_4, 91, "u", 91)
  BY <1>4, KeyFields, Codes
<1>5. CASE k = Key(VK.OEM_1, 59, "u", 59)
  BY <1>5, KeyFields, Codes
<1> QED
  BY <1>1, <1>2, <1>3, <1>4, <1>5 DEF Characters

LEMMA PlaceRanges ==
  ASSUME NEW k \in Keyboard
  PROVE  /\ k \in Characters => k.place \in (48..57) \union (65..90) \union {186, 192, 219}
         /\ k \in Controls => k.place \in {9, 13, 27}
         /\ k \in Functions => k.place \in 112..123
         /\ k \in Cluster => k.place \in (33..40) \union {45, 46}
         /\ k \in KeypadDigits => k.place \in 96..105
         /\ k \in Modifiers => k.place \in 160..165
         /\ k \in LockKeys => k.place \in {20, 144}
<1>1. k \in Characters => k.place \in (48..57) \union (65..90) \union {186, 192, 219}
  BY CharacterPlaces
<1>2. k \in Controls => k.place \in {9, 13, 27}
  BY ControlsPlaces
<1>3. k \in Cluster => k.place \in (33..40) \union {45, 46}
  BY ClusterPlaces
<1>4. k \in Modifiers => k.place \in 160..165
  BY ModifierPlaces
<1>5. k \in LockKeys => k.place \in {20, 144}
  BY LockPlaces
<1>6. k \in Functions => k.place \in 112..123
  BY FunctionPlaces
<1>7. k \in KeypadDigits => k.place \in 96..105
  BY KeypadPlaces
<1> QED BY <1>1, <1>2, <1>3, <1>4, <1>5, <1>6, <1>7

LEMMA PlaceIsOwn ==
  ASSUME NEW k \in Keyboard, NEW m \in Keyboard, k.place = m.place
  PROVE  k = m
<1>1. \/ k \in Characters /\ m \in Characters
      \/ k \in Controls /\ m \in Controls
      \/ k \in Functions /\ m \in Functions
      \/ k \in Cluster /\ m \in Cluster
      \/ k \in KeypadDigits /\ m \in KeypadDigits
      \/ k \in Modifiers /\ m \in Modifiers
      \/ k \in LockKeys /\ m \in LockKeys
  <2>1. CASE k \in Characters
    BY <2>1, PlaceRanges DEF Keyboard
  <2>2. CASE k \in Controls
    BY <2>2, PlaceRanges DEF Keyboard
  <2>3. CASE k \in Functions
    BY <2>3, PlaceRanges DEF Keyboard
  <2>4. CASE k \in Cluster
    BY <2>4, PlaceRanges DEF Keyboard
  <2>5. CASE k \in KeypadDigits
    BY <2>5, PlaceRanges DEF Keyboard
  <2>6. CASE k \in Modifiers
    BY <2>6, PlaceRanges DEF Keyboard
  <2>7. CASE k \in LockKeys
    BY <2>7, PlaceRanges DEF Keyboard
  <2> QED BY <2>1, <2>2, <2>3, <2>4, <2>5, <2>6, <2>7 DEF Keyboard
<1>2. CASE k \in Characters /\ m \in Characters
  BY <1>2, CharacterPlaces
<1>3. CASE k \in Controls /\ m \in Controls
  BY <1>3, ControlsPlaces
<1>4. CASE k \in Functions /\ m \in Functions
  BY <1>4, SameFunction
<1>5. CASE k \in Cluster /\ m \in Cluster
  BY <1>5, ClusterPlaces
<1>6. CASE k \in KeypadDigits /\ m \in KeypadDigits
  BY <1>6, KeypadPlaces
<1>7. CASE k \in Modifiers /\ m \in Modifiers
  BY <1>7, ModifierPlaces
<1>8. CASE k \in LockKeys /\ m \in LockKeys
  BY <1>8, LockPlaces
<1> QED BY <1>1, <1>2, <1>3, <1>4, <1>5, <1>6, <1>7, <1>8

LEMMA TrackedIsOwn ==
  ASSUME NEW k \in Keyboard, NEW m \in Keyboard, ~SharesCode(k), Tracked(k) = Tracked(m)
  PROVE  k = m
<1>1. \A x \in Keyboard :
        /\ ~SharesCode(x) => Tracked(x) = x.place
        /\ SharesCode(x) => Tracked(x) \in {17, 18}
  BY KeysKnown, Codes
     DEF Tracked, SharesCode, Plain, LetterKey, DigitKey, SignKey, ControlsKey, FunctionKey, ClusterKey,
         KeypadKey, ModifierKey, LockKey
<1>2. k.place \notin {17, 18}
  BY KeysKnown
     DEF Plain, LetterKey, DigitKey, SignKey, ControlsKey, FunctionKey, ClusterKey, KeypadKey,
         ModifierKey, LockKey
<1> QED BY <1>1, <1>2, PlaceIsOwn
-----------------------------------------------------------------------------
(***************************************************************************)
(* The inductive invariant.                                                *)
(***************************************************************************)
Entries ==
  {[report |-> FocusReport]} \union
  {[key |-> k, type |-> t, report |-> Report(p, k, t, h, l)] :
     p \in Protocols, k \in Keys, t \in 1..3, h \in SUBSET Keys, l \in SUBSET {"Caps", "Num"}}

IsFocus(x) == x.report.kind = "focus"

\* What a report in protocol p says of its key, whatever else was held.
SaysKey(p, x) ==
  LET e == KeyEvent(x.report)
  IN  /\ e.vk = x.key.vk /\ TrackedVK(e) = Tracked(x.key)
      /\ e.down <=> x.type # 3
      /\ e.mods \subseteq Flags /\ e.legacy \in BOOLEAN
      /\ (p \in {"win32", "far2l"} \/ x.key.final = "u") => ~e.legacy

Sent(p, x) == IF p = "legacy" THEN LegacyTold(x.report) ELSE SaysKey(p, x)

QueueTyping ==
  /\ queue \in Seq(Entries)
  /\ \A i \in DOMAIN queue : ~IsFocus(queue[i]) =>
       queue[i].key \in Keys /\ queue[i].type \in 1..3 /\ Sent(protocol, queue[i])

Typing == protocol \in Protocols /\ TypeOK /\ QueueTyping

\* A press on its way, of a key that is up again, has its release behind it.
ReleaseFollows ==
  protocol # "legacy" => \A i \in DOMAIN queue :
    (~IsFocus(queue[i]) /\ queue[i].type # 3) =>
      \/ queue[i].key \in held \union lost
      \/ \E j \in DOMAIN queue : /\ j > i /\ ~IsFocus(queue[j]) /\ queue[j].type = 3
                                 /\ queue[j].key = queue[i].key

OnlyReported ==
  pc = "run" /\ protocol = "legacy" =>
    \A vk \in DOMAIN pressedKeys : pressedKeys[vk].legacy

InTable(k) ==
  /\ Tracked(k) \in DOMAIN pressedKeys
  /\ pressedKeys[Tracked(k)].down /\ ~pressedKeys[Tracked(k)].legacy

PressSent(k, i) ==
  \E j \in DOMAIN queue : j > i /\ ~IsFocus(queue[j]) /\ queue[j].key = k /\ queue[j].type # 3

\* A key that is held is in the table or will be, and no report that is older
\* than its last press takes it away for good.
PressFollows ==
  pc = "run" => \A k \in held : (Told(k) /\ ~SharesCode(k)) =>
    /\ InTable(k) \/ PressSent(k, 0)
    /\ \A i \in DOMAIN queue :
         (~IsFocus(queue[i]) /\ queue[i].key = k /\ queue[i].type = 3) => PressSent(k, i)

\* No key is held while another window gets the keys.
FocusHolds == ~focused => held = {}

\* The modifiers that are shown once all reports are handled.
LastMods ==
  IF queue = <<>> THEN currentMods
  ELSE IF IsFocus(queue[Len(queue)]) THEN {} ELSE KeyEvent(queue[Len(queue)].report).mods

ModifiersFollow ==
  protocol \in {"win32", "far2l"} /\ pc = "run" =>
    \A k \in held : SharesCode(k) => k.mod \in LastMods

\* What the program makes of the lock x in a report: nothing, what it was, or
\* a value of its own.
Silent(r)     == r.kind = "focus" \/ ~TellsLocks(r)
Neutral(r, x) == /\ ~Silent(r)
                 /\ LockOf(KeyEvent(r).vk) # "none"
                 /\ ~KeyEvent(r).down \/ LockOf(KeyEvent(r).vk) # x
LockOn(r, x)  == IF LockOf(KeyEvent(r).vk) = "none" THEN x \in KeyEvent(r).mods
                 ELSE x \notin KeyEvent(r).mods

\* The last report with a value has the right one; if there is none, what the
\* program has now is right.
LockFollows(x) ==
  /\ \A i \in DOMAIN queue :
       (/\ ~Silent(queue[i].report) /\ ~Neutral(queue[i].report, x)
        /\ \A j \in DOMAIN queue : j > i => Neutral(queue[j].report, x))
         => (LockOn(queue[i].report, x) <=> x \in locks)
  /\ (x \in told /\ \A j \in DOMAIN queue : Neutral(queue[j].report, x))
       => (x \in currentMods <=> x \in locks)

LocksFollow ==
  /\ told \subseteq {"Caps", "Num"}
  /\ protocol = "legacy" => told = {} /\ \A i \in DOMAIN queue : Silent(queue[i].report)
  /\ LockFollows("Caps") /\ LockFollows("Num")

IInv ==
  /\ Typing /\ ReleaseFollows /\ OnlyReported /\ StuckNeedsLostRelease
  /\ FocusHolds /\ PressFollows /\ ModifiersFollow /\ LocksFollow
-----------------------------------------------------------------------------
(***************************************************************************)
(* The queue: an entry is added at its end, or taken from its front.       *)
(***************************************************************************)
QueueGrows ==
  /\ queue' \in Seq(Entries) /\ Len(queue') = Len(queue) + 1
  /\ \A i \in 1..Len(queue) : queue'[i] = queue[i]

QueueShrinks ==
  /\ queue' \in Seq(Entries) /\ Len(queue) > 0 /\ Len(queue') = Len(queue) - 1
  /\ \A i \in 1..Len(queue') : queue'[i] = queue[i + 1]

NewEntry == queue'[Len(queue) + 1]

LEMMA Growing ==
  ASSUME queue \in Seq(Entries), NEW x \in Entries, queue' = Append(queue, x)
  PROVE  QueueGrows /\ NewEntry = x
<1>1. /\ Append(queue, x) \in Seq(Entries) /\ Len(Append(queue, x)) = Len(queue) + 1
      /\ \A i \in 1..Len(queue) : Append(queue, x)[i] = queue[i]
      /\ Append(queue, x)[Len(queue) + 1] = x
  BY AppendProperties
<1> QED BY <1>1 DEF QueueGrows, NewEntry

LEMMA Shrinking ==
  ASSUME queue \in Seq(Entries), queue # <<>>, queue' = Tail(queue)
  PROVE  QueueShrinks /\ Head(queue) = queue[1]
<1>1. Head(queue) = queue[1]
  OBVIOUS
<1>2. /\ Tail(queue) \in Seq(Entries)
      /\ Len(Tail(queue)) = Len(queue) - 1
      /\ \A i \in 1..Len(Tail(queue)) : Tail(queue)[i] = queue[i + 1]
  OBVIOUS
<1>3. Len(queue) > 0
  OBVIOUS
<1> QED BY <1>1, <1>2, <1>3 DEF QueueShrinks

LEMMA FocusEntry ==
  [report |-> FocusReport] \in Entries /\ IsFocus([report |-> FocusReport])
BY DEF Entries, IsFocus, FocusReport

LEMMA LockNames ==
  ASSUME NEW k \in Keyboard
  PROVE  /\ k.lock \in {"none", "Caps", "Num"} /\ LockOf(k.vk) = k.lock
         /\ k.lock # "none" => k.final = "u"
         /\ SharesCode(k) => /\ k.mod \in {"LCtrl", "RCtrl", "LAlt", "RAlt"}
                             /\ k.lock = "none" /\ k.place = Fallback[k.mod]
BY KeysKnown, Codes
   DEF LockOf, SharesCode, Fallback, Plain, LetterKey, DigitKey, SignKey, ControlsKey, FunctionKey,
       ClusterKey, KeypadKey, ModifierKey, LockKey

LEMMA LocksUsedNames ==
  LocksUsed \subseteq {"Caps", "Num"}
BY LockNames, KeysAssumption DEF LocksUsed

\* The report of a key says what an entry of the queue has to say.
LEMMA EntrySent ==
  ASSUME protocol \in Protocols, NEW k \in Keys, NEW type \in 1..3,
         NEW h \in SUBSET Keys, NEW l \in SUBSET {"Caps", "Num"}, Reported(protocol, k, type),
         NEW x, x = [key |-> k, type |-> type, report |-> Report(protocol, k, type, h, l)]
  PROVE  /\ x \in Entries
         /\ x.key = k /\ x.type = type /\ x.report = Report(protocol, k, type, h, l)
         /\ ~IsFocus(x) /\ Sent(protocol, x)
         /\ protocol # "legacy" => TellsKey(protocol, k, type, h, l)
         /\ protocol = "legacy" => LegacyTold(x.report)
<1>1. x \in Entries
  <2>1. \E p \in Protocols, k1 \in Keys, t1 \in 1..3, h1 \in SUBSET Keys, l1 \in SUBSET {"Caps", "Num"} :
          x = [key |-> k1, type |-> t1, report |-> Report(p, k1, t1, h1, l1)]
    <3> WITNESS protocol \in Protocols, k \in Keys, type \in 1..3, h \in SUBSET Keys,
                l \in SUBSET {"Caps", "Num"}
    <3> QED OBVIOUS
  <2> QED BY <2>1 DEF Entries
<1>2. x.key = k /\ x.type = type /\ x.report = Report(protocol, k, type, h, l)
  OBVIOUS
<1>3. k \in Keyboard /\ h \in SUBSET Keyboard
  BY KeysAssumption
<1>4. CASE protocol = "legacy"
  <2>1. type \in 1..2 /\ k.mod = "none" /\ k.lock = "none"
    BY <1>4 DEF Reported
  <2>2. LegacyTold(x.report)
    BY <1>2, <1>3, <1>4, <2>1, WithoutProtocolTold
  <2>3. ~IsFocus(x)
    BY <2>2 DEF LegacyTold, IsFocus
  <2> QED BY <1>1, <1>2, <1>4, <2>2, <2>3 DEF Sent
<1>5. CASE protocol # "legacy"
  <2>1. protocol \in {"kitty", "win32", "far2l"}
    BY <1>5, CheckAssumption
  <2>2. TellsKey(protocol, k, type, h, l)
    BY <1>3, <2>1, KeyTold
  <2>3. ~IsFocus(x)
    BY <1>2, <2>2 DEF TellsKey, IsFocus
  <2>4. SaysKey(protocol, x)
    BY <1>2, <2>2 DEF TellsKey, SaysKey
  <2> QED BY <1>1, <1>2, <1>5, <2>2, <2>3, <2>4 DEF Sent
<1> QED BY <1>4, <1>5

\* What Enqueue does: nothing, or the report is behind all others.
Adds(k, type, l) ==
  /\ QueueGrows
  /\ NewEntry.key = k /\ NewEntry.type = type
  /\ NewEntry.report = Report(protocol, k, type, held', l)
  /\ ~IsFocus(NewEntry) /\ Sent(protocol, NewEntry)
  /\ protocol # "legacy" => TellsKey(protocol, k, type, held', l)
  /\ protocol = "legacy" => LegacyTold(NewEntry.report)

LEMMA Enqueued ==
  ASSUME Typing, NEW k \in Keys, NEW type \in 1..3, NEW l \in SUBSET {"Caps", "Num"},
         held' \in SUBSET Keys, Enqueue(k, type, l)
  PROVE  \/ protocol = "legacy" /\ queue' = queue
         \/ Adds(k, type, l)
<1> DEFINE x == [key |-> k, type |-> type, report |-> Report(protocol, k, type, held', l)]
<1>1. CASE Reported(protocol, k, type)
  <2>1. queue' = Append(queue, x)
    BY <1>1 DEF Enqueue
  <2> HIDE DEF x
  <2>2. /\ x \in Entries
        /\ x.key = k /\ x.type = type /\ x.report = Report(protocol, k, type, held', l)
        /\ ~IsFocus(x) /\ Sent(protocol, x)
        /\ protocol # "legacy" => TellsKey(protocol, k, type, held', l)
        /\ protocol = "legacy" => LegacyTold(x.report)
    BY <1>1, EntrySent DEF Typing, x
  <2>3. QueueGrows /\ NewEntry = x
    BY <2>1, <2>2, Growing DEF Typing, QueueTyping
  <2> QED BY <2>2, <2>3 DEF Adds
<1>2. CASE ~Reported(protocol, k, type)
  BY <1>2 DEF Enqueue, Reported
<1> QED BY <1>1, <1>2
-----------------------------------------------------------------------------
(***************************************************************************)
(* The steps of the program.                                               *)
(***************************************************************************)
Row == [age : 0..4, legacy : BOOLEAN, down : BOOLEAN]

TableType == \A vk \in DOMAIN pressedKeys : pressedKeys[vk] \in Row

LEMMA KeyDown ==
  ASSUME NEW e, e.down, e.legacy \in BOOLEAN, TableType
  PROVE  /\ DOMAIN PressedAfter(e) = DOMAIN pressedKeys \union {TrackedVK(e)}
         /\ PressedAfter(e)[TrackedVK(e)] \in Row
         /\ PressedAfter(e)[TrackedVK(e)].down
         /\ PressedAfter(e)[TrackedVK(e)].legacy <=> e.legacy
         /\ \A x \in DOMAIN pressedKeys : x # TrackedVK(e) => PressedAfter(e)[x] = pressedKeys[x]
<1> DEFINE vk == TrackedVK(e)
           new == [age |-> 0, legacy |-> e.legacy, down |-> TRUE]
<1>1. PressedAfter(e) = [x \in DOMAIN pressedKeys \union {vk} |-> IF x = vk THEN new ELSE pressedKeys[x]]
  BY DEF PressedAfter
<1>2. new \in Row /\ new.down /\ (new.legacy <=> e.legacy)
  BY DEF Row
<1> HIDE DEF vk, new
<1>3. /\ DOMAIN PressedAfter(e) = DOMAIN pressedKeys \union {vk}
      /\ PressedAfter(e)[vk] = new
      /\ \A x \in DOMAIN pressedKeys : x # vk => PressedAfter(e)[x] = pressedKeys[x]
  BY <1>1
<1> QED BY <1>2, <1>3 DEF vk

LEMMA KeyUp ==
  ASSUME NEW e, ~e.down, TableType
  PROVE  /\ DOMAIN PressedAfter(e) = DOMAIN pressedKeys
         /\ \A x \in DOMAIN pressedKeys :
              IF x = TrackedVK(e) THEN PressedAfter(e)[x] \in Row /\ ~PressedAfter(e)[x].down
                                       /\ (PressedAfter(e)[x].legacy <=> pressedKeys[x].legacy)
                                  ELSE PressedAfter(e)[x] = pressedKeys[x]
<1> DEFINE vk == TrackedVK(e)
<1>1. CASE vk \in DOMAIN pressedKeys
  <2>1. PressedAfter(e) = [pressedKeys EXCEPT ![vk].down = FALSE]
    BY <1>1 DEF PressedAfter
  <2> HIDE DEF vk
  <2>2. /\ DOMAIN PressedAfter(e) = DOMAIN pressedKeys
        /\ PressedAfter(e)[vk] = [pressedKeys[vk] EXCEPT !.down = FALSE]
        /\ \A x \in DOMAIN pressedKeys : x # vk => PressedAfter(e)[x] = pressedKeys[x]
    BY <1>1, <2>1
  <2>3. pressedKeys[vk] \in Row
    BY <1>1 DEF TableType
  <2>4. \A row \in Row : /\ [row EXCEPT !.down = FALSE] \in Row
                         /\ ~[row EXCEPT !.down = FALSE].down
                         /\ [row EXCEPT !.down = FALSE].legacy <=> row.legacy
    BY DEF Row
  <2>5. /\ PressedAfter(e)[vk] \in Row /\ ~PressedAfter(e)[vk].down
        /\ PressedAfter(e)[vk].legacy <=> pressedKeys[vk].legacy
    BY <2>2, <2>3, <2>4
  <2>6. \A x \in DOMAIN pressedKeys :
          IF x = vk THEN PressedAfter(e)[x] \in Row /\ ~PressedAfter(e)[x].down
                          /\ (PressedAfter(e)[x].legacy <=> pressedKeys[x].legacy)
                     ELSE PressedAfter(e)[x] = pressedKeys[x]
    BY <2>2, <2>5
  <2> QED BY <2>2, <2>6 DEF vk
<1>2. CASE vk \notin DOMAIN pressedKeys
  BY <1>2 DEF PressedAfter
<1> QED BY <1>1, <1>2

LEMMA ModsAfterFacts ==
  ASSUME NEW e, e.mods \subseteq Flags, currentMods \subseteq Flags
  PROVE  /\ ModsAfter(e) \subseteq Flags
         /\ LockOf(e.vk) = "none" => ModsAfter(e) = e.mods
         /\ ModsAfter(e) \ Locks = e.mods \ Locks
         /\ LockOf(e.vk) # "none" => \A x \in Locks :
              x \in ModsAfter(e) <=> IF e.down /\ x = LockOf(e.vk) THEN x \notin e.mods
                                     ELSE x \in currentMods
<1>1. LockOf(e.vk) \in {"Caps", "Num", "Scroll", "none"}
  BY DEF LockOf
<1>2. CASE LockOf(e.vk) = "none"
  BY <1>2 DEF ModsAfter
<1>3. CASE LockOf(e.vk) # "none"
  <2> DEFINE lock == LockOf(e.vk)
             kept == currentMods \intersect Locks
             new  == CASE ~e.down                      -> kept
                       [] e.down /\ lock \in e.mods    -> kept \ {lock}
                       [] e.down /\ lock \notin e.mods -> kept \union {lock}
  <2>1. ModsAfter(e) = (e.mods \ Locks) \union new
    BY <1>3 DEF ModsAfter
  <2>2. lock \in Locks
    BY <1>1, <1>3 DEF Locks
  <2>3. new \subseteq Locks /\ kept \subseteq Locks
    <3>1. CASE ~e.down
      BY <3>1
    <3>2. CASE e.down /\ lock \in e.mods
      BY <3>2
    <3>3. CASE e.down /\ lock \notin e.mods
      BY <2>2, <3>3
    <3> QED BY <3>1, <3>2, <3>3
  <2>4. \A x \in Locks : x \in new <=> IF e.down /\ x = lock THEN x \notin e.mods ELSE x \in currentMods
    <3>1. CASE ~e.down
      BY <3>1
    <3>2. CASE e.down /\ lock \in e.mods
      BY <3>2
    <3>3. CASE e.down /\ lock \notin e.mods
      BY <3>3
    <3> QED BY <3>1, <3>2, <3>3
  <2> HIDE DEF new, kept
  <2>5. Locks \subseteq Flags
    BY FlagNames DEF Locks
  <2>6. ModsAfter(e) \subseteq Flags /\ ModsAfter(e) \ Locks = e.mods \ Locks
    BY <2>1, <2>3, <2>5
  <2>7. \A x \in Locks : x \in ModsAfter(e) <=> x \in new
    BY <2>1
  <2> QED BY <1>3, <2>4, <2>6, <2>7
<1> QED BY <1>2, <1>3

\* Only keys that are up, or came in a legacy sequence, leave the table.
LEMMA Ticked ==
  ASSUME TableType, Tick
  PROVE  /\ DOMAIN pressedKeys' \subseteq DOMAIN pressedKeys
         /\ \A vk \in DOMAIN pressedKeys' :
              /\ pressedKeys'[vk] \in Row
              /\ pressedKeys'[vk].down <=> pressedKeys[vk].down
              /\ pressedKeys'[vk].legacy <=> pressedKeys[vk].legacy
         /\ \A vk \in DOMAIN pressedKeys :
              pressedKeys[vk].down /\ ~pressedKeys[vk].legacy => vk \in DOMAIN pressedKeys'
<1> DEFINE Older(row) == [row EXCEPT !.age = IF @ = 4 THEN 4 ELSE @ + 1]
           older == [vk \in DOMAIN pressedKeys |-> Older(pressedKeys[vk])]
<1>1. \A row \in Row : /\ Older(row) \in Row
                       /\ Older(row).down <=> row.down
                       /\ Older(row).legacy <=> row.legacy
  BY DEF Row
<1>2. \A row \in Row : row.down /\ ~row.legacy => ~Expired(row)
  BY DEF Row, Expired
<1>3. pressedKeys' = [vk \in {v \in DOMAIN older : ~Expired(older[v])} |-> older[vk]]
  BY DEF Tick
<1> HIDE DEF Older
<1>4. DOMAIN older = DOMAIN pressedKeys /\ \A vk \in DOMAIN pressedKeys : older[vk] = Older(pressedKeys[vk])
  OBVIOUS
<1> HIDE DEF older
<1>5. /\ DOMAIN pressedKeys' = {v \in DOMAIN older : ~Expired(older[v])}
      /\ \A vk \in DOMAIN pressedKeys' : pressedKeys'[vk] = older[vk]
  BY <1>3
<1>6. \A vk \in DOMAIN pressedKeys : /\ older[vk] \in Row
                                     /\ older[vk].down <=> pressedKeys[vk].down
                                     /\ older[vk].legacy <=> pressedKeys[vk].legacy
  BY <1>1, <1>4 DEF TableType
<1>7. \A vk \in DOMAIN pressedKeys :
        pressedKeys[vk].down /\ ~pressedKeys[vk].legacy => vk \in DOMAIN pressedKeys'
  BY <1>2, <1>4, <1>5, <1>6
<1>8. DOMAIN pressedKeys' \subseteq DOMAIN pressedKeys
  BY <1>4, <1>5
<1> QED BY <1>5, <1>6, <1>7, <1>8

LEMMA ToldByFacts ==
  ASSUME NEW r, NEW e, told \subseteq Locks
  PROVE  /\ ToldBy(r, e) \subseteq Locks
         /\ ~TellsLocks(r) => ToldBy(r, e) = {}
         /\ (TellsLocks(r) /\ LockOf(e.vk) = "none") => ToldBy(r, e) = {"Caps", "Num"}
         /\ (TellsLocks(r) /\ LockOf(e.vk) # "none" /\ e.down) => ToldBy(r, e) = told \union {LockOf(e.vk)}
         /\ (TellsLocks(r) /\ LockOf(e.vk) # "none" /\ ~e.down) => ToldBy(r, e) = told
<1>1. LockOf(e.vk) \in {"Caps", "Num", "Scroll", "none"}
  BY DEF LockOf
<1>2. CASE ~TellsLocks(r)
  BY <1>2 DEF ToldBy, Locks
<1>3. CASE TellsLocks(r) /\ LockOf(e.vk) = "none"
  BY <1>3 DEF ToldBy, Locks
<1>4. CASE TellsLocks(r) /\ LockOf(e.vk) # "none" /\ e.down
  BY <1>1, <1>4 DEF ToldBy, Locks
<1>5. CASE TellsLocks(r) /\ LockOf(e.vk) # "none" /\ ~e.down
  BY <1>1, <1>5 DEF ToldBy, Locks
<1> QED BY <1>2, <1>3, <1>4, <1>5
-----------------------------------------------------------------------------
LEMMA QueueTyped ==
  ASSUME Typing, protocol' = protocol,
         \/ queue' = queue
         \/ QueueShrinks
         \/ QueueGrows /\ IsFocus(NewEntry)
         \/ QueueGrows /\ NewEntry.key \in Keys /\ NewEntry.type \in 1..3 /\ Sent(protocol, NewEntry)
  PROVE  QueueTyping'
<1>1. queue' \in Seq(Entries)
  BY DEF Typing, QueueTyping, QueueShrinks, QueueGrows
<1>2. SUFFICES ASSUME NEW i \in DOMAIN queue', ~IsFocus(queue'[i])
               PROVE  queue'[i].key \in Keys /\ queue'[i].type \in 1..3 /\ Sent(protocol, queue'[i])
  BY <1>1 DEF QueueTyping, IsFocus
<1>3. queue \in Seq(Entries) /\ DOMAIN queue' = 1..Len(queue') /\ DOMAIN queue = 1..Len(queue)
  BY <1>1 DEF Typing, QueueTyping
<1>4. CASE queue' = queue
  BY <1>2, <1>4 DEF Typing, QueueTyping
<1>5. CASE QueueShrinks
  <2>1. queue'[i] = queue[i + 1] /\ i + 1 \in DOMAIN queue
    BY <1>2, <1>3, <1>5 DEF QueueShrinks
  <2> QED BY <1>2, <2>1 DEF Typing, QueueTyping
<1>6. CASE QueueGrows /\ (IsFocus(NewEntry) \/ (NewEntry.key \in Keys /\ NewEntry.type \in 1..3 /\ Sent(protocol, NewEntry)))
  <2>1. CASE i = Len(queue) + 1
    BY <1>2, <1>6, <2>1 DEF NewEntry
  <2>2. CASE i # Len(queue) + 1
    <3>1. queue'[i] = queue[i] /\ i \in DOMAIN queue
      BY <1>3, <1>6, <2>2 DEF QueueGrows
    <3> QED BY <1>2, <3>1 DEF Typing, QueueTyping
  <2> QED BY <2>1, <2>2
<1> QED BY <1>4, <1>5, <1>6

\* A step that takes a report of a key from the queue.
Handling(r, e) ==
  /\ QueueShrinks /\ ~IsFocus(queue[1]) /\ r = queue[1].report /\ e = KeyEvent(r)
  /\ queue[1].key \in Keys /\ queue[1].type \in 1..3 /\ Sent(protocol, queue[1])
  /\ e.mods \subseteq Flags /\ e.legacy \in BOOLEAN /\ TrackedVK(e) \in Word
  /\ currentMods' = ModsAfter(e) /\ pressedKeys' = PressedAfter(e)
  /\ pc' = (IF isExitEvent(e) THEN "exited" ELSE "run") /\ told' = ToldBy(r, e)

LEMMA TrackedRange ==
  ASSUME NEW k \in Keyboard
  PROVE  Tracked(k) \in Word
<1>1. k.place \in 0..255 /\ k.vk \in 0..255
  BY KeysKnown
     DEF Plain, LetterKey, DigitKey, SignKey, ControlsKey, FunctionKey, ClusterKey, KeypadKey,
         ModifierKey, LockKey
<1> QED BY <1>1 DEF Tracked, Word

LEMMA KeyHandled ==
  ASSUME Typing, HandleKey
  PROVE  Handling(queue[1].report, KeyEvent(queue[1].report)) /\ UNCHANGED keyboard
<1> DEFINE r == queue[1].report
           e == KeyEvent(r)
<1>1. QueueShrinks /\ Head(queue) = queue[1]
  BY Shrinking DEF Typing, QueueTyping, HandleKey
<1>2. ~IsFocus(queue[1])
  BY <1>1 DEF HandleKey, IsFocus
<1>3. 1 \in DOMAIN queue
  BY <1>1 DEF QueueShrinks, Typing, QueueTyping
<1>4. queue[1].key \in Keys /\ queue[1].type \in 1..3 /\ Sent(protocol, queue[1])
  BY <1>2, <1>3 DEF Typing, QueueTyping
<1>5. e.mods \subseteq Flags /\ e.legacy \in BOOLEAN /\ TrackedVK(e) \in Word
  <2>1. CASE protocol = "legacy"
    <3>1. e.mods \subseteq Flags /\ e.legacy \in BOOLEAN /\ e.vk \in 0..255
      BY <1>4, <2>1 DEF Sent, LegacyTold
    <3> HIDE DEF e
    <3> QED BY <3>1, Codes DEF TrackedVK, Word
  <2>2. CASE protocol # "legacy"
    <3>1. e.mods \subseteq Flags /\ e.legacy \in BOOLEAN /\ TrackedVK(e) = Tracked(queue[1].key)
      BY <1>4, <2>2 DEF Sent, SaysKey
    <3>2. Tracked(queue[1].key) \in Word
      BY <1>4, TrackedRange, KeysAssumption
    <3> QED BY <3>1, <3>2
  <2> QED BY <2>1, <2>2
<1>6. /\ currentMods' = ModsAfter(e) /\ pressedKeys' = PressedAfter(e)
      /\ pc' = (IF isExitEvent(e) THEN "exited" ELSE "run") /\ told' = ToldBy(r, e)
      /\ UNCHANGED keyboard
  BY <1>1 DEF HandleKey
<1> HIDE DEF r, e
<1>7. r = queue[1].report /\ e = KeyEvent(r)
  BY DEF r, e
<1>8. Handling(r, e)
  BY <1>1, <1>2, <1>4, <1>5, <1>6, <1>7 DEF Handling
<1> QED BY <1>6, <1>8 DEF r, e

LEMMA FocusHandled ==
  ASSUME Typing, HandleFocus
  PROVE  QueueShrinks /\ IsFocus(queue[1])
<1>1. QueueShrinks /\ Head(queue) = queue[1]
  BY Shrinking DEF Typing, QueueTyping, HandleFocus
<1> QED BY <1>1 DEF HandleFocus, IsFocus

LEMMA FocusSent ==
  ASSUME Typing, EnqueueFocus
  PROVE  QueueGrows /\ IsFocus(NewEntry)
BY FocusEntry, Growing DEF Typing, QueueTyping, EnqueueFocus

\* The keys held, the locks and the report of a step of the keyboard.
Stroke(k, type, l) ==
  /\ k \in Keys /\ type \in 1..3 /\ l \in SUBSET {"Caps", "Num"} /\ held' \in SUBSET Keys
  /\ \/ protocol = "legacy" /\ queue' = queue
     \/ Adds(k, type, l)
  /\ CanSend /\ UNCHANGED <<protocol, focused, program>>

LEMMA Stroked ==
  ASSUME Typing, NEW k \in Keys, NEW type \in 1..3, NEW l \in SUBSET {"Caps", "Num"},
         held' \in SUBSET Keys, Enqueue(k, type, l), CanSend, UNCHANGED <<protocol, focused, program>>
  PROVE  Stroke(k, type, l)
BY Enqueued DEF Stroke

LEMMA Pressing ==
  ASSUME Typing, Press
  PROVE  \E k \in Keys \ held :
           /\ Stroke(k, 1, locks) /\ held' = held \union {k} /\ lost' = lost \ {k}
           /\ \/ k.lock = "none" /\ locks' = locks
              \/ k.lock \in {"Caps", "Num"} /\ locks' = IF k.lock \in locks THEN locks \ {k.lock}
                                                        ELSE locks \union {k.lock}
<1>1. CanSend /\ UNCHANGED <<protocol, focused, program>>
  BY DEF Press
<1>2. PICK k \in Keys \ held :
        /\ held' = held \union {k}
        /\ locks' = IF k.lock = "none" THEN locks
                    ELSE IF k.lock \in locks THEN locks \ {k.lock} ELSE locks \union {k.lock}
        /\ lost' = lost \ {k}
        /\ Enqueue(k, 1, locks)
  BY DEF Press
<1>3. held' \in SUBSET Keys /\ locks \in SUBSET {"Caps", "Num"}
  BY <1>2 DEF Typing, TypeOK
<1>4. Stroke(k, 1, locks)
  BY <1>1, <1>2, <1>3, Stroked
<1>5. k.lock \in {"none", "Caps", "Num"}
  BY LockNames, KeysAssumption
<1> QED BY <1>2, <1>4, <1>5

LEMMA Repeating ==
  ASSUME Typing, Repeat
  PROVE  /\ held' = held /\ lost' = lost /\ locks' = locks
         /\ \E k \in held : k.lock = "none" /\ Stroke(k, 2, locks)
<1>1. CanSend /\ UNCHANGED <<protocol, focused, program>> /\ UNCHANGED <<held, lost, locks>>
  BY DEF Repeat
<1>2. PICK k \in held : k.lock = "none" /\ Enqueue(k, 2, locks)
  BY DEF Repeat
<1>3. k \in Keys /\ held' \in SUBSET Keys /\ locks \in SUBSET {"Caps", "Num"}
  BY <1>1 DEF Typing, TypeOK
<1>4. Stroke(k, 2, locks)
  BY <1>1, <1>2, <1>3, Stroked
<1> QED BY <1>1, <1>2, <1>4

LEMMA Releasing ==
  ASSUME Typing, Release
  PROVE  /\ lost' = lost /\ locks' = locks
         /\ \E k \in held, l \in SUBSET {"Caps", "Num"} :
              /\ held' = held \ {k} /\ Stroke(k, 3, l)
              /\ k.lock = "none" => l = locks
<1>1. CanSend /\ UNCHANGED <<protocol, focused, program>> /\ UNCHANGED <<lost, locks>>
  BY DEF Release
<1>2. PICK k \in held :
        /\ held' = held \ {k}
        /\ \E l \in {locks} \union (IF k.lock = "none" THEN {}
                                    ELSE {locks \ {k.lock}, locks \union {k.lock}}) :
             Enqueue(k, 3, l)
  BY DEF Release
<1>3. PICK l \in {locks} \union (IF k.lock = "none" THEN {}
                                 ELSE {locks \ {k.lock}, locks \union {k.lock}}) :
        Enqueue(k, 3, l)
  BY <1>2
<1>4. k \in Keys /\ held' \in SUBSET Keys /\ locks \in SUBSET {"Caps", "Num"}
  BY <1>2 DEF Typing, TypeOK
<1>5. k.lock \in {"none", "Caps", "Num"}
  BY <1>4, LockNames, KeysAssumption
<1>6. l \in SUBSET {"Caps", "Num"} /\ (k.lock = "none" => l = locks)
  BY <1>4, <1>5
<1>7. Stroke(k, 3, l)
  BY <1>1, <1>3, <1>4, <1>6, Stroked
<1> QED BY <1>1, <1>2, <1>6, <1>7
-----------------------------------------------------------------------------
(***************************************************************************)
(* Every step keeps the types.                                             *)
(***************************************************************************)
LEMMA StrokeTyping ==
  ASSUME Typing, NEW k, NEW type, NEW l, Stroke(k, type, l)
  PROVE  /\ protocol' = protocol /\ QueueTyping' /\ Len(queue') <= MaxQueue
         /\ held' \subseteq Keys /\ focused' = focused
         /\ pressedKeys' = pressedKeys /\ currentMods' = currentMods /\ pc' = pc /\ told' = told
<1>1. /\ protocol' = protocol /\ focused' = focused
      /\ pressedKeys' = pressedKeys /\ currentMods' = currentMods /\ pc' = pc /\ told' = told
      /\ held' \subseteq Keys
  BY DEF Stroke, program
<1>2. Len(queue) < MaxQueue /\ Len(queue) \in Nat /\ MaxQueue \in Nat
  BY CheckAssumption DEF Stroke, CanSend, Typing, QueueTyping
<1>3. CASE queue' = queue
  BY <1>1, <1>2, <1>3, QueueTyped
<1>4. CASE Adds(k, type, l)
  <2>1. /\ QueueGrows /\ NewEntry.key \in Keys /\ NewEntry.type \in 1..3
        /\ Sent(protocol, NewEntry)
    BY <1>4 DEF Adds, Stroke
  <2>2. QueueTyping'
    BY <1>1, <2>1, QueueTyped
  <2>3. Len(queue') = Len(queue) + 1
    BY <2>1 DEF QueueGrows
  <2> QED BY <1>1, <1>2, <2>2, <2>3
<1> QED BY <1>3, <1>4 DEF Stroke

LEMMA FocusTyping ==
  ASSUME Typing, EnqueueFocus, CanSend, protocol' = protocol
  PROVE  QueueTyping' /\ Len(queue') <= MaxQueue
<1>1. Len(queue) < MaxQueue /\ Len(queue) \in Nat /\ MaxQueue \in Nat
  BY CheckAssumption DEF CanSend, Typing, QueueTyping
<1>2. QueueGrows /\ IsFocus(NewEntry)
  BY FocusSent
<1>3. Len(queue') = Len(queue) + 1
  BY <1>2 DEF QueueGrows
<1> QED BY <1>1, <1>2, <1>3, QueueTyped

LEMMA HandlingTyping ==
  ASSUME Typing, protocol' = protocol, QueueShrinks
  PROVE  QueueTyping' /\ Len(queue') <= MaxQueue
<1>1. Len(queue) <= MaxQueue /\ Len(queue) \in Nat /\ MaxQueue \in Nat
  BY CheckAssumption DEF Typing, TypeOK, QueueTyping
<1>2. Len(queue') = Len(queue) - 1
  BY DEF QueueShrinks
<1> QED BY <1>1, <1>2, QueueTyped

TableTyping == \A vk \in DOMAIN pressedKeys : vk \in Word /\ pressedKeys[vk] \in Row

LEMMA TypingParts ==
  Typing <=>
    /\ protocol \in Protocols /\ QueueTyping
    /\ held \subseteq Keys /\ lost \subseteq Keys
    /\ locks \subseteq {"Caps", "Num"} /\ told \subseteq Locks /\ focused \in BOOLEAN
    /\ Len(queue) <= MaxQueue
    /\ TableTyping
    /\ currentMods \subseteq Flags
    /\ pc \in {"run", "exited", "panicked"}
BY DEF Typing, TypeOK, TableTyping, Row, Word

LEMMA TypingInit ==
  Init => Typing
<1> SUFFICES ASSUME Init PROVE Typing
  OBVIOUS
<1>1. QueueTyping
  BY DEF Init, QueueTyping
<1>2. TableTyping
  BY DEF Init, TableTyping
<1>3. locks \subseteq {"Caps", "Num"}
  BY LocksUsedNames DEF Init
<1>4. Len(queue) <= MaxQueue
  BY CheckAssumption DEF Init
<1> QED BY <1>1, <1>2, <1>3, <1>4, TypingParts DEF Init

LEMMA TypingStep ==
  ASSUME Typing, [Next]_vars
  PROVE  Typing'
<1>0. /\ protocol \in Protocols /\ QueueTyping
      /\ held \subseteq Keys /\ lost \subseteq Keys
      /\ locks \subseteq {"Caps", "Num"} /\ told \subseteq Locks /\ focused \in BOOLEAN
      /\ Len(queue) <= MaxQueue
      /\ TableTyping
      /\ currentMods \subseteq Flags
      /\ pc \in {"run", "exited", "panicked"}
  BY TypingParts
<1>rows. TableType
  BY <1>0 DEF TableTyping, TableType
<1> SUFFICES
      /\ protocol' \in Protocols /\ QueueTyping'
      /\ held' \subseteq Keys /\ lost' \subseteq Keys
      /\ locks' \subseteq {"Caps", "Num"} /\ told' \subseteq Locks /\ focused' \in BOOLEAN
      /\ Len(queue') <= MaxQueue
      /\ TableTyping'
      /\ currentMods' \subseteq Flags
      /\ pc' \in {"run", "exited", "panicked"}
  BY DEF Typing, TypeOK, TableTyping, Row, Word
<1>1. CASE Press
  <2>1. PICK k \in Keys \ held :
           /\ Stroke(k, 1, locks) /\ held' = held \union {k} /\ lost' = lost \ {k}
           /\ \/ k.lock = "none" /\ locks' = locks
              \/ k.lock \in {"Caps", "Num"} /\ locks' = IF k.lock \in locks THEN locks \ {k.lock}
                                                        ELSE locks \union {k.lock}
    BY <1>1, Pressing
  <2>2. locks' \subseteq {"Caps", "Num"} /\ lost' \subseteq Keys
    BY <1>0, <2>1
  <2> QED BY <1>0, <2>1, <2>2, StrokeTyping DEF TableTyping
<1>2. CASE Repeat
  <2>1. /\ held' = held /\ lost' = lost /\ locks' = locks
        /\ \E k \in held : Stroke(k, 2, locks)
    BY <1>2, Repeating
  <2> QED BY <1>0, <2>1, StrokeTyping DEF TableTyping
<1>3. CASE Release
  <2>1. /\ lost' = lost /\ locks' = locks
        /\ \E k \in held, l \in SUBSET {"Caps", "Num"} : Stroke(k, 3, l)
    BY <1>3, Releasing
  <2> QED BY <1>0, <2>1, StrokeTyping DEF TableTyping
<1>4. CASE FocusOut
  <2>1. EnqueueFocus /\ CanSend /\ protocol' = protocol
    BY <1>4 DEF FocusOut
  <2>2. /\ focused' = FALSE /\ held' = {} /\ lost' = lost \union held
        /\ locks' = locks /\ UNCHANGED program
    BY <1>4 DEF FocusOut
  <2> QED BY <1>0, <2>1, <2>2, FocusTyping DEF TableTyping, program
<1>5. CASE FocusIn
  <2>1. EnqueueFocus /\ CanSend /\ protocol' = protocol
    BY <1>5 DEF FocusIn
  <2>2. /\ focused' = TRUE /\ held' = held /\ lost' = lost
        /\ locks' \in SUBSET LocksUsed /\ UNCHANGED program
    BY <1>5 DEF FocusIn
  <2> QED BY <1>0, <2>1, <2>2, FocusTyping, LocksUsedNames DEF TableTyping, program
<1>6. CASE HandleKey
  <2> DEFINE r == queue[1].report
             e == KeyEvent(r)
  <2>1. Handling(r, e) /\ UNCHANGED keyboard
    BY <1>6, KeyHandled
  <2> HIDE DEF r, e
  <2>2. protocol' = protocol /\ held' = held /\ lost' = lost /\ locks' = locks /\ focused' = focused
    BY <2>1 DEF keyboard
  <2>3. QueueTyping' /\ Len(queue') <= MaxQueue
    BY <2>1, <2>2, HandlingTyping DEF Handling
  <2>4. currentMods' \subseteq Flags /\ told' \subseteq Locks
    BY <1>0, <2>1, ModsAfterFacts, ToldByFacts DEF Handling
  <2>5. pc' \in {"run", "exited", "panicked"}
    BY <2>1 DEF Handling
  <2>6. TableTyping'
    <3>1. CASE e.down
      <4>1. /\ DOMAIN PressedAfter(e) = DOMAIN pressedKeys \union {TrackedVK(e)}
            /\ PressedAfter(e)[TrackedVK(e)] \in Row
            /\ \A x \in DOMAIN pressedKeys : x # TrackedVK(e) => PressedAfter(e)[x] = pressedKeys[x]
        BY <1>rows, <2>1, <3>1, KeyDown DEF Handling
      <4>2. pressedKeys' = PressedAfter(e) /\ TrackedVK(e) \in Word
        BY <2>1 DEF Handling
      <4> QED BY <1>0, <4>1, <4>2 DEF TableTyping
    <3>2. CASE ~e.down
      BY <1>rows, <1>0, <2>1, <3>2, KeyUp DEF Handling, TableTyping
    <3> QED BY <3>1, <3>2
  <2> QED BY <1>0, <2>2, <2>3, <2>4, <2>5, <2>6
<1>7. CASE HandleFocus
  <2>1. QueueShrinks
    BY <1>7, FocusHandled
  <2>2. /\ currentMods' = {} /\ told' = {} /\ pressedKeys' = pressedKeys /\ pc' = pc
        /\ protocol' = protocol /\ held' = held /\ lost' = lost /\ locks' = locks /\ focused' = focused
    BY <1>7 DEF HandleFocus, keyboard
  <2> QED BY <1>0, <2>1, <2>2, HandlingTyping DEF TableTyping
<1>8. CASE HandleNil
  <2>1. /\ queue' = queue /\ currentMods' = currentMods /\ told' = told /\ pressedKeys' = pressedKeys
        /\ pc' = "panicked"
        /\ protocol' = protocol /\ held' = held /\ lost' = lost /\ locks' = locks /\ focused' = focused
    BY <1>8 DEF HandleNil, keyboard
  <2> QED BY <1>0, <2>1, QueueTyped DEF TableTyping
<1>9. CASE Tick
  <2>1. /\ queue' = queue /\ currentMods' = currentMods /\ told' = told /\ pc' = pc
        /\ protocol' = protocol /\ held' = held /\ lost' = lost /\ locks' = locks /\ focused' = focused
    BY <1>9 DEF Tick, keyboard
  <2>2. TableTyping'
    BY <1>rows, <1>0, <1>9, Ticked DEF TableTyping
  <2> QED BY <1>0, <2>1, <2>2, QueueTyped
<1>10. CASE UNCHANGED vars
  <2>1. /\ queue' = queue /\ currentMods' = currentMods /\ told' = told /\ pc' = pc
        /\ pressedKeys' = pressedKeys
        /\ protocol' = protocol /\ held' = held /\ lost' = lost /\ locks' = locks /\ focused' = focused
    BY <1>10 DEF vars, keyboard, program
  <2> QED BY <1>0, <2>1, QueueTyped DEF TableTyping
<1> QED BY <1>1, <1>2, <1>3, <1>4, <1>5, <1>6, <1>7, <1>8, <1>9, <1>10 DEF Next
-----------------------------------------------------------------------------
(***************************************************************************)
(* A key that is kept as down has its release still to come, or had it     *)
(* taken away.                                                             *)
(***************************************************************************)
LEMMA Places ==
  ASSUME Typing
  PROVE  Len(queue) \in Nat /\ DOMAIN queue = 1..Len(queue)
BY DEF Typing, QueueTyping

LEMMA Grown ==
  ASSUME Typing, QueueGrows
  PROVE  /\ DOMAIN queue' = 1..(Len(queue) + 1)
         /\ \A i \in DOMAIN queue : i \in DOMAIN queue' /\ queue'[i] = queue[i] /\ i < Len(queue) + 1
         /\ \A i \in DOMAIN queue' : i \in DOMAIN queue \/ i = Len(queue) + 1
         /\ NewEntry = queue'[Len(queue) + 1]
         /\ Len(queue) + 1 \in DOMAIN queue'
<1>1. DOMAIN queue' = 1..(Len(queue) + 1) /\ Len(queue) \in Nat
  BY Places DEF QueueGrows
<1>2. \A i \in 1..Len(queue) : queue'[i] = queue[i]
  BY DEF QueueGrows
<1>3. DOMAIN queue = 1..Len(queue)
  BY Places
<1> QED BY <1>1, <1>2, <1>3 DEF NewEntry

LEMMA Shrunk ==
  ASSUME Typing, QueueShrinks
  PROVE  /\ DOMAIN queue' = 1..(Len(queue) - 1) /\ 1 \in DOMAIN queue
         /\ \A i \in DOMAIN queue' : i \in Nat /\ i + 1 \in DOMAIN queue /\ queue'[i] = queue[i + 1]
         /\ \A i \in DOMAIN queue : i # 1 => i - 1 \in DOMAIN queue' /\ queue'[i - 1] = queue[i]
<1>1. DOMAIN queue = 1..Len(queue) /\ Len(queue) \in Nat
  BY Places
<1>2. /\ DOMAIN queue' = 1..(Len(queue) - 1) /\ Len(queue) > 0
      /\ \A i \in 1..(Len(queue) - 1) : queue'[i] = queue[i + 1]
  BY <1>1 DEF QueueShrinks
<1>3. \A i \in DOMAIN queue' : i \in Nat /\ i + 1 \in DOMAIN queue /\ queue'[i] = queue[i + 1]
  BY <1>1, <1>2
<1>4. ASSUME NEW i \in DOMAIN queue, i # 1
      PROVE  i - 1 \in DOMAIN queue' /\ queue'[i - 1] = queue[i]
  <2>1. i - 1 \in 1..(Len(queue) - 1) /\ (i - 1) + 1 = i
    BY <1>1, <1>4
  <2> QED BY <1>2, <2>1
<1> QED BY <1>1, <1>2, <1>3, <1>4

\* A key that is up again: its release is the last in the queue.
Accounted(k) ==
  \/ k \in held' \union lost'
  \/ ~IsFocus(NewEntry) /\ NewEntry.type = 3 /\ NewEntry.key = k

KeyboardStep ==
  /\ protocol' = protocol /\ pressedKeys' = pressedKeys /\ pc' = pc
  /\ \/ protocol = "legacy" /\ queue' = queue
     \/ /\ QueueGrows
        /\ \A k \in held \union lost : Accounted(k)
        /\ (~IsFocus(NewEntry) /\ NewEntry.type # 3) => NewEntry.key \in held' \union lost'

LEMMA StrokeAccounts ==
  ASSUME Typing, NEW k \in Keys, NEW type \in 1..3, NEW l, Stroke(k, type, l),
         \A m \in held \union lost : m \in held' \union lost' \/ (type = 3 /\ m = k),
         type # 3 => k \in held' \union lost'
  PROVE  KeyboardStep
<1>1. protocol' = protocol /\ pressedKeys' = pressedKeys /\ pc' = pc
  BY StrokeTyping
<1>2. CASE protocol = "legacy" /\ queue' = queue
  BY <1>1, <1>2 DEF KeyboardStep
<1>3. CASE Adds(k, type, l)
  <2>1. QueueGrows /\ NewEntry.key = k /\ NewEntry.type = type /\ ~IsFocus(NewEntry)
    BY <1>3 DEF Adds
  <2> QED BY <1>1, <2>1 DEF KeyboardStep, Accounted
<1> QED BY <1>2, <1>3 DEF Stroke

LEMMA KeyboardSteps ==
  ASSUME Typing, Press \/ Repeat \/ Release \/ FocusOut \/ FocusIn
  PROVE  KeyboardStep
<1>1. CASE Press
  <2>1. PICK k \in Keys \ held : /\ Stroke(k, 1, locks) /\ held' = held \union {k}
                                 /\ lost' = lost \ {k}
    BY <1>1, Pressing
  <2> QED BY <2>1, StrokeAccounts
<1>2. CASE Repeat
  <2>1. PICK k \in held : held' = held /\ lost' = lost /\ Stroke(k, 2, locks)
    BY <1>2, Repeating
  <2>2. k \in Keys
    BY <2>1 DEF Stroke
  <2> QED BY <2>1, <2>2, StrokeAccounts
<1>3. CASE Release
  <2>1. PICK k \in held, l \in SUBSET {"Caps", "Num"} :
          lost' = lost /\ held' = held \ {k} /\ Stroke(k, 3, l)
    BY <1>3, Releasing
  <2>2. k \in Keys
    BY <2>1 DEF Stroke
  <2> QED BY <2>1, <2>2, StrokeAccounts
<1>4. CASE FocusOut
  <2>1. QueueGrows /\ IsFocus(NewEntry)
    BY <1>4, FocusSent DEF FocusOut
  <2>2. protocol' = protocol /\ pressedKeys' = pressedKeys /\ pc' = pc
    BY <1>4 DEF FocusOut, program
  <2>3. \A k \in held \union lost : k \in held' \union lost'
    BY <1>4 DEF FocusOut
  <2> QED BY <2>1, <2>2, <2>3 DEF KeyboardStep, Accounted
<1>5. CASE FocusIn
  <2>1. QueueGrows /\ IsFocus(NewEntry)
    BY <1>5, FocusSent DEF FocusIn
  <2>2. protocol' = protocol /\ pressedKeys' = pressedKeys /\ pc' = pc
    BY <1>5 DEF FocusIn, program
  <2>3. \A k \in held \union lost : k \in held' \union lost'
    BY <1>5 DEF FocusIn
  <2> QED BY <2>1, <2>2, <2>3 DEF KeyboardStep, Accounted
<1> QED BY <1>1, <1>2, <1>3, <1>4, <1>5

\* The steps of the program, in the same way.
LEMMA ProgramSteps ==
  ASSUME Typing, HandleKey \/ HandleFocus \/ HandleNil \/ Tick \/ UNCHANGED vars
  PROVE  /\ protocol' = protocol /\ held' = held /\ lost' = lost /\ locks' = locks
         /\ QueueShrinks \/ queue' = queue
<1>1. CASE HandleKey
  BY <1>1, KeyHandled DEF Handling, keyboard
<1>2. CASE HandleFocus
  BY <1>2, FocusHandled DEF HandleFocus, keyboard
<1>3. CASE HandleNil
  BY <1>3 DEF HandleNil, keyboard
<1>4. CASE Tick
  BY <1>4 DEF Tick, keyboard
<1>5. CASE UNCHANGED vars
  BY <1>5 DEF vars, keyboard
<1> QED BY <1>1, <1>2, <1>3, <1>4, <1>5

IsPress(x)   == ~IsFocus(x) /\ x.type # 3
IsRelease(x) == ~IsFocus(x) /\ x.type = 3

\* The release of k is behind the entry i.
Behind(k, i) == \E j \in DOMAIN queue : j > i /\ IsRelease(queue[j]) /\ queue[j].key = k

LEMMA ReleaseStep ==
  ASSUME Typing, ReleaseFollows, [Next]_vars
  PROVE  ReleaseFollows'
<1>1. protocol # "legacy" => \A i \in DOMAIN queue : IsPress(queue[i]) =>
        queue[i].key \in held \union lost \/ Behind(queue[i].key, i)
  BY DEF ReleaseFollows, Behind, IsPress, IsRelease
<1>2. SUFFICES ASSUME protocol' # "legacy", NEW i \in DOMAIN queue', IsPress(queue'[i])
               PROVE  \/ queue'[i].key \in held' \union lost'
                      \/ \E j \in DOMAIN queue' : j > i /\ IsRelease(queue'[j]) /\ queue'[j].key = queue'[i].key
  BY DEF ReleaseFollows, IsFocus, IsPress, IsRelease
<1>3. CASE Press \/ Repeat \/ Release \/ FocusOut \/ FocusIn
  <2>1. /\ protocol' = protocol /\ QueueGrows
        /\ \A k \in held \union lost : Accounted(k)
        /\ IsPress(NewEntry) => NewEntry.key \in held' \union lost'
    BY <1>2, <1>3, KeyboardSteps DEF KeyboardStep, IsPress
  <2>2. CASE i \in DOMAIN queue
    <3>1. queue'[i] = queue[i]
      BY <2>1, <2>2, Grown
    <3>2. queue[i].key \in held \union lost \/ Behind(queue[i].key, i)
      BY <1>1, <1>2, <2>1, <2>2, <3>1
    <3>3. CASE queue[i].key \in held \union lost
      <4>1. Accounted(queue[i].key)
        BY <2>1, <3>3
      <4>2. CASE queue[i].key \in held' \union lost'
        BY <3>1, <4>2
      <4>3. CASE IsRelease(NewEntry) /\ NewEntry.key = queue[i].key
        <5>1. Len(queue) + 1 > i /\ NewEntry = queue'[Len(queue) + 1] /\ Len(queue) + 1 \in DOMAIN queue'
          BY <2>1, <2>2, Grown
        <5> QED BY <3>1, <4>3, <5>1
      <4> QED BY <4>1, <4>2, <4>3 DEF Accounted, IsRelease
    <3>4. CASE Behind(queue[i].key, i)
      <4>1. PICK j \in DOMAIN queue : j > i /\ IsRelease(queue[j]) /\ queue[j].key = queue[i].key
        BY <3>4 DEF Behind
      <4>2. j \in DOMAIN queue' /\ queue'[j] = queue[j]
        BY <2>1, Grown
      <4> QED BY <3>1, <4>1, <4>2
    <3> QED BY <3>2, <3>3, <3>4
  <2>3. CASE i = Len(queue) + 1
    <3>1. queue'[i] = NewEntry
      BY <2>1, <2>3, Grown
    <3> QED BY <1>2, <2>1, <3>1
  <2> QED BY <2>1, <2>2, <2>3, Grown
<1>4. CASE HandleKey \/ HandleFocus \/ HandleNil \/ Tick \/ UNCHANGED vars
  <2>1. protocol' = protocol /\ held' = held /\ lost' = lost /\ (QueueShrinks \/ queue' = queue)
    BY <1>4, ProgramSteps
  <2>2. CASE queue' = queue
    BY <1>1, <1>2, <2>1, <2>2 DEF Behind
  <2>3. CASE QueueShrinks
    <3>1. queue'[i] = queue[i + 1] /\ i + 1 \in DOMAIN queue /\ i \in Nat
      BY <1>2, <2>3, Shrunk
    <3>2. queue[i + 1].key \in held \union lost \/ Behind(queue[i + 1].key, i + 1)
      BY <1>1, <1>2, <2>1, <3>1
    <3>3. CASE Behind(queue[i + 1].key, i + 1)
      <4>1. PICK j \in DOMAIN queue : j > i + 1 /\ IsRelease(queue[j]) /\ queue[j].key = queue[i + 1].key
        BY <3>3 DEF Behind
      <4>2. j # 1 /\ j - 1 > i
        <5>1. j \in Nat
          BY Places
        <5> QED BY <3>1, <4>1, <5>1
      <4>3. j - 1 \in DOMAIN queue' /\ queue'[j - 1] = queue[j]
        BY <2>3, <4>2, Shrunk
      <4> QED BY <3>1, <4>1, <4>2, <4>3
    <3> QED BY <2>1, <3>1, <3>2, <3>3
  <2> QED BY <2>1, <2>2, <2>3
<1> QED BY <1>3, <1>4 DEF Next

\* Without a protocol only what is marked as legacy gets into the table.
LEMMA OnlyReportedStep ==
  ASSUME Typing, OnlyReported, [Next]_vars
  PROVE  OnlyReported'
<1> SUFFICES ASSUME pc' = "run", protocol' = "legacy", NEW vk \in DOMAIN pressedKeys'
             PROVE  pressedKeys'[vk].legacy
  BY DEF OnlyReported
<1>1. TableType
  BY TypingParts DEF TableTyping, TableType
<1>2. CASE Press \/ Repeat \/ Release \/ FocusOut \/ FocusIn
  <2>1. protocol' = protocol /\ pressedKeys' = pressedKeys /\ pc' = pc
    BY <1>2, KeyboardSteps DEF KeyboardStep
  <2> QED BY <2>1 DEF OnlyReported
<1>3. CASE HandleKey
  <2> DEFINE r == queue[1].report
             e == KeyEvent(r)
  <2>1. Handling(r, e) /\ protocol' = protocol /\ pc = "run"
    BY <1>3, KeyHandled DEF keyboard, HandleKey
  <2>2. LegacyTold(r)
    BY <2>1 DEF Handling, Sent
  <2>3. e.down /\ (e.legacy \/ e.vk = VK.ESCAPE)
    BY <2>2 DEF LegacyTold
  <2> HIDE DEF r, e
  <2>4. ~isExitEvent(e)
    BY <2>1 DEF Handling
  <2>5. e.legacy
    BY <2>3, <2>4 DEF isExitEvent
  <2>6. /\ DOMAIN PressedAfter(e) = DOMAIN pressedKeys \union {TrackedVK(e)}
        /\ PressedAfter(e)[TrackedVK(e)].legacy
        /\ \A x \in DOMAIN pressedKeys : x # TrackedVK(e) => PressedAfter(e)[x] = pressedKeys[x]
    BY <1>1, <2>1, <2>3, <2>5, KeyDown DEF Handling
  <2>7. pressedKeys' = PressedAfter(e)
    BY <2>1 DEF Handling
  <2> QED BY <2>1, <2>6, <2>7 DEF OnlyReported
<1>4. CASE HandleFocus \/ HandleNil
  BY <1>4 DEF HandleFocus, HandleNil, keyboard, OnlyReported
<1>5. CASE Tick
  <2>1. protocol' = protocol /\ pc' = pc
    BY <1>5 DEF Tick, keyboard
  <2>2. vk \in DOMAIN pressedKeys /\ (pressedKeys'[vk].legacy <=> pressedKeys[vk].legacy)
    BY <1>1, <1>5, Ticked
  <2> QED BY <2>1, <2>2 DEF OnlyReported
<1>6. CASE UNCHANGED vars
  BY <1>6 DEF vars, keyboard, program, OnlyReported
<1> QED BY <1>2, <1>3, <1>4, <1>5, <1>6 DEF Next

KeptDown(vk) == /\ vk \in DOMAIN pressedKeys
                /\ pressedKeys[vk].down /\ ~pressedKeys[vk].legacy

LetGo(vk) ==
  \/ \E k \in held \union lost : Tracked(k) = vk
  \/ \E i \in DOMAIN queue : IsRelease(queue[i]) /\ Tracked(queue[i].key) = vk

LEMMA StuckParts ==
  StuckNeedsLostRelease <=> (pc = "run" => \A vk : KeptDown(vk) => LetGo(vk))
BY DEF StuckNeedsLostRelease, KeptDown, LetGo, IsRelease, IsFocus

\* Handling a report takes a release away only with what it lets go.
LEMMA StuckHandled ==
  ASSUME Typing, ReleaseFollows, StuckNeedsLostRelease, protocol # "legacy", HandleKey, NEW vk,
         vk \in DOMAIN pressedKeys', pressedKeys'[vk].down, ~pressedKeys'[vk].legacy
  PROVE  \/ \E k \in held \union lost : Tracked(k) = vk
         \/ \E i \in DOMAIN queue' : IsRelease(queue'[i]) /\ Tracked(queue'[i].key) = vk
<1> DEFINE r == queue[1].report
           e == KeyEvent(r)
<1>1. Handling(r, e) /\ pc = "run"
  BY KeyHandled DEF HandleKey
<1>2. SaysKey(protocol, queue[1]) /\ ~IsFocus(queue[1]) /\ QueueShrinks
  BY <1>1 DEF Handling, Sent
<1>3. (e.down <=> queue[1].type # 3) /\ TrackedVK(e) = Tracked(queue[1].key)
  BY <1>2 DEF SaysKey
<1> HIDE DEF r, e
<1>4. pressedKeys' = PressedAfter(e) /\ e.legacy \in BOOLEAN
  BY <1>1 DEF Handling
<1>5. TableType
  BY TypingParts DEF TableTyping, TableType
<1>6. 1 \in DOMAIN queue
  BY <1>2, Shrunk
<1>7. ASSUME NEW i \in DOMAIN queue, i # 1, IsRelease(queue[i]), Tracked(queue[i].key) = vk
      PROVE  \E j \in DOMAIN queue' : IsRelease(queue'[j]) /\ Tracked(queue'[j].key) = vk
  <2>1. i - 1 \in DOMAIN queue' /\ queue'[i - 1] = queue[i]
    BY <1>2, <1>7, Shrunk
  <2> QED BY <1>7, <2>1
<1>8. CASE vk = TrackedVK(e)
  <2>1. e.down
    <3>1. ASSUME ~e.down PROVE FALSE
      BY <1>4, <1>5, <1>8, <3>1, KeyUp
    <3> QED BY <3>1
  <2>2. IsPress(queue[1])
    BY <1>2, <1>3, <2>1 DEF IsPress
  <2>3. \/ queue[1].key \in held \union lost
        \/ \E j \in DOMAIN queue : j > 1 /\ IsRelease(queue[j]) /\ queue[j].key = queue[1].key
    BY <1>6, <2>2 DEF ReleaseFollows, IsPress, IsRelease
  <2>4. CASE \E j \in DOMAIN queue : j > 1 /\ IsRelease(queue[j]) /\ queue[j].key = queue[1].key
    BY <1>3, <1>7, <1>8, <2>4
  <2> QED BY <1>3, <1>8, <2>3, <2>4
<1>9. CASE vk # TrackedVK(e)
  <2>1. KeptDown(vk)
    <3>1. CASE e.down
      <4>1. /\ DOMAIN PressedAfter(e) = DOMAIN pressedKeys \union {TrackedVK(e)}
            /\ \A x \in DOMAIN pressedKeys : x # TrackedVK(e) => PressedAfter(e)[x] = pressedKeys[x]
        BY <1>4, <1>5, <3>1, KeyDown
      <4> QED BY <1>4, <1>9, <4>1 DEF KeptDown
    <3>2. CASE ~e.down
      BY <1>4, <1>5, <1>9, <3>2, KeyUp DEF KeptDown
    <3> QED BY <3>1, <3>2
  <2>2. LetGo(vk)
    BY <1>1, <2>1, StuckParts
  <2>3. CASE \E i \in DOMAIN queue : IsRelease(queue[i]) /\ Tracked(queue[i].key) = vk
    <3>1. PICK i \in DOMAIN queue : IsRelease(queue[i]) /\ Tracked(queue[i].key) = vk
      BY <2>3
    <3>2. i # 1
      BY <1>3, <1>9, <3>1
    <3> QED BY <1>7, <3>1, <3>2
  <2> QED BY <2>2, <2>3 DEF LetGo
<1> QED BY <1>8, <1>9

LEMMA StuckStep ==
  ASSUME Typing, ReleaseFollows, OnlyReported, OnlyReported', StuckNeedsLostRelease, [Next]_vars
  PROVE  StuckNeedsLostRelease'
<1> SUFFICES ASSUME pc' = "run", NEW vk \in DOMAIN pressedKeys',
                    pressedKeys'[vk].down, ~pressedKeys'[vk].legacy
             PROVE  \/ \E k \in held' \union lost' : Tracked(k) = vk
                    \/ \E i \in DOMAIN queue' : IsRelease(queue'[i]) /\ Tracked(queue'[i].key) = vk
  BY DEF StuckNeedsLostRelease, IsRelease, IsFocus
<1>1. protocol' # "legacy"
  BY DEF OnlyReported
<1>2. TableType
  BY TypingParts DEF TableTyping, TableType
<1>3. CASE Press \/ Repeat \/ Release \/ FocusOut \/ FocusIn
  <2>1. /\ protocol' = protocol /\ pressedKeys' = pressedKeys /\ pc' = pc
        /\ QueueGrows /\ \A k \in held \union lost : Accounted(k)
    BY <1>1, <1>3, KeyboardSteps DEF KeyboardStep
  <2>2. LetGo(vk)
    BY <2>1, StuckParts DEF KeptDown
  <2>3. CASE \E k \in held \union lost : Tracked(k) = vk
    <3>1. PICK k \in held \union lost : Tracked(k) = vk
      BY <2>3
    <3>2. CASE IsRelease(NewEntry) /\ NewEntry.key = k
      <4>1. NewEntry = queue'[Len(queue) + 1] /\ Len(queue) + 1 \in DOMAIN queue'
        BY <2>1, Grown
      <4> QED BY <3>1, <3>2, <4>1
    <3> QED BY <2>1, <3>1, <3>2 DEF Accounted, IsRelease
  <2>4. CASE \E i \in DOMAIN queue : IsRelease(queue[i]) /\ Tracked(queue[i].key) = vk
    <3>1. PICK i \in DOMAIN queue : IsRelease(queue[i]) /\ Tracked(queue[i].key) = vk
      BY <2>4
    <3>2. i \in DOMAIN queue' /\ queue'[i] = queue[i]
      BY <2>1, Grown
    <3> QED BY <3>1, <3>2
  <2> QED BY <2>2, <2>3, <2>4 DEF LetGo
<1>4. CASE HandleKey
  <2>1. protocol' = protocol /\ held' = held /\ lost' = lost
    BY <1>4, ProgramSteps
  <2> QED BY <1>1, <1>4, <2>1, StuckHandled
<1>5. CASE HandleFocus
  <2>1. /\ held' = held /\ lost' = lost /\ pressedKeys' = pressedKeys /\ pc = "run"
        /\ QueueShrinks /\ IsFocus(queue[1])
    BY <1>5, FocusHandled DEF HandleFocus, keyboard
  <2>2. LetGo(vk)
    BY <2>1, StuckParts DEF KeptDown
  <2>3. CASE \E i \in DOMAIN queue : IsRelease(queue[i]) /\ Tracked(queue[i].key) = vk
    <3>1. PICK i \in DOMAIN queue : IsRelease(queue[i]) /\ Tracked(queue[i].key) = vk
      BY <2>3
    <3>2. i # 1
      BY <2>1, <3>1 DEF IsRelease
    <3>3. i - 1 \in DOMAIN queue' /\ queue'[i - 1] = queue[i]
      BY <2>1, <3>2, Shrunk
    <3> QED BY <3>1, <3>3
  <2> QED BY <2>1, <2>2, <2>3 DEF LetGo
<1>6. CASE HandleNil
  BY <1>6 DEF HandleNil
<1>7. CASE Tick
  <2>1. held' = held /\ lost' = lost /\ queue' = queue /\ pc = "run"
    BY <1>7 DEF Tick, keyboard
  <2>2. KeptDown(vk)
    BY <1>2, <1>7, Ticked DEF KeptDown
  <2> QED BY <2>1, <2>2, StuckParts DEF LetGo
<1>8. CASE UNCHANGED vars
  <2>1. held' = held /\ lost' = lost /\ queue' = queue /\ pc' = pc /\ pressedKeys' = pressedKeys
    BY <1>8 DEF vars, keyboard, program
  <2> QED BY <2>1, StuckParts DEF LetGo, KeptDown
<1> QED BY <1>3, <1>4, <1>5, <1>6, <1>7, <1>8 DEF Next
-----------------------------------------------------------------------------
(***************************************************************************)
(* A key that is held is shown, or its press is still to come.             *)
(***************************************************************************)
Follows(k) ==
  /\ InTable(k) \/ PressSent(k, 0)
  /\ \A i \in DOMAIN queue : IsRelease(queue[i]) /\ queue[i].key = k => PressSent(k, i)

LEMMA FollowsParts ==
  PressFollows <=> (pc = "run" => \A k \in held : Told(k) /\ ~SharesCode(k) => Follows(k))
BY DEF PressFollows, Follows, IsRelease

LEMMA FollowsGrows ==
  ASSUME Typing, QueueGrows, pressedKeys' = pressedKeys, NEW k, Follows(k),
         ~(IsRelease(NewEntry) /\ NewEntry.key = k)
  PROVE  Follows(k)'
<1>1. ASSUME NEW i \in Nat, PressSent(k, i)
      PROVE  PressSent(k, i)'
  <2>1. PICK j \in DOMAIN queue : j > i /\ ~IsFocus(queue[j]) /\ queue[j].key = k /\ queue[j].type # 3
    BY <1>1 DEF PressSent
  <2>2. j \in DOMAIN queue' /\ queue'[j] = queue[j]
    BY Grown
  <2> QED BY <2>1, <2>2 DEF PressSent, IsFocus
<1>2. InTable(k)' \/ PressSent(k, 0)'
  <2>1. CASE InTable(k)
    BY <2>1 DEF InTable
  <2>2. CASE PressSent(k, 0)
    BY <1>1, <2>2
  <2> QED BY <2>1, <2>2 DEF Follows
<1>3. ASSUME NEW i \in DOMAIN queue', IsRelease(queue'[i]), queue'[i].key = k
      PROVE  PressSent(k, i)'
  <2>1. i \in DOMAIN queue /\ queue'[i] = queue[i]
    <3>1. i # Len(queue) + 1
      BY <1>3, Grown
    <3> QED BY <3>1, Grown
  <2>2. PressSent(k, i) /\ i \in Nat
    BY <1>3, <2>1, Places DEF Follows
  <2> QED BY <1>1, <2>2
<1> QED BY <1>2, <1>3 DEF Follows, IsRelease, IsFocus

LEMMA FollowsPress ==
  ASSUME Typing, QueueGrows, NEW k, IsPress(NewEntry), NewEntry.key = k
  PROVE  Follows(k)'
<1>1. NewEntry = queue'[Len(queue) + 1] /\ Len(queue) + 1 \in DOMAIN queue' /\ Len(queue) \in Nat
  BY Grown, Places
<1>2. \A i \in 0..Len(queue) : PressSent(k, i)'
  BY <1>1 DEF PressSent, IsPress, IsFocus
<1>3. ASSUME NEW i \in DOMAIN queue', IsRelease(queue'[i]), queue'[i].key = k
      PROVE  PressSent(k, i)'
  <2>1. i # Len(queue) + 1
    BY <1>1, <1>3 DEF IsRelease, IsPress
  <2>2. i \in 0..Len(queue)
    BY <2>1, Grown, Places
  <2> QED BY <1>2, <2>2
<1>4. PressSent(k, 0)'
  BY <1>1, <1>2
<1> QED BY <1>3, <1>4 DEF Follows, IsRelease, IsFocus

\* What was behind another entry than the first still is.
LEMMA PressShifts ==
  ASSUME Typing, QueueShrinks, NEW k, NEW i \in Nat, PressSent(k, i + 1)
  PROVE  PressSent(k, i)'
<1>1. PICK j \in DOMAIN queue : j > i + 1 /\ ~IsFocus(queue[j]) /\ queue[j].key = k /\ queue[j].type # 3
  BY DEF PressSent
<1>2. j \in Nat
  BY Places
<1>3. j # 1 /\ j - 1 > i
  BY <1>1, <1>2
<1>4. j - 1 \in DOMAIN queue' /\ queue'[j - 1] = queue[j]
  BY <1>3, Shrunk
<1> QED BY <1>1, <1>3, <1>4 DEF PressSent, IsFocus

LEMMA FollowsShrinks ==
  ASSUME Typing, QueueShrinks, NEW k, Follows(k), InTable(k)' \/ PressSent(k, 1)
  PROVE  Follows(k)'
<1>1. InTable(k)' \/ PressSent(k, 0)'
  BY PressShifts
<1>2. ASSUME NEW i \in DOMAIN queue', IsRelease(queue'[i]), queue'[i].key = k
      PROVE  PressSent(k, i)'
  <2>1. i \in Nat /\ i + 1 \in DOMAIN queue /\ queue'[i] = queue[i + 1]
    BY Shrunk
  <2>2. PressSent(k, i + 1)
    BY <1>2, <2>1 DEF Follows
  <2> QED BY <2>1, <2>2, PressShifts
<1> QED BY <1>1, <1>2 DEF Follows, IsRelease, IsFocus

LEMMA FollowsHandled ==
  ASSUME Typing, HandleKey, NEW k \in held, Told(k), ~SharesCode(k), Follows(k)
  PROVE  Follows(k)'
<1> DEFINE r == queue[1].report
           e == KeyEvent(r)
           m == queue[1].key
<1>1. Handling(r, e)
  BY KeyHandled
<1>2. protocol \in {"kitty", "win32", "far2l"} /\ m \in Keyboard /\ k \in Keyboard
  BY <1>1, CheckAssumption, KeysAssumption DEF Handling, Told, Typing, TypeOK
<1>3. SaysKey(protocol, queue[1]) /\ ~IsFocus(queue[1]) /\ QueueShrinks
  BY <1>1, <1>2 DEF Handling, Sent
<1>4. /\ e.down <=> queue[1].type # 3
      /\ TrackedVK(e) = Tracked(m)
      /\ Told(m) => ~e.legacy
  BY <1>2, <1>3 DEF SaysKey, Told
<1> HIDE DEF r, e
<1>5. pressedKeys' = PressedAfter(e) /\ e.legacy \in BOOLEAN
  BY <1>1 DEF Handling
<1>6. TableType
  BY TypingParts DEF TableTyping, TableType
<1>7. 1 \in DOMAIN queue
  BY <1>3, Shrunk
<1>8. CASE m = k /\ queue[1].type # 3
  <2>1. e.down /\ ~e.legacy
    BY <1>4, <1>8
  <2>2. /\ TrackedVK(e) \in DOMAIN PressedAfter(e)
        /\ PressedAfter(e)[TrackedVK(e)].down /\ ~PressedAfter(e)[TrackedVK(e)].legacy
    <3>1. /\ DOMAIN PressedAfter(e) = DOMAIN pressedKeys \union {TrackedVK(e)}
          /\ PressedAfter(e)[TrackedVK(e)].down
          /\ PressedAfter(e)[TrackedVK(e)].legacy <=> e.legacy
      BY <1>5, <1>6, <2>1, KeyDown
    <3> QED BY <2>1, <3>1
  <2>3. InTable(k)'
    BY <1>4, <1>5, <1>8, <2>2 DEF InTable
  <2> QED BY <1>3, <2>3, FollowsShrinks
<1>9. CASE m = k /\ queue[1].type = 3
  <2>1. PressSent(k, 1)
    BY <1>3, <1>7, <1>9 DEF Follows, IsRelease
  <2> QED BY <1>3, <2>1, FollowsShrinks
<1>10. CASE m # k
  <2>1. Tracked(k) # TrackedVK(e)
    BY <1>2, <1>4, <1>10, TrackedIsOwn
  <2>2. InTable(k) => InTable(k)'
    <3> SUFFICES ASSUME InTable(k) PROVE InTable(k)'
      OBVIOUS
    <3>1. Tracked(k) \in DOMAIN pressedKeys
      BY DEF InTable
    <3>2. Tracked(k) \in DOMAIN PressedAfter(e) /\ PressedAfter(e)[Tracked(k)] = pressedKeys[Tracked(k)]
      <4>1. CASE e.down
        <5>1. /\ DOMAIN PressedAfter(e) = DOMAIN pressedKeys \union {TrackedVK(e)}
              /\ \A x \in DOMAIN pressedKeys : x # TrackedVK(e) => PressedAfter(e)[x] = pressedKeys[x]
          BY <1>5, <1>6, <4>1, KeyDown
        <5> QED BY <2>1, <3>1, <5>1
      <4>2. CASE ~e.down
        BY <1>6, <2>1, <3>1, <4>2, KeyUp
      <4> QED BY <4>1, <4>2
    <3> QED BY <1>5, <3>2 DEF InTable
  <2>3. PressSent(k, 0) => PressSent(k, 1)
    <3> SUFFICES ASSUME PressSent(k, 0) PROVE PressSent(k, 1)
      OBVIOUS
    <3>1. PICK j \in DOMAIN queue : ~IsFocus(queue[j]) /\ queue[j].key = k /\ queue[j].type # 3
      BY DEF PressSent
    <3>2. j # 1 /\ j \in 1..Len(queue) /\ Len(queue) \in Nat
      BY <1>10, <3>1, Places
    <3>3. j > 1
      BY <3>2
    <3> QED BY <3>1, <3>3 DEF PressSent
  <2> QED BY <1>3, <2>2, <2>3, FollowsShrinks DEF Follows
<1> QED BY <1>8, <1>9, <1>10

LEMMA PressFollowsStep ==
  ASSUME Typing, PressFollows, [Next]_vars
  PROVE  PressFollows'
<1>1. pc = "run" => \A k \in held : Told(k) /\ ~SharesCode(k) => Follows(k)
  BY FollowsParts
<1>2. SUFFICES ASSUME pc' = "run", NEW k \in held', Told(k)', ~SharesCode(k)
               PROVE  Follows(k)'
  BY DEF PressFollows, Follows, IsRelease, IsFocus
<1>3. CASE Press
  <2>1. PICK m \in Keys \ held : Stroke(m, 1, locks) /\ held' = held \union {m}
    BY <1>3, Pressing
  <2>2. protocol' = protocol /\ pressedKeys' = pressedKeys /\ pc' = pc
    BY <2>1, StrokeTyping
  <2>3. Told(k) /\ protocol # "legacy"
    BY <1>2, <2>2 DEF Told
  <2>4. QueueGrows /\ NewEntry.key = m /\ IsPress(NewEntry)
    BY <2>1, <2>3 DEF Stroke, Adds, IsPress
  <2>5. CASE k = m
    BY <2>4, <2>5, FollowsPress
  <2>6. CASE k # m
    <3>1. Follows(k)
      BY <1>1, <1>2, <2>1, <2>2, <2>3, <2>6
    <3> QED BY <2>2, <2>4, <3>1, FollowsGrows DEF IsRelease, IsPress
  <2> QED BY <2>5, <2>6
<1>4. CASE Repeat
  <2>1. PICK m \in held : Stroke(m, 2, locks) /\ held' = held
    BY <1>4, Repeating
  <2>2. protocol' = protocol /\ pressedKeys' = pressedKeys /\ pc' = pc
    BY <2>1, StrokeTyping
  <2>3. Told(k) /\ protocol # "legacy"
    BY <1>2, <2>2 DEF Told
  <2>4. QueueGrows /\ ~IsRelease(NewEntry)
    BY <2>1, <2>3 DEF Stroke, Adds, IsRelease
  <2>5. Follows(k)
    BY <1>1, <1>2, <2>1, <2>2, <2>3
  <2> QED BY <2>2, <2>4, <2>5, FollowsGrows
<1>5. CASE Release
  <2>1. PICK m \in held, l \in SUBSET {"Caps", "Num"} : Stroke(m, 3, l) /\ held' = held \ {m}
    BY <1>5, Releasing
  <2>2. protocol' = protocol /\ pressedKeys' = pressedKeys /\ pc' = pc
    BY <2>1, StrokeTyping
  <2>3. Told(k) /\ protocol # "legacy"
    BY <1>2, <2>2 DEF Told
  <2>4. QueueGrows /\ NewEntry.key # k
    BY <1>2, <2>1, <2>3 DEF Stroke, Adds
  <2>5. Follows(k)
    BY <1>1, <1>2, <2>1, <2>2, <2>3
  <2> QED BY <2>2, <2>4, <2>5, FollowsGrows
<1>6. CASE FocusOut
  BY <1>2, <1>6 DEF FocusOut
<1>7. CASE FocusIn
  <2>1. QueueGrows /\ IsFocus(NewEntry)
    BY <1>7, FocusSent DEF FocusIn
  <2>2. protocol' = protocol /\ pressedKeys' = pressedKeys /\ pc' = pc /\ held' = held
    BY <1>7 DEF FocusIn, program
  <2>3. Follows(k)
    BY <1>1, <1>2, <2>2 DEF Told
  <2> QED BY <2>1, <2>2, <2>3, FollowsGrows DEF IsRelease
<1>8. CASE HandleKey
  <2>1. protocol' = protocol /\ held' = held
    BY <1>8, ProgramSteps
  <2>2. pc = "run" /\ Told(k)
    BY <1>2, <1>8, <2>1 DEF HandleKey, Told
  <2> QED BY <1>1, <1>2, <1>8, <2>1, <2>2, FollowsHandled
<1>9. CASE HandleFocus
  <2>1. QueueShrinks /\ IsFocus(queue[1])
    BY <1>9, FocusHandled
  <2>2. /\ protocol' = protocol /\ held' = held /\ pressedKeys' = pressedKeys /\ pc = "run"
    BY <1>9 DEF HandleFocus, keyboard
  <2>3. Follows(k)
    BY <1>1, <1>2, <2>2 DEF Told
  <2>4. InTable(k)' <=> InTable(k)
    BY <2>2 DEF InTable
  <2>5. PressSent(k, 0) => PressSent(k, 1)
    <3> SUFFICES ASSUME PressSent(k, 0) PROVE PressSent(k, 1)
      OBVIOUS
    <3>1. PICK j \in DOMAIN queue : ~IsFocus(queue[j]) /\ queue[j].key = k /\ queue[j].type # 3
      BY DEF PressSent
    <3>2. j # 1 /\ j \in 1..Len(queue) /\ Len(queue) \in Nat
      BY <2>1, <3>1, Places
    <3>3. j > 1
      BY <3>2
    <3> QED BY <3>1, <3>3 DEF PressSent
  <2> QED BY <2>1, <2>3, <2>4, <2>5, FollowsShrinks DEF Follows
<1>10. CASE HandleNil
  BY <1>2, <1>10 DEF HandleNil
<1>11. CASE Tick
  <2>1. protocol' = protocol /\ held' = held /\ queue' = queue /\ pc = "run"
    BY <1>11 DEF Tick, keyboard
  <2>2. Follows(k)
    BY <1>1, <1>2, <2>1 DEF Told
  <2>3. InTable(k) => InTable(k)'
    <3>1. TableType
      BY TypingParts DEF TableTyping, TableType
    <3> QED BY <1>11, <3>1, Ticked DEF InTable
  <2>4. \A i : PressSent(k, i)' <=> PressSent(k, i)
    BY <2>1 DEF PressSent, IsFocus
  <2> QED BY <2>1, <2>2, <2>3, <2>4 DEF Follows, IsRelease, IsFocus
<1>12. CASE UNCHANGED vars
  <2>1. protocol' = protocol /\ held' = held /\ queue' = queue /\ pressedKeys' = pressedKeys /\ pc' = pc
    BY <1>12 DEF vars, keyboard, program
  <2>2. Follows(k)
    BY <1>1, <1>2, <2>1 DEF Told
  <2>3. InTable(k)' <=> InTable(k)
    BY <2>1 DEF InTable
  <2>4. \A i : PressSent(k, i)' <=> PressSent(k, i)
    BY <2>1 DEF PressSent, IsFocus
  <2> QED BY <2>1, <2>2, <2>3, <2>4 DEF Follows, IsRelease, IsFocus
<1> QED BY <1>3, <1>4, <1>5, <1>6, <1>7, <1>8, <1>9, <1>10, <1>11, <1>12 DEF Next
-----------------------------------------------------------------------------
(***************************************************************************)
(* Two keys that share a code: the modifiers of the last report tell which *)
(* of them are held.                                                       *)
(***************************************************************************)
LEMMA LastGrown ==
  ASSUME Typing, QueueGrows
  PROVE  LastMods' = IF IsFocus(NewEntry) THEN {} ELSE KeyEvent(NewEntry.report).mods
<1>1. Len(queue') = Len(queue) + 1 /\ Len(queue) \in Nat /\ queue' \in Seq(Entries)
  BY Places DEF QueueGrows
<1>2. queue' # <<>>
  BY <1>1
<1>3. queue'[Len(queue')] = NewEntry
  BY <1>1, Grown
<1> QED BY <1>2, <1>3 DEF LastMods, IsFocus

LEMMA LastShrunk ==
  ASSUME Typing, QueueShrinks
  PROVE  \/ queue # <<>> /\ queue[Len(queue)] = queue[1] /\ LastMods' = currentMods'
         \/ LastMods' = LastMods
<1>1. Len(queue) > 0 /\ Len(queue') = Len(queue) - 1 /\ Len(queue) \in Nat /\ queue' \in Seq(Entries)
  BY Places DEF QueueShrinks
<1>2. queue \in Seq(Entries) /\ queue # <<>>
  BY <1>1 DEF Typing, QueueTyping
<1>3. CASE Len(queue) = 1
  <2>1. queue' = <<>>
    BY <1>1, <1>3
  <2> QED BY <1>2, <1>3, <2>1 DEF LastMods
<1>4. CASE Len(queue) # 1
  <2>1. queue' # <<>>
    BY <1>1, <1>4
  <2>2. Len(queue') \in DOMAIN queue'
    BY <1>1, <1>4, Shrunk
  <2>3. queue'[Len(queue')] = queue[Len(queue)]
    BY <1>1, <2>2, Shrunk
  <2> QED BY <1>2, <2>1, <2>3 DEF LastMods, IsFocus
<1> QED BY <1>3, <1>4

LEMMA HeldFlags ==
  ASSUME NEW h, NEW k \in h, SharesCode(k), NEW m, NEW l
  PROVE  k.mod \in WindowsFlags(m, h, l)
<1>1. k.mod \in Held(h) /\ WindowsMod[k.mod] = k.mod
  BY DEF SharesCode, Held, WindowsMod
<1>2. k.mod \in WindowsMods(h)
  BY <1>1 DEF WindowsMods
<1> QED BY <1>2 DEF WindowsFlags

LEMMA StrokeTellsMods ==
  ASSUME Typing, NEW m, NEW type, NEW l, Stroke(m, type, l), protocol \in {"win32", "far2l"},
         NEW k \in held', SharesCode(k)
  PROVE  k.mod \in LastMods'
<1>1. Adds(m, type, l)
  BY DEF Stroke
<1>2. KeyEvent(NewEntry.report).mods = WindowsFlags(m, held', l)
  BY <1>1 DEF Adds, TellsKey
<1>3. LastMods' = KeyEvent(NewEntry.report).mods
  BY <1>1, LastGrown DEF Adds
<1>4. k.mod \in WindowsFlags(m, held', l)
  BY HeldFlags
<1> QED BY <1>2, <1>3, <1>4

LEMMA FocusStep ==
  ASSUME Typing, FocusHolds, [Next]_vars
  PROVE  FocusHolds'
<1>1. CASE Press \/ Repeat \/ Release
  <2>1. focused
    BY <1>1 DEF Press, Repeat, Release
  <2>2. focused' <=> focused
    BY <1>1 DEF Press, Repeat, Release
  <2> QED BY <2>1, <2>2 DEF FocusHolds
<1>2. CASE FocusOut \/ FocusIn
  <2>1. CASE FocusOut
    BY <2>1 DEF FocusOut, FocusHolds
  <2>2. CASE FocusIn
    BY <2>2 DEF FocusIn, FocusHolds
  <2> QED BY <1>2, <2>1, <2>2
<1>3. CASE UNCHANGED <<held, focused>>
  BY <1>3 DEF FocusHolds
<1>4. CASE HandleKey \/ HandleFocus \/ HandleNil \/ Tick \/ UNCHANGED vars
  BY <1>3, <1>4 DEF HandleKey, HandleFocus, HandleNil, Tick, vars, keyboard
<1> QED BY <1>1, <1>2, <1>4 DEF Next

LEMMA ModifiersStep ==
  ASSUME Typing, FocusHolds, ModifiersFollow, [Next]_vars
  PROVE  ModifiersFollow'
<1>1. SUFFICES ASSUME pc' = "run", protocol' \in {"win32", "far2l"}, NEW k \in held', SharesCode(k)
               PROVE  k.mod \in LastMods'
  BY DEF ModifiersFollow
<1>2. CASE Press \/ Repeat \/ Release
  <2>1. \E m, type, l : Stroke(m, type, l)
    BY <1>2, Pressing, Repeating, Releasing
  <2>2. PICK m, type, l : Stroke(m, type, l)
    BY <2>1
  <2>3. protocol' = protocol
    BY <2>2, StrokeTyping
  <2> QED BY <1>1, <2>2, <2>3, StrokeTellsMods
<1>3. CASE FocusOut
  BY <1>1, <1>3 DEF FocusOut
<1>4. CASE UNCHANGED <<protocol, held, queue, currentMods>> /\ pc = "run"
  BY <1>1, <1>4 DEF ModifiersFollow, LastMods, IsFocus
<1>5. CASE HandleKey
  <2> DEFINE r == queue[1].report
             e == KeyEvent(r)
  <2>1. Handling(r, e) /\ protocol' = protocol /\ held' = held /\ pc = "run"
    BY <1>5, KeyHandled DEF HandleKey, keyboard
  <2>2. k.mod \in LastMods
    BY <1>1, <2>1 DEF ModifiersFollow
  <2>3. QueueShrinks /\ ~IsFocus(queue[1]) /\ currentMods' = ModsAfter(e) /\ e.mods \subseteq Flags
    BY <2>1 DEF Handling
  <2>4. CASE queue # <<>> /\ queue[Len(queue)] = queue[1] /\ LastMods' = currentMods'
    <3>1. LastMods = e.mods
      BY <2>3, <2>4 DEF LastMods
    <3> HIDE DEF r, e
    <3>2. ModsAfter(e) \ Locks = e.mods \ Locks
      BY <2>3, TypingParts, ModsAfterFacts
    <3>3. k.mod \notin Locks
      BY <1>1 DEF SharesCode, Locks
    <3> QED BY <2>2, <2>3, <2>4, <3>1, <3>2, <3>3
  <2> QED BY <2>2, <2>3, <2>4, LastShrunk
<1>6. CASE HandleFocus
  <2>1. /\ protocol' = protocol /\ held' = held /\ pc = "run"
    BY <1>6 DEF HandleFocus, keyboard
  <2>2. k.mod \in LastMods
    BY <1>1, <2>1 DEF ModifiersFollow
  <2>3. QueueShrinks /\ IsFocus(queue[1])
    BY <1>6, FocusHandled
  <2>4. ~(queue # <<>> /\ queue[Len(queue)] = queue[1])
    BY <2>2, <2>3 DEF LastMods
  <2> QED BY <2>2, <2>3, <2>4, LastShrunk
<1>7. CASE HandleNil
  BY <1>1, <1>7 DEF HandleNil
<1>8. CASE Tick
  <2>1. UNCHANGED <<protocol, held, queue, currentMods>> /\ pc = "run"
    BY <1>8 DEF Tick, keyboard
  <2> QED BY <1>4, <2>1
<1>9. CASE UNCHANGED vars
  <2>1. UNCHANGED <<protocol, held, queue, currentMods>> /\ pc = "run"
    BY <1>1, <1>9 DEF vars, keyboard, program
  <2> QED BY <1>4, <2>1
<1>10. CASE FocusIn
  BY <1>1, <1>10 DEF FocusIn, FocusHolds
<1> QED BY <1>2, <1>3, <1>5, <1>6, <1>7, <1>8, <1>9, <1>10 DEF Next
-----------------------------------------------------------------------------
(***************************************************************************)
(* The locks: the last report with a value has the right one.              *)
(***************************************************************************)
Decides(r, x) == ~Silent(r) /\ ~Neutral(r, x)

\* What the program has, or will have, is right: the two parts of LockFollows.
Foreseen(x) ==
  \A i \in DOMAIN queue :
    (Decides(queue[i].report, x) /\ \A j \in DOMAIN queue : j > i => Neutral(queue[j].report, x))
      => (LockOn(queue[i].report, x) <=> x \in locks)

Settled(x) ==
  (x \in told /\ \A j \in DOMAIN queue : Neutral(queue[j].report, x))
    => (x \in currentMods <=> x \in locks)

LEMMA LockParts ==
  ASSUME NEW x
  PROVE  /\ LockFollows(x) <=> Foreseen(x) /\ Settled(x)
         /\ LockFollows(x)' <=> Foreseen(x)' /\ Settled(x)'
<1>1. LockFollows(x) <=> Foreseen(x) /\ Settled(x)
  BY DEF LockFollows, Foreseen, Settled, Decides
<1>2. LockFollows(x)' <=> Foreseen(x)' /\ Settled(x)'
  BY DEF LockFollows, Foreseen, Settled, Decides, Neutral, Silent, LockOn
<1> QED BY <1>1, <1>2

\* A new report is silent, or neutral and the lock as it was, or right.
Right(r, x) ==
  \/ Silent(r)
  \/ Neutral(r, x) /\ (x \in locks' <=> x \in locks)
  \/ Decides(r, x) /\ (LockOn(r, x) <=> x \in locks')

LEMMA LockGrows ==
  ASSUME Typing, NEW x, LockFollows(x), QueueGrows, told' = told, currentMods' = currentMods,
         Right(NewEntry.report, x)
  PROVE  LockFollows(x)'
<1>1. Foreseen(x) /\ Settled(x)
  BY LockParts
<1> DEFINE n == Len(queue) + 1
           r == NewEntry.report
<1>2. /\ n \in DOMAIN queue' /\ queue'[n].report = r
      /\ \A i \in DOMAIN queue : i \in DOMAIN queue' /\ queue'[i] = queue[i] /\ i < n
      /\ \A i \in DOMAIN queue' : i \in DOMAIN queue \/ i = n
  BY Grown
<1>3. ~(Silent(r) /\ Neutral(r, x)) /\ ~(Decides(r, x) /\ Silent(r)) /\ ~(Decides(r, x) /\ Neutral(r, x))
  BY DEF Neutral, Decides
<1> HIDE DEF n, r
<1>4. Right(r, x)
  BY DEF r
<1>5. ASSUME NEW i \in DOMAIN queue', Decides(queue'[i].report, x),
             \A j \in DOMAIN queue' : j > i => Neutral(queue'[j].report, x)
      PROVE  LockOn(queue'[i].report, x) <=> x \in locks'
  <2>1. CASE i = n
    BY <1>2, <1>3, <1>4, <1>5, <2>1 DEF Right
  <2>2. CASE i # n
    <3>1. i \in DOMAIN queue /\ queue'[i] = queue[i] /\ n > i
      BY <1>2, <1>5, <2>2, Places
    <3>2. Neutral(r, x) /\ (x \in locks' <=> x \in locks)
      BY <1>2, <1>3, <1>4, <1>5, <3>1 DEF Right
    <3>3. \A j \in DOMAIN queue : j > i => Neutral(queue[j].report, x)
      BY <1>2, <1>5
    <3> QED BY <1>1, <1>5, <3>1, <3>2, <3>3 DEF Foreseen
  <2> QED BY <2>1, <2>2
<1>6. ASSUME x \in told', \A j \in DOMAIN queue' : Neutral(queue'[j].report, x)
      PROVE  x \in currentMods' <=> x \in locks'
  <2>1. Neutral(r, x) /\ (x \in locks' <=> x \in locks)
    BY <1>2, <1>3, <1>4, <1>6 DEF Right
  <2>2. \A j \in DOMAIN queue : Neutral(queue[j].report, x)
    BY <1>2, <1>6
  <2> QED BY <1>1, <1>6, <2>1, <2>2 DEF Settled
<1>7. Foreseen(x)'
  BY <1>5 DEF Foreseen, Decides, Neutral, Silent, LockOn
<1>8. Settled(x)'
  BY <1>6 DEF Settled, Neutral, Silent
<1> QED BY <1>7, <1>8, LockParts

\* What the program makes of the report it takes.
Takes(r, x) ==
  /\ Silent(r) => x \notin told'
  /\ Neutral(r, x) => (x \in told' <=> x \in told) /\ (x \in currentMods' <=> x \in currentMods)
  /\ Decides(r, x) => (x \in currentMods' <=> LockOn(r, x))

LEMMA LockShrinks ==
  ASSUME Typing, NEW x, LockFollows(x), QueueShrinks, locks' = locks, Takes(queue[1].report, x)
  PROVE  LockFollows(x)'
<1>1. Foreseen(x) /\ Settled(x)
  BY LockParts
<1> DEFINE r == queue[1].report
<1>2. /\ 1 \in DOMAIN queue
      /\ \A i \in DOMAIN queue' : i \in Nat /\ i + 1 \in DOMAIN queue /\ queue'[i] = queue[i + 1]
      /\ \A i \in DOMAIN queue : i # 1 => i - 1 \in DOMAIN queue' /\ queue'[i - 1] = queue[i]
  BY Shrunk
<1>3. \A i \in DOMAIN queue : i \in Nat /\ i > 0
  BY Places
<1>4. Silent(r) \/ Neutral(r, x) \/ Decides(r, x)
  BY DEF Decides
<1>5. ASSUME NEW i \in DOMAIN queue', Decides(queue'[i].report, x),
             \A j \in DOMAIN queue' : j > i => Neutral(queue'[j].report, x)
      PROVE  LockOn(queue'[i].report, x) <=> x \in locks'
  <2>1. i + 1 \in DOMAIN queue /\ queue'[i] = queue[i + 1] /\ i \in Nat
    BY <1>2
  <2>2. ASSUME NEW j \in DOMAIN queue, j > i + 1
        PROVE  Neutral(queue[j].report, x)
    <3>1. j # 1 /\ j \in Nat
      BY <1>3, <2>1, <2>2
    <3>2. j - 1 \in DOMAIN queue' /\ queue'[j - 1] = queue[j] /\ j - 1 > i
      BY <1>2, <2>1, <2>2, <3>1
    <3> QED BY <1>5, <3>2
  <2>3. Decides(queue[i + 1].report, x)
    BY <1>5, <2>1
  <2> QED BY <1>1, <2>1, <2>2, <2>3 DEF Foreseen
<1>6. ASSUME x \in told', \A j \in DOMAIN queue' : Neutral(queue'[j].report, x)
      PROVE  x \in currentMods' <=> x \in locks'
  <2>1. \A j \in DOMAIN queue : j # 1 => Neutral(queue[j].report, x)
    BY <1>2, <1>6
  <2>2. CASE Neutral(r, x)
    <3>1. \A j \in DOMAIN queue : Neutral(queue[j].report, x)
      BY <2>1, <2>2
    <3> QED BY <1>1, <1>6, <2>2, <3>1 DEF Settled, Takes
  <2>3. CASE Decides(r, x)
    <3>1. \A j \in DOMAIN queue : j > 1 => Neutral(queue[j].report, x)
      BY <2>1
    <3> QED BY <1>1, <1>2, <2>3, <3>1 DEF Foreseen, Takes
  <2>4. CASE Silent(r)
    BY <1>6, <2>4 DEF Takes
  <2> QED BY <1>4, <2>2, <2>3, <2>4
<1>7. Foreseen(x)'
  BY <1>5 DEF Foreseen, Decides, Neutral, Silent, LockOn
<1>8. Settled(x)'
  BY <1>6 DEF Settled, Neutral, Silent
<1> QED BY <1>7, <1>8, LockParts

\* Without a protocol no report tells of locks.
LEMMA LegacyLocks ==
  ASSUME Typing', protocol' = "legacy", told' = {}
  PROVE  LocksFollow'
<1>1. ASSUME NEW i \in DOMAIN queue'
      PROVE  Silent(queue'[i].report)
  <2>1. IsFocus(queue'[i]) => Silent(queue'[i].report)
    BY DEF IsFocus, Silent
  <2>2. ~IsFocus(queue'[i]) => LegacyTold(queue'[i].report)
    BY DEF Typing, QueueTyping, Sent, IsFocus
  <2>3. LegacyTold(queue'[i].report) => Silent(queue'[i].report)
    BY DEF LegacyTold, Silent
  <2> QED BY <2>1, <2>2, <2>3
<1>2. ASSUME NEW x PROVE LockFollows(x)'
  <2>1. Foreseen(x)'
    BY <1>1 DEF Foreseen, Decides, Silent
  <2>2. Settled(x)'
    BY DEF Settled
  <2> QED BY <2>1, <2>2, LockParts
<1>3. \A i \in DOMAIN queue' : Silent(queue'[i].report)
  BY <1>1
<1>4. LockFollows("Caps")' /\ LockFollows("Num")'
  BY <1>2
<1> QED BY <1>3, <1>4 DEF LocksFollow, Silent
LEMMA LegacyTells ==
  ASSUME Typing, HandleKey, protocol = "legacy"
  PROVE  told' = {}
<1> DEFINE r == queue[1].report
           e == KeyEvent(r)
<1>1. Handling(r, e)
  BY KeyHandled
<1> HIDE DEF e
<1>2. LegacyTold(r)
  BY <1>1 DEF Handling, Sent
<1>3. ~TellsLocks(r)
  BY <1>2 DEF LegacyTold
<1>4. told \subseteq Locks
  BY TypingParts
<1>5. ToldBy(r, e) = {}
  BY <1>3, <1>4, ToldByFacts
<1> QED BY <1>1, <1>5 DEF Handling

\* A report of a key that is no lock key, or of a lock key that goes down, has
\* the locks from before; l and locks' are what Press, Repeat and Release make.
LEMMA ReportRight ==
  ASSUME Typing, protocol # "legacy", NEW k, NEW type, NEW l, Stroke(k, type, l), NEW x \in {"Caps", "Num"},
         k.lock = "none" => l = locks /\ locks' = locks,
         type = 3 => locks' = locks,
         (type # 3 /\ k.lock # "none") =>
           l = locks /\ locks' = IF k.lock \in locks THEN locks \ {k.lock} ELSE locks \union {k.lock}
  PROVE  Right(NewEntry.report, x)
<1> DEFINE r == NewEntry.report
           e == KeyEvent(r)
<1>1. Adds(k, type, l) /\ k \in Keyboard
  BY KeysAssumption DEF Stroke
<1>2. r = Report(protocol, k, type, held', l) /\ TellsKey(protocol, k, type, held', l)
  BY <1>1 DEF Adds
<1>3. /\ r.kind # "focus" /\ e.vk = k.vk
      /\ e.down <=> type # 3
      /\ TellsLocks(r) => e.mods \intersect Locks = l
      /\ k.final = "u" => TellsLocks(r)
  BY <1>2 DEF TellsKey
<1>4. /\ k.lock \in {"none", "Caps", "Num"} /\ LockOf(k.vk) = k.lock
      /\ k.lock # "none" => k.final = "u"
  BY <1>1, LockNames
<1>5. Silent(r) <=> ~TellsLocks(r)
  BY <1>3 DEF Silent
<1>6. Neutral(r, x) <=> TellsLocks(r) /\ k.lock # "none" /\ (type = 3 \/ k.lock # x)
  BY <1>3, <1>4, <1>5 DEF Neutral
<1>7. TellsLocks(r) => (LockOn(r, x) <=> IF k.lock = "none" THEN x \in l ELSE x \notin l)
  <2>1. x \in Locks
    BY DEF Locks
  <2> HIDE DEF e
  <2>2. TellsLocks(r) => (x \in e.mods <=> x \in l)
    BY <1>3, <2>1
  <2>3. LockOn(r, x) <=> IF k.lock = "none" THEN x \in e.mods ELSE x \notin e.mods
    BY <1>3, <1>4 DEF LockOn, e
  <2> QED BY <2>2, <2>3
<1> HIDE DEF r, e
<1>8. CASE ~TellsLocks(r)
  BY <1>5, <1>8 DEF Right, r
<1>9. CASE TellsLocks(r) /\ k.lock = "none"
  BY <1>5, <1>6, <1>7, <1>9 DEF Right, Decides, r
<1>10. CASE TellsLocks(r) /\ k.lock # "none" /\ type = 3
  BY <1>6, <1>10 DEF Right, r
<1>11. CASE TellsLocks(r) /\ k.lock # "none" /\ type # 3 /\ k.lock # x
  <2>1. x \in locks' <=> x \in locks
    BY <1>11
  <2> QED BY <1>6, <1>11, <2>1 DEF Right, r
<1>12. CASE TellsLocks(r) /\ k.lock = x /\ type # 3
  <2>1. k.lock # "none"
    BY <1>12
  <2>2. x \in locks' <=> x \notin l
    BY <1>12, <2>1
  <2>3. Decides(r, x)
    BY <1>5, <1>6, <1>12 DEF Decides
  <2> QED BY <1>7, <1>12, <2>1, <2>2, <2>3 DEF Right, r
<1> QED BY <1>8, <1>9, <1>10, <1>11, <1>12

LEMMA StrokeLocks ==
  ASSUME Typing, LocksFollow, protocol # "legacy", NEW k, NEW type, NEW l, Stroke(k, type, l),
         \A x \in {"Caps", "Num"} : Right(NewEntry.report, x)
  PROVE  LocksFollow'
<1>1. QueueGrows /\ told' = told /\ currentMods' = currentMods /\ protocol' = protocol
  BY StrokeTyping DEF Stroke, Adds
<1>2. LockFollows("Caps")' /\ LockFollows("Num")'
  BY <1>1, LockGrows DEF LocksFollow
<1> QED BY <1>1, <1>2 DEF LocksFollow

LEMMA HandlingLocks ==
  ASSUME Typing, LocksFollow, protocol # "legacy", HandleKey
  PROVE  LocksFollow'
<1> DEFINE r == queue[1].report
           e == KeyEvent(r)
<1>1. Handling(r, e) /\ protocol' = protocol /\ locks' = locks
  BY KeyHandled DEF keyboard
<1>2. told \subseteq {"Caps", "Num"} /\ told \subseteq Locks /\ currentMods \subseteq Flags
  BY TypingParts DEF LocksFollow
<1>3. r.kind # "focus"
  BY <1>1 DEF Handling, IsFocus
<1>4. /\ e.mods \subseteq Flags /\ currentMods' = ModsAfter(e) /\ told' = ToldBy(r, e) /\ QueueShrinks
  BY <1>1 DEF Handling
<1>5. LockOf(e.vk) \in {"Caps", "Num", "none"}
  <2>1. e.vk = queue[1].key.vk /\ queue[1].key \in Keyboard
    BY <1>1, KeysAssumption DEF Handling, Sent, SaysKey
  <2> QED BY <2>1, LockNames
<1>6. /\ Silent(r) <=> ~TellsLocks(r)
      /\ \A x : Neutral(r, x) <=> TellsLocks(r) /\ LockOf(e.vk) # "none" /\ (~e.down \/ LockOf(e.vk) # x)
      /\ \A x : LockOn(r, x) <=> IF LockOf(e.vk) = "none" THEN x \in e.mods ELSE x \notin e.mods
  BY <1>3 DEF Silent, Neutral, LockOn
<1> HIDE DEF e
<1>7. /\ ~TellsLocks(r) => told' = {}
      /\ (TellsLocks(r) /\ LockOf(e.vk) = "none") => told' = {"Caps", "Num"}
      /\ (TellsLocks(r) /\ LockOf(e.vk) # "none" /\ e.down) => told' = told \union {LockOf(e.vk)}
      /\ (TellsLocks(r) /\ LockOf(e.vk) # "none" /\ ~e.down) => told' = told
  BY <1>2, <1>4, ToldByFacts
<1>8. /\ LockOf(e.vk) = "none" => currentMods' = e.mods
      /\ LockOf(e.vk) # "none" => \A x \in Locks :
           x \in currentMods' <=> IF e.down /\ x = LockOf(e.vk) THEN x \notin e.mods
                                  ELSE x \in currentMods
  BY <1>2, <1>4, ModsAfterFacts
<1> HIDE DEF r
<1>9. told' \subseteq {"Caps", "Num"}
  BY <1>2, <1>5, <1>7
<1>10. ASSUME NEW x \in {"Caps", "Num"}
       PROVE  Takes(r, x)
  <2>1. x \in Locks
    BY DEF Locks
  <2>2. Silent(r) => x \notin told'
    BY <1>6, <1>7
  <2>3. Neutral(r, x) => (x \in told' <=> x \in told) /\ (x \in currentMods' <=> x \in currentMods)
    <3> SUFFICES ASSUME Neutral(r, x)
                 PROVE  (x \in told' <=> x \in told) /\ (x \in currentMods' <=> x \in currentMods)
      OBVIOUS
    <3>1. TellsLocks(r) /\ LockOf(e.vk) # "none" /\ (~e.down \/ LockOf(e.vk) # x)
      BY <1>6
    <3>2. x \in told' <=> x \in told
      BY <1>7, <3>1
    <3>3. x \in currentMods' <=> x \in currentMods
      BY <1>8, <2>1, <3>1
    <3> QED BY <3>2, <3>3
  <2>4. Decides(r, x) => (x \in currentMods' <=> LockOn(r, x))
    <3> SUFFICES ASSUME Decides(r, x)
                 PROVE  x \in currentMods' <=> LockOn(r, x)
      OBVIOUS
    <3>1. LockOf(e.vk) = "none" \/ (e.down /\ LockOf(e.vk) = x)
      BY <1>6 DEF Decides
    <3>2. CASE LockOf(e.vk) = "none"
      BY <1>6, <1>8, <3>2
    <3>3. CASE LockOf(e.vk) # "none" /\ e.down /\ LockOf(e.vk) = x
      BY <1>6, <1>8, <2>1, <3>3
    <3> QED BY <3>1, <3>2, <3>3
  <2> QED BY <2>2, <2>3, <2>4 DEF Takes
<1>11. LockFollows("Caps") /\ LockFollows("Num")
  BY DEF LocksFollow
<1>12. LockFollows("Caps")' /\ LockFollows("Num")'
  BY <1>1, <1>4, <1>10, <1>11, LockShrinks DEF r
<1> QED BY <1>1, <1>9, <1>12 DEF LocksFollow

LEMMA LocksStep ==
  ASSUME Typing, LocksFollow, [Next]_vars
  PROVE  LocksFollow'
<1>typing. Typing'
  BY TypingStep
<1>types. told \subseteq Locks /\ locks \subseteq {"Caps", "Num"} /\ held \subseteq Keys
  BY TypingParts
<1>1. CASE protocol = "legacy"
  <2>1. protocol' = protocol
    BY KeyboardSteps, ProgramSteps DEF Next, vars, keyboard, KeyboardStep
  <2>2. told = {}
    BY <1>1 DEF LocksFollow
  <2>3. told' = {}
    <3>1. CASE HandleKey
      BY <1>1, <3>1, LegacyTells
    <3>2. CASE HandleFocus
      BY <3>2 DEF HandleFocus
    <3>3. CASE Press \/ Repeat \/ Release \/ FocusOut \/ FocusIn \/ HandleNil \/ Tick \/ UNCHANGED vars
      BY <2>2, <3>3 DEF Press, Repeat, Release, FocusOut, FocusIn, HandleNil, Tick, vars, program
    <3> QED BY <3>1, <3>2, <3>3 DEF Next
  <2> QED BY <1>typing, <1>1, <2>1, <2>3, LegacyLocks
<1>2. CASE protocol # "legacy"
  <2>1. CASE Press
    <3>1. PICK k \in Keys \ held :
            /\ Stroke(k, 1, locks)
            /\ \/ k.lock = "none" /\ locks' = locks
               \/ k.lock \in {"Caps", "Num"} /\ locks' = IF k.lock \in locks THEN locks \ {k.lock}
                                                         ELSE locks \union {k.lock}
      BY <2>1, Pressing
    <3>2. \A x \in {"Caps", "Num"} : Right(NewEntry.report, x)
      BY <1>2, <3>1, ReportRight
    <3> QED BY <1>2, <3>1, <3>2, StrokeLocks
  <2>2. CASE Repeat
    <3>1. PICK k \in held : k.lock = "none" /\ Stroke(k, 2, locks) /\ locks' = locks
      BY <2>2, Repeating
    <3>2. \A x \in {"Caps", "Num"} : Right(NewEntry.report, x)
      BY <1>2, <3>1, ReportRight
    <3> QED BY <1>2, <3>1, <3>2, StrokeLocks
  <2>3. CASE Release
    <3>1. PICK k \in held, l \in SUBSET {"Caps", "Num"} :
            Stroke(k, 3, l) /\ locks' = locks /\ (k.lock = "none" => l = locks)
      BY <2>3, Releasing
    <3>2. \A x \in {"Caps", "Num"} : Right(NewEntry.report, x)
      BY <1>2, <3>1, ReportRight
    <3> QED BY <1>2, <3>1, <3>2, StrokeLocks
  <2>4. CASE FocusOut \/ FocusIn
    <3>1. QueueGrows /\ IsFocus(NewEntry)
      BY <2>4, FocusSent DEF FocusOut, FocusIn
    <3>2. told' = told /\ currentMods' = currentMods /\ protocol' = protocol
      BY <2>4 DEF FocusOut, FocusIn, program
    <3>3. \A x : Right(NewEntry.report, x)
      BY <3>1 DEF Right, Silent, IsFocus
    <3>4. LockFollows("Caps")' /\ LockFollows("Num")'
      BY <3>1, <3>2, <3>3, LockGrows DEF LocksFollow
    <3> QED BY <1>2, <3>2, <3>4 DEF LocksFollow
  <2>5. CASE HandleKey
    BY <1>2, <2>5, HandlingLocks
  <2>6. CASE HandleFocus
    <3>1. QueueShrinks /\ IsFocus(queue[1])
      BY <2>6, FocusHandled
    <3>2. told' = {} /\ locks' = locks /\ protocol' = protocol
      BY <2>6 DEF HandleFocus, keyboard
    <3>3. \A x : Takes(queue[1].report, x)
      BY <3>1, <3>2 DEF Takes, Neutral, Decides, Silent, IsFocus
    <3>4. LockFollows("Caps")' /\ LockFollows("Num")'
      BY <3>1, <3>2, <3>3, LockShrinks DEF LocksFollow
    <3> QED BY <1>2, <3>2, <3>4 DEF LocksFollow
  <2>7. CASE UNCHANGED <<protocol, locks, queue, told, currentMods>>
    <3>1. ASSUME NEW x, LockFollows(x) PROVE LockFollows(x)'
      BY <2>7, <3>1 DEF LockFollows, Silent, Neutral, LockOn
    <3> QED BY <1>2, <2>7, <3>1 DEF LocksFollow
  <2>8. CASE HandleNil \/ Tick \/ UNCHANGED vars
    BY <2>7, <2>8 DEF HandleNil, Tick, vars, keyboard, program
  <2> QED BY <2>1, <2>2, <2>3, <2>4, <2>5, <2>6, <2>8 DEF Next
<1> QED BY <1>1, <1>2
-----------------------------------------------------------------------------
(***************************************************************************)
(* The invariant holds, and the properties follow from it.                 *)
(***************************************************************************)
LEMMA InvariantInit ==
  ASSUME Init
  PROVE  IInv
<1>1. Typing
  BY TypingInit
<1>2. queue = <<>> /\ held = {} /\ told = {} /\ pressedKeys = <<>> /\ DOMAIN queue = {}
  BY DEF Init
<1>3. ReleaseFollows /\ FocusHolds /\ PressFollows /\ ModifiersFollow
  BY <1>2 DEF ReleaseFollows, FocusHolds, PressFollows, ModifiersFollow
<1>4. DOMAIN pressedKeys = {}
  BY <1>2
<1>5. OnlyReported /\ StuckNeedsLostRelease
  BY <1>4 DEF OnlyReported, StuckNeedsLostRelease
<1>6. LocksFollow
  BY <1>2 DEF LocksFollow, LockFollows
<1> QED BY <1>1, <1>3, <1>5, <1>6 DEF IInv

LEMMA InvariantStep ==
  ASSUME IInv, [Next]_vars
  PROVE  IInv'
<1>1. Typing'
  BY TypingStep DEF IInv
<1>2. ReleaseFollows' /\ OnlyReported'
  BY ReleaseStep, OnlyReportedStep DEF IInv
<1>3. StuckNeedsLostRelease'
  BY <1>2, StuckStep DEF IInv
<1>4. FocusHolds' /\ PressFollows'
  BY FocusStep, PressFollowsStep DEF IInv
<1>5. ModifiersFollow'
  BY ModifiersStep DEF IInv
<1>6. LocksFollow'
  BY LocksStep DEF IInv
<1> QED BY <1>1, <1>2, <1>3, <1>4, <1>5, <1>6 DEF IInv

\* With an empty queue a key that is held is in the table under its place, or
\* its modifier is on and drawUI shows it by that.
LEMMA HeldIsShown ==
  ASSUME IInv
  PROVE  ShownWhileHeld
<1>1. SUFFICES ASSUME pc = "run", queue = <<>>, NEW k \in held, Told(k)
               PROVE  Shown(k.place)
  BY DEF ShownWhileHeld
<1>2. k \in Keyboard
  BY KeysAssumption, TypingParts DEF IInv
<1>3. CASE SharesCode(k)
  <2>1. /\ k.mod \in {"LCtrl", "RCtrl", "LAlt", "RAlt"} /\ k.place = Fallback[k.mod]
    BY <1>2, <1>3, LockNames
  <2>2. protocol \in {"win32", "far2l"}
    BY <1>1, <2>1 DEF Told
  <2>3. k.mod \in currentMods
    BY <1>1, <1>3, <2>2 DEF IInv, ModifiersFollow, LastMods
  <2>4. k.mod \in DOMAIN Fallback
    BY <2>1 DEF Fallback
  <2> QED BY <2>1, <2>3, <2>4 DEF Shown
<1>4. CASE ~SharesCode(k)
  <2>1. InTable(k) \/ PressSent(k, 0)
    BY <1>1, <1>4 DEF IInv, PressFollows
  <2>2. ~PressSent(k, 0)
    BY <1>1 DEF PressSent
  <2>3. Tracked(k) = k.place
    BY <1>2, <1>4, KeysKnown, Codes
       DEF Tracked, SharesCode, Plain, LetterKey, DigitKey, SignKey, ControlsKey, FunctionKey,
           ClusterKey, KeypadKey, ModifierKey, LockKey
  <2> QED BY <2>1, <2>2, <2>3 DEF InTable, Shown
<1> QED BY <1>3, <1>4

LEMMA LocksAreShown ==
  ASSUME IInv
  PROVE  LocksPredicted
<1>1. SUFFICES ASSUME queue = <<>>, NEW x \in told
               PROVE  x \in currentMods <=> x \in locks
  BY DEF LocksPredicted
<1>2. x \in {"Caps", "Num"} /\ LockFollows("Caps") /\ LockFollows("Num")
  BY DEF IInv, LocksFollow
<1>3. LockFollows(x) /\ DOMAIN queue = {}
  BY <1>1, <1>2
<1> QED BY <1>1, <1>3 DEF LockFollows

\* The invariant that the theorems below rest on, for all keys, protocols and
\* bounds.
THEOREM CheckInvariant == Spec => []IInv
<1>1. Init => IInv
  BY InvariantInit
<1>2. IInv /\ [Next]_vars => IInv'
  BY InvariantStep
<1> QED BY <1>1, <1>2, PTL DEF Spec

\* For any set of keys: codes are 16 bits, whatever the parsers make of a
\* report, ages and the queue bounded, modifiers among those of Windows.
THEOREM TypeCorrect == Spec => []TypeOK
<1>1. IInv => TypeOK
  BY DEF IInv, Typing
<1> QED BY <1>1, CheckInvariant, PTL

\* For any set of keys and any typing: a key is kept as down only while it is
\* held, its release is on the way, or the focus was away when it was let go.
THEOREM NothingElseSticks == Spec => []StuckNeedsLostRelease
<1>1. IInv => StuckNeedsLostRelease
  BY DEF IInv
<1> QED BY <1>1, CheckInvariant, PTL

\* For any set of keys and any typing: with no report on its way, each key that
\* is held and was told of is shown, also the second of two that share a code.
THEOREM HeldKeysShown == Spec => []ShownWhileHeld
<1>1. IInv => ShownWhileHeld
  BY HeldIsShown
<1> QED BY <1>1, CheckInvariant, PTL

\* For any set of keys and any typing: with no report on its way, the locks are
\* shown as they are, as far as reports told of them.
THEOREM LocksShown == Spec => []LocksPredicted
<1>1. IInv => LocksPredicted
  BY LocksAreShown
<1> QED BY <1>1, CheckInvariant, PTL
-----------------------------------------------------------------------------
(***************************************************************************)
(* Every protocol tells the same of a key.                                 *)
(***************************************************************************)
\* The two notations of the modifiers agree.
LEMMA HeldSides ==
  ASSUME NEW h \in SUBSET Keyboard
  PROVE  /\ "Shift" \in WindowsMods(h) <=> "shift" \in AnsiMods(h)
         /\ WindowsMods(h) \intersect {"LCtrl", "RCtrl"} # {} <=> "ctrl" \in AnsiMods(h)
         /\ WindowsMods(h) \intersect {"LAlt", "RAlt"} # {} <=> "alt" \in AnsiMods(h)
<1> DEFINE H == Held(h)
<1>1. H \subseteq {"LShift", "RShift", "LCtrl", "RCtrl", "LAlt", "RAlt"}
  BY HeldModifiers
<1>2. WindowsMods(h) = {WindowsMod[m] : m \in H} /\ AnsiMods(h) = {AnsiMod[m] : m \in H}
  BY DEF WindowsMods, AnsiMods
<1> HIDE DEF H
<1>3. /\ "Shift" \in WindowsMods(h) <=> "LShift" \in H \/ "RShift" \in H
      /\ "LCtrl" \in WindowsMods(h) <=> "LCtrl" \in H
      /\ "RCtrl" \in WindowsMods(h) <=> "RCtrl" \in H
      /\ "LAlt" \in WindowsMods(h) <=> "LAlt" \in H
      /\ "RAlt" \in WindowsMods(h) <=> "RAlt" \in H
  BY <1>1, <1>2 DEF WindowsMod
<1>4. /\ "shift" \in AnsiMods(h) <=> "LShift" \in H \/ "RShift" \in H
      /\ "ctrl" \in AnsiMods(h) <=> "LCtrl" \in H \/ "RCtrl" \in H
      /\ "alt" \in AnsiMods(h) <=> "LAlt" \in H \/ "RAlt" \in H
  BY <1>1, <1>2 DEF AnsiMod
<1> QED BY <1>3, <1>4

LEMMA WindowsFaithful ==
  ASSUME NEW p \in {"win32", "far2l"}, NEW k \in Keyboard, NEW type \in 1..3,
         NEW h \in SUBSET Keyboard, NEW l \in SUBSET {"Caps", "Num"}
  PROVE  Faithful(p, k, type, h, l)
<1> DEFINE r == Report(p, k, type, h, l)
           e == KeyEvent(r)
<1>1. r.kind \in {"win32", "f2l"} /\ WindowsEvent(e, k, type, h, l)
  BY Win32Told, Far2lTold DEF Report
<1> HIDE DEF r, e
<1>2. /\ e.vk = k.vk /\ e.char = Char(k, h, l) /\ e.mods = WindowsFlags(k, h, l)
      /\ e.down <=> type # 3
  BY <1>1 DEF WindowsEvent
<1>3. e.mods \intersect Locks = l
  BY <1>2, WindowsFlagsType
<1>4. WindowsMods(h) \subseteq {"Shift", "LCtrl", "RCtrl", "LAlt", "RAlt"}
  BY HeldModifiers
<1>5. e.mods = WindowsMods(h) \union l \union EnhancedIf(k.nav \/ k.mod \in {"RCtrl", "RAlt"})
  BY <1>2 DEF WindowsFlags
<1>6. \A x \in {"Shift", "LCtrl", "RCtrl", "LAlt", "RAlt"} : x \in e.mods <=> x \in WindowsMods(h)
  BY <1>5 DEF EnhancedIf
<1>7. SameModifiers(r, e, h)
  BY <1>6, HeldSides DEF SameModifiers, Sides
<1>8. k.mod = "none" => ("Enhanced" \in e.mods <=> k.nav)
  BY <1>4, <1>5 DEF EnhancedIf
<1>9. SameCharacter(p, e, k, h, l)
  BY <1>2 DEF SameCharacter
<1> QED BY <1>1, <1>2, <1>3, <1>7, <1>8, <1>9 DEF Faithful, r, e

\* A legacy sequence of a key that has no character.
LEMMA SequenceFaithful ==
  ASSUME NEW k \in Keyboard, k.final # "u", NEW h \in SUBSET Keyboard, NEW n \in SUBSET {"caps", "num"},
         NEW s, s.final = k.final, s.key[1] = k.code, s.key[3] = 0, s.mods = AnsiMods(h) \union n
  PROVE  /\ s.kind = "csi" => SameModifiers(s, LegacyCSIEvent(s), h)
         /\ "Enhanced" \in LegacyCSIEvent(s).mods <=> k.nav
         /\ k.char = 0
<1> DEFINE own == decodeAnsiModifiers(s.mods)
<1>1. AnsiMods(h) \subseteq {"shift", "ctrl", "alt"}
  BY HeldModifiers
<1>2. DOMAIN AnsiFlag = {"shift", "alt", "ctrl", "super"}
  BY DEF AnsiFlag
<1>3. s.mods \intersect DOMAIN AnsiFlag = AnsiMods(h)
  BY <1>1, <1>2
<1>4. own = {AnsiFlag[m] : m \in AnsiMods(h)}
  BY <1>3 DEF decodeAnsiModifiers
<1> HIDE DEF own
<1>5. /\ "Shift" \in own <=> "shift" \in AnsiMods(h)
      /\ "LCtrl" \in own <=> "ctrl" \in AnsiMods(h)
      /\ "LAlt" \in own <=> "alt" \in AnsiMods(h)
      /\ "RCtrl" \notin own /\ "RAlt" \notin own /\ "Enhanced" \notin own
  BY <1>1, <1>4 DEF AnsiFlag
<1>6. FunctionKey(k) \/ ClusterKey(k)
  BY KeysKnown DEF LetterKey, DigitKey, SignKey, ControlsKey, KeypadKey, ModifierKey, LockKey
<1>7. LegacyVK(s) = k.vk /\ k.final # "Z" /\ k.char = 0
  BY <1>6, SequenceNamesKey DEF FunctionKey, ClusterKey
<1>8. isEnhancedVK(k.vk) <=> k.nav
  <2>1. CASE FunctionKey(k)
    BY <2>1, Codes DEF FunctionKey, isEnhancedVK
  <2>2. CASE ClusterKey(k)
    BY <2>2, Codes DEF ClusterKey, isEnhancedVK
  <2> QED BY <1>6, <2>1, <2>2
<1>9. LegacyCSIEvent(s).mods = own \union {} \union EnhancedIf(isEnhancedVK(k.vk))
  BY <1>7 DEF LegacyCSIEvent, Event, own
<1>10. \A x : x \in LegacyCSIEvent(s).mods <=> x \in own \/ (x = "Enhanced" /\ k.nav)
  BY <1>8, <1>9 DEF EnhancedIf
<1> QED BY <1>5, <1>7, <1>10 DEF SameModifiers
\* The modifiers of kitty's own sequences, that of the key itself among them.
LEMMA KittyModifiers ==
  ASSUME NEW k \in Keyboard, NEW h \in SUBSET Keyboard, NEW n \in SUBSET {"caps", "num"},
         NEW s, s.final = k.final, s.key[1] = k.code, s.key[3] = 0, s.mods = AnsiMods(h) \union n,
         s.type # 3 /\ k.mod # "none" => k \in h
  PROVE  /\ "Shift" \in KittyFlags(s) <=> "shift" \in AnsiMods(h)
         /\ KittyFlags(s) \intersect {"LCtrl", "RCtrl"} # {} <=> "ctrl" \in AnsiMods(h)
         /\ KittyFlags(s) \intersect {"LAlt", "RAlt"} # {} <=> "alt" \in AnsiMods(h)
         /\ k.mod = "none" => ("Enhanced" \in KittyFlags(s) <=> k.nav)
<1> DEFINE mods == KittyMods(s.mods)
           own  == OwnModifier(s, mods)
<1>1. AnsiMods(h) \subseteq {"shift", "ctrl", "alt"}
  BY HeldModifiers
<1>2. DOMAIN KittyFlag = {"shift", "alt", "ctrl", "super", "caps", "num"}
  BY DEF KittyFlag
<1>3. s.mods \intersect DOMAIN KittyFlag = AnsiMods(h) \union n
  BY <1>1, <1>2
<1>4. mods = {KittyFlag[m] : m \in AnsiMods(h) \union n}
  BY <1>3 DEF KittyMods
<1> HIDE DEF mods
<1> DEFINE M == AnsiMods(h) \union n
<1>m. /\ M \subseteq {"shift", "ctrl", "alt", "caps", "num"}
      /\ \A x \in {"shift", "ctrl", "alt"} : x \in M <=> x \in AnsiMods(h)
  BY <1>1
<1>f. /\ KittyFlag["shift"] = "Shift" /\ KittyFlag["ctrl"] = "LCtrl" /\ KittyFlag["alt"] = "LAlt"
      /\ KittyFlag["caps"] = "Caps" /\ KittyFlag["num"] = "Num"
  BY DEF KittyFlag
<1>s. mods = {KittyFlag[m] : m \in M}
  BY <1>4
<1> HIDE DEF M
<1>5. /\ "Shift" \in mods <=> "shift" \in AnsiMods(h)
      /\ "LCtrl" \in mods <=> "ctrl" \in AnsiMods(h)
      /\ "LAlt" \in mods <=> "alt" \in AnsiMods(h)
      /\ "RCtrl" \notin mods /\ "RAlt" \notin mods /\ "Enhanced" \notin mods
  BY <1>m, <1>f, <1>s
<1>6. KittyBase(s) = k.code
  BY SequenceNamesKey
<1>7. /\ k.code = 57448 <=> k.mod = "RCtrl"
      /\ k.code = 57449 <=> k.mod = "RAlt"
      /\ k.code = 57442 <=> k.mod = "LCtrl"
      /\ k.code = 57443 <=> k.mod = "LAlt"
      /\ k.code \in {57441, 57447} <=> k.mod \in {"LShift", "RShift"}
      /\ k.mod \in {"none", "LShift", "RShift", "LCtrl", "RCtrl", "LAlt", "RAlt"}
  BY KeysKnown DEF Plain, LetterKey, DigitKey, SignKey, ControlsKey, FunctionKey, ClusterKey,
                   KeypadKey, ModifierKey, LockKey
<1>8. ASSUME s.type # 3, k.mod # "none"
      PROVE  AnsiMod[k.mod] \in AnsiMods(h)
  BY <1>8 DEF AnsiMods, Held
<1>9. own = IF s.type = 3 THEN mods
            ELSE CASE k.mod = "RCtrl" -> (mods \union {"RCtrl", "Enhanced"}) \ {"LCtrl"}
                   [] k.mod = "RAlt"  -> (mods \union {"RAlt", "Enhanced"}) \ {"LAlt"}
                   [] k.mod = "LCtrl" -> mods \union {"LCtrl"}
                   [] k.mod = "LAlt"  -> mods \union {"LAlt"}
                   [] k.mod \in {"LShift", "RShift"} -> mods \union {"Shift"}
                   [] OTHER -> mods
  BY <1>6, <1>7 DEF OwnModifier
<1> HIDE DEF own
<1>10. /\ k.mod = "none" \/ s.type = 3 => own = mods
       /\ "Shift" \in own <=> "shift" \in AnsiMods(h)
       /\ "LCtrl" \in own \/ "RCtrl" \in own <=> "ctrl" \in AnsiMods(h)
       /\ "LAlt" \in own \/ "RAlt" \in own <=> "alt" \in AnsiMods(h)
  <2>1. CASE k.mod = "none" \/ s.type = 3
    BY <1>5, <1>9, <2>1
  <2>2. CASE s.type # 3 /\ k.mod = "RCtrl"
    BY <1>5, <1>8, <1>9, <2>2 DEF AnsiMod
  <2>3. CASE s.type # 3 /\ k.mod = "RAlt"
    BY <1>5, <1>8, <1>9, <2>3 DEF AnsiMod
  <2>4. CASE s.type # 3 /\ k.mod = "LCtrl"
    BY <1>5, <1>8, <1>9, <2>4 DEF AnsiMod
  <2>5. CASE s.type # 3 /\ k.mod = "LAlt"
    BY <1>5, <1>8, <1>9, <2>5 DEF AnsiMod
  <2>6. CASE s.type # 3 /\ k.mod \in {"LShift", "RShift"}
    BY <1>5, <1>8, <1>9, <2>6 DEF AnsiMod
  <2> QED BY <1>7, <2>1, <2>2, <2>3, <2>4, <2>5, <2>6
<1> DEFINE nav == s.final \in {"A", "B", "C", "D", "H", "F"} \/ (s.final = "~" /\ KittyBase(s) \in {2, 3, 5, 6})
<1>11. nav <=> k.nav
  <2>1. k.final = "u" => ~k.nav
    BY KeysKnown DEF LetterKey, DigitKey, SignKey, ControlsKey, FunctionKey, ClusterKey,
                     KeypadKey, ModifierKey, LockKey
  <2>2. CASE k.final # "u"
    <3>1. CASE FunctionKey(k)
      BY <1>6, <3>1 DEF FunctionKey
    <3>2. CASE ClusterKey(k)
      BY <1>6, <3>2 DEF ClusterKey
    <3> QED BY <2>2, <3>1, <3>2, KeysKnown DEF LetterKey, DigitKey, SignKey, ControlsKey,
                                               KeypadKey, ModifierKey, LockKey
  <2> QED BY <2>1, <2>2
<1>12. KittyFlags(s) = own \union EnhancedIf(nav)
  BY DEF KittyFlags, own, mods
<1> HIDE DEF nav
<1>13. \A x : x \in KittyFlags(s) <=> x \in own \/ (x = "Enhanced" /\ k.nav)
  BY <1>11, <1>12 DEF EnhancedIf
<1> QED BY <1>5, <1>10, <1>13

\* The character, of keys that have one: only its shifted form and CapsLock
\* change it.
LEMMA KittyCharacter ==
  ASSUME NEW k \in Keyboard, NEW type \in 1..3, NEW h \in SUBSET Keyboard, NEW l \in SUBSET {"Caps", "Num"},
         k.char = k.code, k.char > 32, AnsiMods(h) \subseteq {"shift"}, AnsiMods(h) = {} \/ "Caps" \notin l
  PROVE  KeyEvent(KittyReport(k, type, h, l)).char = Char(k, h, l)
<1> DEFINE r == KittyReport(k, type, h, l)
<1>1. /\ r.kind = "csi" /\ r.final = k.final
      /\ r.type = 3 <=> type = 3
      /\ r.key[1] = k.code /\ r.key[3] = 0
      /\ r.mods = AnsiMods(h) \union {AnsiLock[x] : x \in l}
      /\ r.colon <=> (type # 1 \/ Shifted(k, h))
  BY KittyFields
<1>2. r.key[2] = IF Shifted(k, h) THEN k.char - 32 ELSE 0
  BY DEF KittyReport
<1> HIDE DEF r
<1>3. /\ k.final = "u" /\ k.mod = "none"
      /\ k.char \in 48..57 \union {59, 91, 96} \union 97..122
      /\ k.vk # 0
  BY KeysKnown DEF Plain, LetterKey, DigitKey, SignKey, ControlsKey, FunctionKey, ClusterKey,
                   KeypadKey, ModifierKey, LockKey
<1>4. LegacyVK(r) = 0 /\ KittyVK(r) = k.vk
  BY <1>1, <1>3, SequenceNamesKey
<1>5. KeyEvent(r) = KittyEvent(r)
  BY <1>1, <1>4 DEF KeyEvent, CSIEvent, AcceptsLegacy
<1>6. KittyEvent(r).char = KittyChar(r, k.vk, KittyFlags(r))
  BY <1>3, <1>4 DEF KittyEvent, Event
<1>7. KittyText(r) = IF Shifted(k, h) THEN k.char - 32 ELSE k.char
  <2>1. CASE Shifted(k, h)
    BY <1>1, <1>2, <1>3, <2>1 DEF KittyText, Shifted, IsLetter
  <2>2. CASE ~Shifted(k, h)
    BY <1>1, <1>2, <1>3, <2>2 DEF KittyText
  <2> QED BY <2>1, <2>2
<1>8. /\ "Caps" \in KittyFlags(r) <=> "Caps" \in l
  BY <1>1, KittyLocks DEF Locks
<1> DEFINE n == {AnsiLock[x] : x \in l}
<1>9. n \in SUBSET {"caps", "num"}
  BY DEF AnsiLock
<1>10. /\ "Shift" \in KittyFlags(r) <=> "shift" \in AnsiMods(h)
       /\ KittyFlags(r) \intersect {"LAlt", "RAlt"} # {} <=> "alt" \in AnsiMods(h)
  <2> HIDE DEF n
  <2>1. r.mods = AnsiMods(h) \union n
    BY <1>1 DEF n
  <2>2. r.type # 3 /\ k.mod # "none" => k \in h
    BY <1>3
  <2>3. r.final = k.final /\ r.key[1] = k.code /\ r.key[3] = 0
    BY <1>1
  <2> QED BY <1>9, <2>1, <2>2, <2>3, KittyModifiers
<1>11. "alt" \notin AnsiMods(h) /\ "ctrl" \notin AnsiMods(h)
  OBVIOUS
<1>12. KittyChar(r, k.vk, KittyFlags(r)) =
         IF "Caps" \in l /\ "shift" \notin AnsiMods(h) THEN Upper(KittyText(r)) ELSE KittyText(r)
  BY <1>8, <1>10, <1>11 DEF KittyChar
<1>13. Char(k, h, l) = IF IsLetter(k) /\ ~("shift" \in AnsiMods(h) <=> "Caps" \in l)
                      THEN k.char - 32 ELSE k.char
  BY <1>11 DEF Char, Shifted
<1>14. Shifted(k, h) <=> IsLetter(k) /\ "shift" \in AnsiMods(h)
  BY DEF Shifted
<1>15. CASE "shift" \in AnsiMods(h)
  <2>1. "Caps" \notin l
    BY <1>15
  <2> QED BY <1>3, <1>5, <1>6, <1>7, <1>12, <1>13, <1>14, <1>15, <2>1 DEF r
<1>16. CASE "shift" \notin AnsiMods(h)
  <2>1. KittyText(r) = k.char
    BY <1>7, <1>14, <1>16
  <2>2. Upper(k.char) = IF IsLetter(k) THEN k.char - 32 ELSE k.char
    BY DEF Upper, IsLetter
  <2> QED BY <1>5, <1>6, <1>12, <1>13, <1>14, <1>16, <2>1, <2>2 DEF r
<1> QED BY <1>15, <1>16
LEMMA KittyFaithful ==
  ASSUME NEW k \in Keyboard, NEW type \in 1..3,
         NEW h \in SUBSET Keyboard, NEW l \in SUBSET {"Caps", "Num"},
         type # 3 /\ k.mod # "none" => k \in h
  PROVE  Faithful("kitty", k, type, h, l)
<1> DEFINE r == KittyReport(k, type, h, l)
           e == KeyEvent(r)
           n == {AnsiLock[x] : x \in l}
<1>1. /\ r.kind = "csi" /\ r.final = k.final
      /\ r.type = 3 <=> type = 3
      /\ r.key[1] = k.code /\ r.key[3] = 0
      /\ r.mods = AnsiMods(h) \union n
      /\ r.colon <=> (type # 1 \/ Shifted(k, h))
  BY KittyFields
<1>2. Report("kitty", k, type, h, l) = r
  BY DEF Report
<1> HIDE DEF r, e
<1>3. /\ e.vk = k.vk
      /\ e.down <=> type # 3
      /\ TellsLocks(r) => e.mods \intersect Locks = l
  <2>1. TellsKey("kitty", k, type, h, l)
    BY KittyTold
  <2> QED BY <1>2, <2>1 DEF TellsKey, e
<1>4. n \in SUBSET {"caps", "num"}
  BY DEF AnsiLock
<1> HIDE DEF n
<1>5. SameModifiers(r, e, h) /\ (k.mod = "none" => ("Enhanced" \in e.mods <=> k.nav))
  <2>1. e = IF AcceptsLegacy(r) THEN LegacyCSIEvent(r) ELSE KittyEvent(r)
    BY <1>1 DEF KeyEvent, CSIEvent, e
  <2>2. CASE AcceptsLegacy(r)
    <3>1. k.final # "u"
      BY <1>1, <2>2, SequenceNamesKey DEF AcceptsLegacy
    <3>2. /\ SameModifiers(r, LegacyCSIEvent(r), h)
          /\ "Enhanced" \in LegacyCSIEvent(r).mods <=> k.nav
      BY <1>1, <1>4, <3>1, SequenceFaithful
    <3> QED BY <2>1, <2>2, <3>2
  <2>3. CASE ~AcceptsLegacy(r)
    <3>1. KittyVK(r) # 0
      BY <1>1, SequenceNamesKey, CodeRange
    <3>2. e.mods = KittyFlags(r)
      BY <2>1, <2>3, <3>1, KittyEventFields
    <3>3. r.type # 3 /\ k.mod # "none" => k \in h
      BY <1>1
    <3>4. r.final = k.final /\ r.key[1] = k.code /\ r.key[3] = 0 /\ r.mods = AnsiMods(h) \union n
      BY <1>1
    <3>5. /\ "Shift" \in KittyFlags(r) <=> "shift" \in AnsiMods(h)
          /\ KittyFlags(r) \intersect {"LCtrl", "RCtrl"} # {} <=> "ctrl" \in AnsiMods(h)
          /\ KittyFlags(r) \intersect {"LAlt", "RAlt"} # {} <=> "alt" \in AnsiMods(h)
          /\ k.mod = "none" => ("Enhanced" \in KittyFlags(r) <=> k.nav)
      BY <1>4, <3>3, <3>4, KittyModifiers
    <3> QED BY <1>1, <3>2, <3>5 DEF SameModifiers
  <2> QED BY <2>2, <2>3
<1>6. SameCharacter("kitty", e, k, h, l)
  BY KittyCharacter DEF SameCharacter, r, e
<1> QED BY <1>1, <1>2, <1>3, <1>5, <1>6 DEF Faithful, e

LEMMA ByteWithAlt ==
  ASSUME NEW r, r.alt
  PROVE  ByteEvent(r) = WithAlt(translateLegacyByte(r.char))
BY DEF ByteEvent, WithAlt

LEMMA ByteAlone ==
  ASSUME NEW r, ~r.alt, r.char # 27, r.char # 127
  PROVE  ByteEvent(r) = translateLegacyByte(r.char)
BY DEF ByteEvent

\* A byte names no key, or a control character that of its key or its letter.
LEMMA ByteFaithful ==
  ASSUME NEW k \in Keyboard, k.char # 0, k.mod = "none",
         NEW h \in SUBSET Keyboard, NEW l \in SUBSET {"Caps", "Num"},
         NEW r, r.kind = "byte", r.char = Char(k, h, l), r.alt <=> "alt" \in AnsiMods(h)
  PROVE  /\ KeyEvent(r).vk = k.vk \/ KeyEvent(r).vk = 0 \/ r.char \in {8, 9, 13}
         /\ SameCharacter("legacy", KeyEvent(r), k, h, l)
<1> DEFINE c == Char(k, h, l)
<1>1. KeyEvent(r) = ByteEvent(r)
  BY DEF KeyEvent
<1>2. /\ k.char \in {9, 13, 27} \union 48..57 \union {59, 91, 96} \union 97..122
      /\ k.char \in {9, 13, 27} => k.vk = k.char
      /\ k.char \in 97..122 => k.vk = k.char - 32
  BY KeysKnown DEF Plain, LetterKey, DigitKey, SignKey, ControlsKey, FunctionKey, ClusterKey,
                   KeypadKey, ModifierKey, LockKey
<1>3. \/ c \in {9, 13, 27} /\ k.vk = c
      \/ c \in 1..26 /\ k.vk = 64 + c /\ "ctrl" \in AnsiMods(h)
      \/ c \in 48..122
  BY <1>2 DEF Char, IsLetter
<1>4. k.char > 32 /\ AnsiMods(h) \subseteq {"shift"} => c \in 48..122 /\ ~r.alt
  <2>1. AnsiMods(h) \subseteq {"shift"} => "ctrl" \notin AnsiMods(h) /\ "alt" \notin AnsiMods(h)
    OBVIOUS
  <2> QED BY <1>2, <2>1 DEF Char, IsLetter
<1> HIDE DEF c
<1>5. c \in 0..127 /\ r.char = c
  BY CharRange DEF c
<1> DEFINE t == translateLegacyByte(c)
<1>6. c \in 48..122 => Pressed(t, 0, c, {})
  BY DEF translateLegacyByte, Event, Pressed
<1>7. c \in (1..26) \ {8, 9, 13} => Pressed(t, 64 + c, 0, {"LCtrl"})
  <2> SUFFICES ASSUME c \in (1..26) \ {8, 9, 13} PROVE Pressed(t, 64 + c, 0, {"LCtrl"})
    OBVIOUS
  <2>1. ControlKey(c) = 64 + c
    BY Codes DEF ControlKey
  <2>2. c \in (0..31) \ {8, 9, 13, 27} /\ c # 0
    OBVIOUS
  <2>3. t = Event(ControlKey(c), 0, 0, TRUE, {"LCtrl"}, TRUE)
    BY <2>2 DEF translateLegacyByte
  <2> QED BY <2>1, <2>3 DEF Event, Pressed
<1>8. c = 27 => Pressed(t, 27, 0, {})
  BY Codes DEF translateLegacyByte, Event, Pressed
<1> HIDE DEF t
<1>9. /\ c \in 48..122 => ByteEvent(r).vk = 0
      /\ c \in (1..26) \ {8, 9, 13} => ByteEvent(r).vk = 64 + c
      /\ c = 27 => ByteEvent(r).vk = 27
  <2>1. CASE r.alt
    <3>1. ByteEvent(r) = WithAlt(t)
      BY <1>5, <2>1, ByteWithAlt DEF t
    <3> QED BY <1>6, <1>7, <1>8, <3>1, PressedFields
  <2>2. CASE ~r.alt /\ c = 27
    BY <1>5, <2>2, Codes DEF ByteEvent, Event
  <2>3. CASE ~r.alt /\ c # 27
    <3>1. c # 127
      BY <1>3
    <3>2. ByteEvent(r) = t
      BY <1>5, <2>3, <3>1, ByteAlone DEF t
    <3> QED BY <1>6, <1>7, <2>3, <3>2, PressedFields
  <2> QED BY <2>1, <2>2, <2>3
<1>10. KeyEvent(r).vk = k.vk \/ KeyEvent(r).vk = 0 \/ r.char \in {8, 9, 13}
  BY <1>1, <1>3, <1>5, <1>9
<1>11. ASSUME k.char > 32, AnsiMods(h) \subseteq {"shift"}
       PROVE  KeyEvent(r).char = c
  <2>1. c \in 48..122 /\ ~r.alt
    BY <1>4, <1>11
  <2>2. ByteEvent(r) = t
    <3>1. c # 27 /\ c # 127
      BY <2>1
    <3> QED BY <1>5, <2>1, <3>1, ByteAlone DEF t
  <2>3. t.char = c
    BY <1>6, <2>1 DEF Pressed
  <2> QED BY <1>1, <2>2, <2>3
<1> QED BY <1>10, <1>11 DEF SameCharacter, c

LEMMA LegacyFaithful ==
  ASSUME NEW k \in Keyboard, NEW type \in 1..2, k.mod = "none", k.lock = "none",
         NEW h \in SUBSET Keyboard, NEW l \in SUBSET {"Caps", "Num"}
  PROVE  Faithful("legacy", k, type, h, l)
<1> DEFINE r == Report("legacy", k, type, h, l)
           e == KeyEvent(r)
<1>1. LegacyTold(r)
  BY WithoutProtocolTold
<1>2. ~TellsLocks(r) /\ e.down /\ type # 3
  BY <1>1 DEF LegacyTold
<1>3. r = LegacyReport(k, h, l)
  BY DEF Report
<1> HIDE DEF r, e
<1>4. SUFFICES
        /\ e.vk = k.vk \/ (r.kind = "byte" /\ (e.vk = 0 \/ r.char \in {8, 9, 13}))
        /\ r.kind # "byte" => SameModifiers(r, e, h) /\ ("Enhanced" \in e.mods <=> k.nav)
        /\ SameCharacter("legacy", e, k, h, l)
  BY <1>2 DEF Faithful, r, e
<1>5. CASE k.char # 0
  <2>1. r = [kind |-> "byte", char |-> Char(k, h, l), alt |-> "alt" \in AnsiMods(h)]
    BY <1>3, <1>5 DEF LegacyReport
  <2>2. r.kind = "byte" /\ r.char = Char(k, h, l)
    BY <2>1
  <2>3. r.alt <=> "alt" \in AnsiMods(h)
    BY <2>1
  <2> QED BY <1>5, <2>2, <2>3, ByteFaithful DEF e
<1>6. CASE k.char = 0 /\ k.final \in {"P", "Q", "S"} /\ AnsiMods(h) = {}
  <2>1. r.kind = "ss3" /\ r.final = k.final /\ r.mods = {}
    BY <1>3, <1>6 DEF LegacyReport
  <2>2. FunctionKey(k)
    BY <1>6, KeysKnown DEF LetterKey, DigitKey, SignKey, ControlsKey, ClusterKey, KeypadKey,
                           ModifierKey, LockKey
  <2>3. k.vk \in {112, 113, 115} /\ LegacyFinal[k.final] = k.vk /\ ~k.nav
    BY <1>6, <2>2, CodeOfOthers, Codes DEF FunctionKey
  <2>4. ~isEnhancedVK(k.vk)
    BY <2>3, Codes DEF isEnhancedVK
  <2>5. decodeAnsiModifiers({}) = {}
    BY DEF decodeAnsiModifiers
  <2>6. e = SS3Event(r)
    BY <2>1 DEF KeyEvent, e
  <2>7. e.vk = k.vk /\ e.mods = {}
    BY <1>6, <2>1, <2>3, <2>4, <2>5, <2>6 DEF SS3Event, Event, EnhancedIf
  <2>8. SameModifiers(r, e, h)
    BY <1>6, <2>1, <2>7 DEF SameModifiers
  <2> QED BY <1>6, <2>3, <2>7, <2>8 DEF SameCharacter
<1>7. CASE k.char = 0 /\ ~(k.final \in {"P", "Q", "S"} /\ AnsiMods(h) = {})
  <2>1. /\ r.kind = "csi" /\ r.final = k.final /\ r.key[1] = k.code /\ r.key[3] = 0 /\ ~r.colon
        /\ r.mods = AnsiMods(h)
    BY <1>3, <1>7 DEF LegacyReport
  <2>2. k.final # "u"
    BY <1>7, KeysKnown DEF Plain, LetterKey, DigitKey, SignKey, ControlsKey, FunctionKey,
                           ClusterKey, KeypadKey, ModifierKey, LockKey
  <2>3. LegacyVK(r) = k.vk
    BY <2>1, <2>2, SequenceNamesKey
  <2>4. AcceptsLegacy(r)
    BY <2>1, <2>3, CodeRange DEF AcceptsLegacy
  <2>5. e = LegacyCSIEvent(r)
    BY <2>1, <2>4 DEF KeyEvent, CSIEvent, e
  <2>6. e.vk = k.vk
    BY <2>3, <2>5, LegacyEventFields
  <2>7. r.mods = AnsiMods(h) \union {} /\ {} \in SUBSET {"caps", "num"}
    BY <2>1
  <2>8. SameModifiers(r, e, h) /\ ("Enhanced" \in e.mods <=> k.nav)
    <3>1. r.final = k.final /\ r.key[1] = k.code /\ r.key[3] = 0
      BY <2>1
    <3>2. /\ r.kind = "csi" => SameModifiers(r, LegacyCSIEvent(r), h)
          /\ "Enhanced" \in LegacyCSIEvent(r).mods <=> k.nav
      BY <2>2, <2>7, <3>1, SequenceFaithful
    <3> QED BY <2>1, <2>5, <3>2
  <2> QED BY <1>7, <2>6, <2>8 DEF SameCharacter
<1> QED BY <1>5, <1>6, <1>7

LEMMA ReportFaithful ==
  ASSUME NEW p \in {"legacy", "kitty", "win32", "far2l"}, NEW l \in SUBSET {"Caps", "Num"},
         NEW h \in Chords, NEW x \in ReportsOf(h), Reported(p, x[1], x[2])
  PROVE  Faithful(p, x[1], x[2], h, l)
<1>1. x[1] \in Keyboard /\ x[2] \in 1..3 /\ ((x[2] = 3 <=> x[1] \notin h) \/ x[1].mod = "none")
  BY DEF ReportsOf
<1>2. h \in SUBSET Keyboard
  BY DEF Chords, Keyboard
<1>3. CASE p = "legacy"
  <2>1. x[2] \in 1..2 /\ x[1].mod = "none" /\ x[1].lock = "none"
    BY <1>1, <1>3 DEF Reported
  <2> QED BY <1>1, <1>2, <1>3, <2>1, LegacyFaithful
<1>4. CASE p = "kitty"
  <2>1. x[2] # 3 /\ x[1].mod # "none" => x[1] \in h
    BY <1>1
  <2> QED BY <1>1, <1>2, <1>4, <2>1, KittyFaithful
<1>5. CASE p \in {"win32", "far2l"}
  BY <1>1, <1>2, <1>5, WindowsFaithful
<1> QED BY <1>3, <1>4, <1>5

\* For every key of the keyboard, every chord of modifiers and any locks, a report
\* is decoded to its key, its direction and Shift, Ctrl and Alt: with win32 and
\* far2l to the very Ctrl and Alt keys that are held, with kitty and legacy
\* sequences to one of the two.  Locks are not claimed of what the legacy parser
\* takes, nor the character with Ctrl or Alt held.
THEOREM ProtocolsTellTheSame == Spec => []ProtocolsAgree
<1>1. IInv => ProtocolsAgree
  <2> SUFFICES ASSUME IInv, NEW l \in SUBSET {"Caps", "Num"}, NEW h \in Chords, NEW x \in ReportsOf(h),
                      Reported(protocol, x[1], x[2])
               PROVE  Faithful(protocol, x[1], x[2], h, l)
    BY DEF ProtocolsAgree
  <2>1. protocol \in {"legacy", "kitty", "win32", "far2l"}
    BY CheckAssumption DEF IInv, Typing
  <2> QED BY <2>1, ReportFaithful
<1> QED BY <1>1, CheckInvariant, PTL
=============================================================================
