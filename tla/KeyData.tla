------------------------------- MODULE KeyData -------------------------------
(***************************************************************************)
(* The fields of a key event: what the parsers make of a sequence that     *)
(* they accept (VTDecoder says which they accept, and how much they        *)
(* consume).                                                               *)
(*                                                                         *)
(* A sequence comes here with its numbers read:                            *)
(*   csi    final, key (up to three codes), mods (a set), type             *)
(*          (0 none, 1 press, 2 repeat, 3 release), colon (one was there)  *)
(*   ss3    final, mods                                                    *)
(*   win32  Vk, Sc, Uc, Kd, Cs                                             *)
(*   f2l    data, the decoded bytes                                        *)
(*   byte   char, and alt: an ESC was in front of it                       *)
(***************************************************************************)
EXTENDS Far2lStack, FiniteSets

\* The codes of Windows, module winkeys.
VK == [ BACK |-> 8, TAB |-> 9, CLEAR |-> 12, RETURN |-> 13, SHIFT |-> 16, CONTROL |-> 17,
        MENU |-> 18, CAPITAL |-> 20, ESCAPE |-> 27, SPACE |-> 32, PRIOR |-> 33, NEXT |-> 34,
        END |-> 35, HOME |-> 36, LEFT |-> 37, UP |-> 38, RIGHT |-> 39, DOWN |-> 40,
        INSERT |-> 45, DELETE |-> 46, KEY0 |-> 48, KEYA |-> 65, LWIN |-> 91, RWIN |-> 92,
        APPS |-> 93, NUMPAD0 |-> 96, MULTIPLY |-> 106, ADD |-> 107, SUBTRACT |-> 109,
        DECIMAL |-> 110, DIVIDE |-> 111, F1 |-> 112, NUMLOCK |-> 144, SCROLL |-> 145,
        LSHIFT |-> 160, RSHIFT |-> 161, LCONTROL |-> 162, RCONTROL |-> 163,
        LMENU |-> 164, RMENU |-> 165, OEM_1 |-> 186, OEM_PLUS |-> 187, OEM_COMMA |-> 188,
        OEM_MINUS |-> 189, OEM_PERIOD |-> 190, OEM_2 |-> 191, OEM_3 |-> 192,
        OEM_4 |-> 219, OEM_5 |-> 220, OEM_6 |-> 221, OEM_7 |-> 222, UNASSIGNED |-> 255 ]

LeftShift  == 42
RightShift == 54

\* The bits of ControlKeyState.
Bit == [ RAlt |-> 1, LAlt |-> 2, RCtrl |-> 4, LCtrl |-> 8, Shift |-> 16,
         Num |-> 32, Scroll |-> 64, Caps |-> 128, Enhanced |-> 256 ]

Flags       == DOMAIN Bit
FlagsOf(n)  == {f \in Flags : (n \div Bit[f]) % 2 = 1}
Locks       == {"Num", "Scroll", "Caps"}

Event(vk, scan, char, down, mods, legacy) ==
  [vk |-> vk, scan |-> scan, char |-> char, down |-> down, mods |-> mods, legacy |-> legacy]

\* One of Windows' keys to the left of the numeric keypad.
isEnhancedVK(vk) ==
  vk \in {VK.LEFT, VK.RIGHT, VK.UP, VK.DOWN, VK.HOME, VK.END, VK.PRIOR, VK.NEXT,
          VK.INSERT, VK.DELETE}

EnhancedIf(P) == IF P THEN {"Enhanced"} ELSE {}
-----------------------------------------------------------------------------
(***************************************************************************)
(* ANSI sequences.                                                         *)
(***************************************************************************)
\* The bit of the Super key is taken for EnhancedKey, those of the locks are
\* not looked at.
AnsiFlag == [shift |-> "Shift", alt |-> "LAlt", ctrl |-> "LCtrl", super |-> "Enhanced"]

decodeAnsiModifiers(mods) == {AnsiFlag[m] : m \in mods \intersect DOMAIN AnsiFlag}

LegacyFinal ==
  [A |-> VK.UP, B |-> VK.DOWN, C |-> VK.RIGHT, D |-> VK.LEFT, H |-> VK.HOME, F |-> VK.END,
   Z |-> VK.TAB, P |-> VK.F1, Q |-> VK.F1 + 1, R |-> VK.F1 + 2, S |-> VK.F1 + 3]

mapCSICommandToVK(final) == IF final \in DOMAIN LegacyFinal THEN LegacyFinal[final] ELSE 0

mapTildeToVK(code) ==
  CASE code \in {1, 7} -> VK.HOME    [] code = 2      -> VK.INSERT
    [] code = 3        -> VK.DELETE  [] code \in {4, 8} -> VK.END
    [] code = 5        -> VK.PRIOR   [] code = 6      -> VK.NEXT
    [] code \in 11..15 -> VK.F1 + code - 11
    [] code \in 17..21 -> VK.F1 + 5 + code - 17
    [] code \in 23..24 -> VK.F1 + 10 + code - 23
    [] OTHER           -> 0

LegacyVK(s) == IF s.final = "~" THEN mapTildeToVK(s.key[1]) ELSE mapCSICommandToVK(s.final)

AcceptsLegacy(s) == ~s.colon /\ LegacyVK(s) # 0

LegacyCSIEvent(s) ==
  Event(LegacyVK(s), 0, 0, TRUE,
        decodeAnsiModifiers(s.mods)
          \union (IF s.final = "Z" THEN {"Shift"} ELSE {})
          \union EnhancedIf(isEnhancedVK(LegacyVK(s))),
        TRUE)

\* Without a modifier an arrow comes from Ctrl and the key.
SS3Event(s) ==
  LET vk == LegacyFinal[s.final]
  IN  Event(vk, 0, 0, TRUE,
            decodeAnsiModifiers(s.mods)
              \union (IF s.mods = {} /\ s.final \in {"A", "B", "C", "D"} THEN {"LCtrl"} ELSE {})
              \union EnhancedIf(isEnhancedVK(vk)),
            TRUE)

\* Control characters: Tab, Return, ESC and Backspace are keys of their own,
\* the others Ctrl with a letter, Space, or one of \ ] 6 -.
ControlKey(c) ==
  CASE c \in 1..26 -> VK.KEYA + c - 1  [] c = 0  -> VK.SPACE     [] c = 28 -> VK.OEM_5
    [] c = 29      -> VK.OEM_6         [] c = 30 -> VK.KEY0 + 6  [] c = 31 -> VK.OEM_MINUS

translateLegacyByte(c) ==
  CASE c = 8  -> Event(VK.BACK, 0, 0, TRUE, {}, TRUE)
    [] c = 9  -> Event(VK.TAB, 0, 9, TRUE, {}, TRUE)
    [] c = 13 -> Event(VK.RETURN, 0, 13, TRUE, {}, TRUE)
    [] c = 27 -> Event(VK.ESCAPE, 0, 0, TRUE, {}, TRUE)
    [] c \in (0..31) \ {8, 9, 13, 27} ->
         Event(ControlKey(c), 0, IF c = 0 THEN 32 ELSE 0, TRUE, {"LCtrl"}, TRUE)
    [] OTHER  -> Event(0, 0, c, TRUE, {}, TRUE)

\* A lone ESC is not marked as legacy, and Alt with Backspace is a character.
ByteEvent(s) ==
  IF s.alt THEN [translateLegacyByte(s.char) EXCEPT !.mods = @ \union {"LAlt"}]
  ELSE CASE s.char = 27  -> Event(VK.ESCAPE, 0, 0, TRUE, {}, FALSE)
         [] s.char = 127 -> Event(VK.BACK, 0, 0, TRUE, {}, TRUE)
         [] OTHER        -> translateLegacyByte(s.char)
-----------------------------------------------------------------------------
(***************************************************************************)
(* The kitty protocol.                                                     *)
(***************************************************************************)
\* Super counts as Ctrl, Alt and Ctrl as the left ones.
KittyFlag ==
  [shift |-> "Shift", alt |-> "LAlt", ctrl |-> "LCtrl", super |-> "LCtrl",
   caps |-> "Caps", num |-> "Num"]

\* Mutant: the modifiers are passed on as they come.
KittyModsRaw(mods) == mods

KittyMods(mods) == {KittyFlag[m] : m \in mods \intersect DOMAIN KittyFlag}

\* The key in the basic layout, if the terminal tells, in lower case.
KittyBase(s) ==
  LET c == IF s.key[3] = 0 THEN s.key[1] ELSE s.key[3]
  IN  IF c \in 65..90 THEN c + 32 ELSE c

Punctuation(c) ==
  CASE c = 96 -> VK.OEM_3  [] c = 45 -> VK.OEM_MINUS  [] c = 61 -> VK.OEM_PLUS
    [] c = 91 -> VK.OEM_4  [] c = 93 -> VK.OEM_6      [] c = 92 -> VK.OEM_5
    [] c = 59 -> VK.OEM_1  [] c = 39 -> VK.OEM_7      [] c = 44 -> VK.OEM_COMMA
    [] c = 46 -> VK.OEM_PERIOD  [] c = 47 -> VK.OEM_2 [] c = 9 -> VK.TAB
    [] c = 27 -> VK.ESCAPE [] c = 127 -> VK.BACK      [] c = 32 -> VK.SPACE
    [] OTHER  -> 0

\* Keypad keys, with NumLock on and off, and the keys that have no character.
Keypad(c) ==
  CASE c \in 57399..57408 -> VK.NUMPAD0 + c - 57399
    [] c \in {57409, 57426} -> VK.DECIMAL
    [] c = 57425 -> VK.NUMPAD0     [] c = 57424 -> VK.NUMPAD0 + 1
    [] c = 57420 -> VK.NUMPAD0 + 2 [] c = 57422 -> VK.NUMPAD0 + 3
    [] c = 57417 -> VK.NUMPAD0 + 4 [] c = 57427 -> VK.NUMPAD0 + 5
    [] c = 57418 -> VK.NUMPAD0 + 6 [] c = 57423 -> VK.NUMPAD0 + 7
    [] c = 57419 -> VK.NUMPAD0 + 8 [] c = 57421 -> VK.NUMPAD0 + 9
    [] OTHER     -> 0

KittySpecial(c) ==
  CASE c = 57410 -> VK.DIVIDE  [] c = 57411 -> VK.MULTIPLY [] c = 57412 -> VK.SUBTRACT
    [] c = 57413 -> VK.ADD     [] c = 57414 -> VK.RETURN   [] c = 57444 -> VK.LWIN
    [] c = 57450 -> VK.RWIN    [] c = 57363 -> VK.APPS     [] c = 57360 -> VK.NUMLOCK
    [] c = 57358 -> VK.CAPITAL [] c \in {57442, 57448} -> VK.CONTROL
    [] c \in {57443, 57449} -> VK.MENU  [] c \in {57441, 57447} -> VK.SHIFT
    [] OTHER     -> 0

\* The codes before "~" are those of the legacy sequences, but 1, 4, 7 and 8;
\* 13 is also Return, 8 before "u" a Backspace (workarounds for wezterm).
KittyKeyVK(c, final) ==
  CASE c \in 97..122             -> c - 32
    [] c \in 48..57              -> c
    [] Punctuation(c) # 0        -> Punctuation(c)
    [] c = 13                    -> IF final = "~" THEN VK.F1 + 2 ELSE VK.RETURN
    [] c = 8 /\ final = "u"      -> VK.BACK
    [] final = "~" /\ c \in {2, 3, 5, 6, 11, 12} \union 14..24 -> mapTildeToVK(c)
    [] Keypad(c) # 0             -> Keypad(c)
    [] OTHER                     -> KittySpecial(c)

\* The final byte names the key by itself, unless it is "u" or "~".
KittyVK(s) ==
  CASE s.final = "E" -> VK.CLEAR
    [] s.final \in DOMAIN LegacyFinal \ {"Z"} -> LegacyFinal[s.final]
    [] OTHER -> KittyKeyVK(KittyBase(s), s.final)

\* The press of a modifier key says which of the two it is.
OwnModifier(s, mods) ==
  LET c == KittyBase(s)
  IN  IF s.type = 3 THEN mods
      ELSE CASE c = 57448            -> (mods \union {"RCtrl", "Enhanced"}) \ {"LCtrl"}
             [] c = 57449            -> (mods \union {"RAlt", "Enhanced"}) \ {"LAlt"}
             [] c = 57442            -> mods \union {"LCtrl"}
             [] c = 57443            -> mods \union {"LAlt"}
             [] c \in {57441, 57447} -> mods \union {"Shift"}
             [] OTHER                -> mods

KittyFlags(s) ==
  OwnModifier(s, KittyMods(s.mods))
    \union EnhancedIf(\/ s.final \in {"A", "B", "C", "D", "H", "F"}
                      \/ s.final = "~" /\ KittyBase(s) \in {2, 3, 5, 6})

\* Mutant: the scan code is only told when the key goes down.
KittyScanOnPress(s) ==
  CASE s.type # 3 /\ KittyBase(s) = 57441 -> LeftShift
    [] s.type # 3 /\ KittyBase(s) = 57447 -> RightShift
    [] OTHER -> 0

KittyScan(s) ==
  CASE KittyBase(s) = 57441 -> LeftShift
    [] KittyBase(s) = 57447 -> RightShift
    [] OTHER -> 0

Upper(c) == IF c \in 97..122 THEN c - 32 ELSE c

\* The shifted key, or else the key, if it is a character.
KittyText(s) ==
  LET c == IF s.key[2] = 0 THEN s.key[1] ELSE s.key[2]
  IN  IF c < 32 \/ c = 127 \/ c \in 57358..57454 THEN 0 ELSE c

\* CapsLock makes it upper case, and so does Alt.
KittyChar(s, vk, mods) ==
  IF \/ "Caps" \in mods /\ "Shift" \notin mods
     \/ mods \intersect {"LAlt", "RAlt"} # {}
        /\ vk \notin {VK.ESCAPE, VK.DELETE, VK.BACK, VK.TAB, VK.RETURN, VK.SPACE}
  THEN Upper(KittyText(s)) ELSE KittyText(s)

KittyEvent(s) ==
  LET vk   == IF KittyVK(s) = 0 /\ KittyText(s) # 0 THEN VK.UNASSIGNED ELSE KittyVK(s)
      mods == KittyFlags(s)
  IN  Event(vk, KittyScan(s), KittyChar(s, vk, mods), s.type # 3, mods, FALSE)

\* A sequence that the legacy parser takes does not get to the kitty parser.
CSIEvent(s) == IF AcceptsLegacy(s) THEN LegacyCSIEvent(s) ELSE KittyEvent(s)
-----------------------------------------------------------------------------
(***************************************************************************)
(* Win32 input mode, and the key events of far2l: Windows' own fields.     *)
(***************************************************************************)
Win32Event(s) == Event(s.Vk, s.Sc, s.Uc, s.Kd = 1, FlagsOf(s.Cs), FALSE)

\* Mutant: scan code and key code change places.
Far2lKeySwapped(cmd, s) ==
  LET char == PopU32(s)           mods == PopU32(char.rest)
      vk   == PopU16(mods.rest)   scan == PopU16(vk.rest)
  IN  Event(vk.value, scan.value, char.value, cmd = "K", FlagsOf(mods.value), FALSE)

\* 'K' and 'k': the fields in full.
Far2lKey(cmd, s) ==
  LET char == PopU32(s)           mods == PopU32(char.rest)
      scan == PopU16(mods.rest)   vk   == PopU16(scan.rest)
  IN  Event(vk.value, scan.value, char.value, cmd = "K", FlagsOf(mods.value), FALSE)

\* 'C' and 'c': the fields of a small character, without a scan code.
Far2lChar(cmd, s) ==
  LET char == PopU16(s)  mods == PopU16(char.rest)  vk == PopU8(mods.rest)
  IN  Event(vk.value, 0, char.value, cmd = "C", FlagsOf(mods.value), FALSE)

Far2lCommand(b) ==
  CASE b = 75 -> "K" [] b = 107 -> "k" [] b = 67 -> "C" [] b = 99 -> "c"

Far2lEvent(s) ==
  LET byte == PopU8(s.data)
      cmd  == Far2lCommand(byte.value)
  IN  IF cmd \in {"K", "k"} THEN Far2lKey(cmd, byte.rest) ELSE Far2lChar(cmd, byte.rest)

KeyEvent(s) ==
  CASE s.kind = "csi"   -> CSIEvent(s)
    [] s.kind = "ss3"   -> SS3Event(s)
    [] s.kind = "win32" -> Win32Event(s)
    [] s.kind = "f2l"   -> Far2lEvent(s)
    [] s.kind = "byte"  -> ByteEvent(s)
=============================================================================
