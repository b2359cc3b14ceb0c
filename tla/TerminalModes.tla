---------------------------- MODULE TerminalModes ----------------------------
(***************************************************************************)
(* What EnableProtocols, the function it returns, NewReader and Close do   *)
(* to the terminal and to its line (termios, or the console mode).         *)
(*                                                                         *)
(* The line changes at once; the sequences written to it reach the         *)
(* terminal later, one after the other (wire).  Programs nest: one may     *)
(* open a session or a reader while others are open.  What put the line    *)
(* into another mode is closed in the order of a stack, as "defer" does.   *)
(***************************************************************************)
EXTENDS Integers, Sequences, SequencesExt, FiniteSets

CONSTANTS
  Systems,      \* subset of {"unix", "windows"}
  InputModes,   \* values of the variable InputMode
  Masks,        \* sets of protocols to ask for
  Lines, Terms, \* lines and terminals that a program may find
  MaxOpened,    \* bound: sessions and readers opened by all programs
  MaxBehind     \* bound: sequences the terminal has yet to see at a write

Protocols == {"kitty", "win32", "mouse", "ext", "far2l"}
Modes     == {"9001", "1002", "1003", "1015", "1006", "1004", "2004", "far2l"}
Flags     == {"processed", "line", "echo", "quickedit", "vt", "window", "mouse", "extended"}

Terminal  == [modes : SUBSET Modes, kitty : Seq({"5", "15"})]

ASSUME ModesAssumption ==
  /\ Systems \subseteq {"unix", "windows"}
  /\ InputModes \subseteq {"", "ansi", "winapi", "ConPTY"}
  /\ Masks \subseteq SUBSET Protocols
  /\ Lines \subseteq SUBSET Flags
  /\ Terms \subseteq Terminal
  /\ MaxOpened \in Nat /\ MaxBehind \in Nat

VARIABLES
  os, InputMode,
  line,             \* flags that are set
  term,             \* the terminal: modes set, stack of kitty flags
  wire,             \* sequences written and not yet seen by the terminal
  opened,           \* the sessions and readers of the programs, oldest first
  line0, term0,     \* what the outermost program found
  cut, killed       \* history: a write failed; what crashes left open

vars == <<os, InputMode, line, term, wire, opened, line0, term0, cut, killed>>
fixed == <<os, InputMode, line0, term0, killed>>

-----------------------------------------------------------------------------
(***************************************************************************)
(* The sequences, and what a terminal makes of them.                       *)
(***************************************************************************)
Set(m)   == <<"set", m>>
Reset(m) == <<"reset", m>>

seqEnableKitty  == << <<"push", "15">> >>
seqDisableKitty == << <<"pop", "1">> >>
seqEnableWin32  == << Set("9001") >>
seqDisableWin32 == << Reset("9001") >>
seqEnableMouse  == << Set("1002"), Set("1003"), Set("1015"), Set("1006") >>
seqDisableMouse == << Reset("1006"), Reset("1015"), Reset("1003"), Reset("1002") >>
seqEnableExt    == << Set("1004"), Set("2004") >>
seqDisableExt   == << Reset("2004"), Reset("1004") >>
seqEnableFar2l  == << Set("far2l"), <<"report", "5">> >>
seqDisableFar2l == << Reset("far2l") >>

Part(mask, p, seq) == IF p \in mask THEN seq ELSE <<>>

enableSeq(mask) ==
  Part(mask, "kitty", seqEnableKitty) \o Part(mask, "win32", seqEnableWin32)
    \o Part(mask, "mouse", seqEnableMouse) \o Part(mask, "ext", seqEnableExt)
    \o Part(mask, "far2l", seqEnableFar2l)

\* Mutant: the kitty flags are not popped.
disableSeqNoPop(mask) ==
  Part(mask, "far2l", seqDisableFar2l) \o Part(mask, "ext", seqDisableExt)
    \o Part(mask, "mouse", seqDisableMouse) \o Part(mask, "win32", seqDisableWin32)

disableSeq(mask) ==
  Part(mask, "far2l", seqDisableFar2l) \o Part(mask, "ext", seqDisableExt)
    \o Part(mask, "mouse", seqDisableMouse) \o Part(mask, "win32", seqDisableWin32)
    \o Part(mask, "kitty", seqDisableKitty)

\* The terminal after sequence s; a pop of an empty stack does nothing.
Obey(t, s) ==
  CASE s[1] = "set"   -> [t EXCEPT !.modes = @ \union {s[2]}]
    [] s[1] = "reset" -> [t EXCEPT !.modes = @ \ {s[2]}]
    [] s[1] = "push"  -> [t EXCEPT !.kitty = Append(@, s[2])]
    [] s[1] = "pop"   -> [t EXCEPT !.kitty = IF @ = <<>> THEN @ ELSE Front(@)]
    [] OTHER          -> t

\* The terminal t after each of the sequences of w.
Stages(t, w) ==
  LET after[n \in 0..Len(w)] == IF n = 0 THEN t ELSE Obey(after[n - 1], w[n])
  IN  after

Settle(t, w) == Stages(t, w)[Len(w)]

\* The terminal when it has seen all that was written.
Settled == Settle(term, wire)

ModesOf(mask) == {m \in Modes : \E i \in 1..Len(enableSeq(mask)) : enableSeq(mask)[i] = Set(m)}

-----------------------------------------------------------------------------
Init ==
  /\ os \in Systems /\ InputMode \in InputModes
  /\ line \in Lines
  /\ term \in Terms
  /\ wire = <<>> /\ opened = <<>>
  /\ line0 = line /\ term0 = term
  /\ cut = FALSE /\ killed = 0

\* A call of EnableProtocols that has not returned, or of the restore function.
Busy == \E i \in DOMAIN opened : opened[i].state \in {"raw", "restoring"}

CanWrite == Len(wire) <= MaxBehind

CanOpen == ~Busy /\ Len(opened) + killed < MaxOpened

Session(mask, state) ==
  [kind |-> "session", state |-> state, mask |-> mask, saved |-> line, sent |-> FALSE]

\* term.MakeRaw; on Windows it also asks for escape sequences.
Raw(flags) ==
  (flags \ {"processed", "line", "echo"}) \union (IF os = "windows" THEN {"vt"} ELSE {})

MakeRaw(mask) ==
  /\ CanOpen
  /\ opened' = Append(opened, Session(mask, "raw"))
  /\ line' = Raw(line)
  /\ UNCHANGED <<fixed, term, wire, cut>>

\* Mutant: the error of MakeRaw is not looked at.
MakeRawFailsUnseen(mask) ==
  /\ CanOpen
  /\ opened' = Append(opened, Session(mask, "raw"))
  /\ UNCHANGED <<fixed, line, term, wire, cut>>

MakeRawFails(mask) ==
  /\ CanOpen
  /\ opened' = Append(opened, Session(mask, "closed"))
  /\ UNCHANGED <<fixed, line, term, wire, cut>>

Suppressed == InputMode = "ConPTY" \/ (os = "windows" /\ InputMode = "")

Suppress(i) ==
  /\ opened[i].state = "raw" /\ Suppressed
  /\ opened' = [opened EXCEPT ![i].state = "open"]
  /\ UNCHANGED <<fixed, line, term, wire, cut>>

Send(i) ==
  /\ opened[i].state = "raw" /\ ~Suppressed /\ CanWrite
  /\ wire' = wire \o enableSeq(opened[i].mask)
  /\ opened' = [opened EXCEPT ![i].state = "open", ![i].sent = TRUE]
  /\ UNCHANGED <<fixed, line, term, cut>>

\* Mutants: the mode is not restored; the call goes on after it restored it.
SendFailsRaw(i) ==
  /\ opened[i].state = "raw" /\ ~Suppressed /\ CanWrite
  /\ \E n \in 0..(Len(enableSeq(opened[i].mask)) - 1) :
       wire' = wire \o SubSeq(enableSeq(opened[i].mask), 1, n)
  /\ opened' = [opened EXCEPT ![i].state = "closed"]
  /\ cut' = TRUE
  /\ UNCHANGED <<fixed, line, term>>

SendFailsAndGoesOn(i) ==
  /\ opened[i].state = "raw" /\ ~Suppressed /\ CanWrite
  /\ \E n \in 0..(Len(enableSeq(opened[i].mask)) - 1) :
       wire' = wire \o SubSeq(enableSeq(opened[i].mask), 1, n)
  /\ line' = opened[i].saved
  /\ opened' = [opened EXCEPT ![i].state = "open"]
  /\ cut' = TRUE
  /\ UNCHANGED <<fixed, term>>

\* The write fails, when some of the sequences are out.
SendFails(i) ==
  /\ opened[i].state = "raw" /\ ~Suppressed /\ CanWrite
  /\ \E n \in 0..(Len(enableSeq(opened[i].mask)) - 1) :
       wire' = wire \o SubSeq(enableSeq(opened[i].mask), 1, n)
  /\ line' = opened[i].saved
  /\ opened' = [opened EXCEPT ![i].state = "closed"]
  /\ cut' = TRUE
  /\ UNCHANGED <<fixed, term>>

-----------------------------------------------------------------------------
(***************************************************************************)
(* NewReader on os.Stdin.                                                  *)
(***************************************************************************)
Console == os = "windows" /\ InputMode # "ansi"

\* Mutants: a flag of an output handle is set; the console still translates
\* keys to escape sequences.
ConsoleModeOutput(flags) ==
  (flags \union {"window", "mouse", "extended", "processing"})
    \ {"processed", "line", "echo", "quickedit", "vt"}

ConsoleModeVT(flags) ==
  (flags \union {"window", "mouse", "extended"})
    \ {"processed", "line", "echo", "quickedit"}

ConsoleMode(flags) ==
  (flags \union {"window", "mouse", "extended"})
    \ {"processed", "line", "echo", "quickedit", "vt"}

Reader(kind) ==
  [kind |-> kind, state |-> "open", mask |-> {}, saved |-> line, sent |-> FALSE]

NewReader ==
  /\ CanOpen
  /\ opened' = Append(opened, Reader("reader"))
  /\ line' = IF Console THEN ConsoleMode(line) ELSE line
  /\ UNCHANGED <<fixed, term, wire, cut>>

\* SetConsoleMode fails, which is only logged: the reader is the console's all
\* the same, and Close restores the mode that was never changed.
NewReaderUnset ==
  /\ CanOpen /\ Console
  /\ opened' = Append(opened, Reader("unset"))
  /\ UNCHANGED <<fixed, line, term, wire, cut>>

\* What saved the mode of the line and will put it back.
Saves(i) == opened[i].kind = "session" \/ Console

\* Nothing that was opened later, and saved the mode, is still open.
InOrder(i) ==
  Saves(i) => \A j \in (i + 1)..Len(opened) : Saves(j) => opened[j].state = "closed"

\* Close looks at r.done first; a saved mode of 0 counts as none.
Close(i) ==
  /\ ~Busy /\ opened[i].kind # "session" /\ opened[i].state = "open" /\ InOrder(i)
  /\ opened' = [opened EXCEPT ![i].state = "closed"]
  /\ line' = IF Console /\ opened[i].saved # {} THEN opened[i].saved ELSE line
  /\ UNCHANGED <<fixed, term, wire, cut>>

\* The restore function: it writes, without a look at the error, and then
\* restores the mode.
Restore(i) ==
  /\ ~Busy /\ opened[i].kind = "session" /\ opened[i].state = "open" /\ InOrder(i)
  /\ ~opened[i].sent \/ CanWrite
  /\ LET seq == IF opened[i].sent THEN disableSeq(opened[i].mask) ELSE <<>>
     IN  \E n \in 0..Len(seq) :
           /\ wire' = wire \o SubSeq(seq, 1, n)
           /\ cut' = (cut \/ n < Len(seq))
  /\ opened' = [opened EXCEPT ![i].state = "restoring"]
  /\ UNCHANGED <<fixed, line, term>>

RestoreLine(i) ==
  /\ opened[i].state = "restoring"
  /\ line' = opened[i].saved
  /\ opened' = [opened EXCEPT ![i].state = "closed"]
  /\ UNCHANGED <<fixed, term, wire, cut>>

-----------------------------------------------------------------------------
Process ==
  /\ wire # <<>>
  /\ term' = Obey(term, Head(wire))
  /\ wire' = Tail(wire)
  /\ UNCHANGED <<fixed, line, opened, cut>>

\* The programs are killed; whoever comes next finds what they left.
Crash ==
  /\ opened # <<>>
  /\ killed' = killed + Len(opened)
  /\ opened' = <<>> /\ cut' = FALSE
  /\ line0' = line /\ term0' = Settled
  /\ UNCHANGED <<os, InputMode, line, term, wire>>

Next ==
  \/ \E mask \in Masks : MakeRaw(mask) \/ MakeRawFails(mask)
  \/ \E i \in DOMAIN opened :
       Suppress(i) \/ Send(i) \/ SendFails(i) \/ Close(i) \/ Restore(i) \/ RestoreLine(i)
  \/ NewReader \/ NewReaderUnset \/ Process \/ Crash

Spec == Init /\ [][Next]_vars
-----------------------------------------------------------------------------
Command ==
  ({"set", "reset"} \X Modes) \union {<<"push", "15">>, <<"pop", "1">>, <<"report", "5">>}

Opened == [kind : {"session", "reader", "unset"}, state : {"raw", "open", "restoring", "closed"},
           mask : SUBSET Protocols, saved : SUBSET Flags, sent : BOOLEAN]

TypeOK ==
  /\ os \in Systems /\ InputMode \in InputModes
  /\ line \subseteq Flags /\ line0 \subseteq Flags
  /\ term \in Terminal /\ term0 \in Terminal
  /\ wire \in Seq(Command)
  /\ killed \in Nat /\ Len(opened) + killed <= MaxOpened
  /\ opened \in Seq(Opened)
  /\ cut \in BOOLEAN

AllClosed == \A i \in DOMAIN opened : opened[i].state = "closed"

\* Sessions and readers that are closed in the order of a stack leave the
\* line as the first of them found it, also when a write failed on the way
\* or EnableProtocols or SetConsoleMode returned an error.  Only a console whose mode was 0 is
\* not put back by Close ("restores terminal to normal state on exit",
\* README.md line 51).
LineRestored ==
  AllClosed =>
    \/ line = line0
    \/ Console /\ \E i \in DOMAIN opened : opened[i].kind # "session" /\ opened[i].saved = {}

\* When every write went through, the terminal will be as it was found, its
\* kitty flags too, but for the modes the sessions asked for, which are off:
\* whatever the nesting, and however late it sees the sequences.
TerminalRestored ==
  AllClosed /\ ~cut =>
    /\ Settled.kitty = term0.kitty
    /\ Settled.modes =
         term0.modes \ UNION {ModesOf(opened[i].mask) : i \in {j \in DOMAIN opened : opened[j].sent}}

\* While a session is open no key is echoed, held back for a line or turned
\* into a signal: a session or reader that opens and closes inside it, or
\* that fails to open or to set its mode, leaves the raw mode alone.  So it is
\* while a console reader is open, unless SetConsoleMode failed for it.
StaysRaw ==
  (\E i \in DOMAIN opened :
     opened[i].state = "open" /\ opened[i].kind # "unset" /\ Saves(i)) =>
    line \intersect {"processed", "line", "echo"} = {}

\* A session that reached the terminal has begun to end.
Ended == \E i \in DOMAIN opened : opened[i].sent /\ opened[i].state # "open"

\* A terminal that has been told to send mouse and focus reports sends them
\* to a line that is raw, until the first session ends: MakeRaw comes before
\* the write, whatever the delay of the terminal.
ReportsMeetRaw ==
  (killed = 0 /\ ~cut /\ ~Ended
     /\ (term.modes \ term0.modes) \intersect {"1002", "1003", "1004"} # {}) =>
    line \intersect {"line", "echo"} = {}

Topmost(i) == \A j \in (i + 1)..Len(opened) : opened[j].state = "closed"

\* "CRITICAL: if this is ON, ReadConsoleInputW gets no keys!"
\* (reader_windows.go line 59): MakeRaw puts the flag on, so the console
\* reader gets keys if no session was opened after it, or all of those were
\* closed again; unless SetConsoleMode failed for it.
ConsoleGetsKeys ==
  \A i \in DOMAIN opened :
    Console /\ opened[i].kind = "reader" /\ opened[i].state = "open" /\ Topmost(i) =>
      "vt" \notin line

\* "if we are using the native ConPTY/WinAPI reader (default), we MUST NOT
\* enable redundant ANSI protocols" (terminal.go lines 89 and 90): no session
\* has asked for escape sequences while a console reader is open.
NoRedundantProtocols ==
  ~ \E i, j \in DOMAIN opened :
      /\ Console /\ opened[i].kind # "session" /\ opened[i].state = "open"
      /\ opened[j].state = "open" /\ opened[j].sent
=============================================================================
