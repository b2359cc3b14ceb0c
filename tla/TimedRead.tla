------------------------------ MODULE TimedRead ------------------------------
(***************************************************************************)
(* ReadEventTimeout on a Unix file: the deadline, the 100 ms wait for the  *)
(* rest of a sequence, and readBytes, which polls the input and the stop   *)
(* pipe.  The program calls it again and again with the same timeout,      *)
(* until it returns io.EOF; another goroutine may call Close.              *)
(*                                                                         *)
(* Time is counted down, in ticks of a fraction of a millisecond: left is  *)
(* what remains until the deadline, expires what remains of the poll.  A   *)
(* tick can come between any two steps, and a timeout is never early but   *)
(* may be late.  Bytes are abstracted to items as in EventPump: "key" and  *)
(* "esc", and "half" and "rest", the two bytes of one character.           *)
(***************************************************************************)
EXTENDS Integers, Sequences

CONSTANTS
  Kinds,        \* what the input may be: "tty", "pipe"
  Inputs,       \* the sequences of items it may produce
  Timeouts,     \* what the program may pass, in ticks; 0 is ReadEvent
  Ms,           \* ticks in a millisecond
  EscWait,      \* ticks in the wait for the rest: 100 ms in the code
  MaxSignals    \* bound: signals that interrupt a poll in a behaviour

ASSUME TimedAssumption ==
  /\ Kinds \subseteq {"tty", "pipe"}
  /\ Inputs \subseteq Seq({"key", "esc", "half", "rest"})
  /\ Timeouts \subseteq Nat
  /\ Ms \in Nat \ {0}
  /\ EscWait \in Nat /\ EscWait >= Ms /\ EscWait % Ms = 0
  /\ MaxSignals \in Nat

VARIABLES
  kind, input,
  arrived,      \* items sent to the input
  hangup,       \* the other side has closed it
  timeout,      \* what the program passes
  taken,        \* items read
  used,         \* items decoded
  pc,           \* "out" of a call, "loop", "look", "poll"
  left,         \* ticks until the deadline, -1 once it has passed, or None
  expires,      \* ticks until poll gives up, or None
  result,       \* what the last call returned
  done, stopped,
  signals, signalled, waited, late    \* history, see Signal, Tick and Call

terminal == <<kind, input, arrived, hangup, timeout>>
reading  == <<taken, used>>
clock    == <<left, expires, waited>>
closing  == <<done, stopped>>
history  == <<signals, signalled, late>>
vars     == <<terminal, reading, pc, clock, result, closing, history>>

None == -2

Init ==
  /\ kind \in Kinds /\ input \in Inputs /\ timeout \in Timeouts
  /\ arrived = 0 /\ hangup = FALSE
  /\ taken = 0 /\ used = 0
  /\ pc = "out" /\ result = "none"
  /\ left = None /\ expires = None /\ waited = 0
  /\ done = FALSE /\ stopped = FALSE
  /\ signals = 0 /\ signalled = FALSE /\ late = FALSE

\* What is in r.buf.
Buffered    == taken - used
Is(i, item) == i <= taken /\ input[i] = item

\* It is a sequence that lacks its rest: an ESC, or an ESC and half a
\* character.  It is half a character.
Partial == \/ Buffered = 1 /\ Is(used + 1, "esc")
           \/ Buffered = 2 /\ Is(used + 1, "esc") /\ Is(used + 2, "half")
Half    == Buffered = 1 /\ Is(used + 1, "half")

\* The items of the character at i, and of the next event in r.buf.
CharLen(i) == IF Is(i, "half") /\ Is(i + 1, "rest") THEN 2 ELSE 1
EventLen   == IF Is(used + 1, "esc") THEN 1 + CharLen(used + 2) ELSE CharLen(used + 1)

-----------------------------------------------------------------------------
(***************************************************************************)
(* The terminal and the clock.                                             *)
(***************************************************************************)
Arrive ==
  /\ ~hangup /\ arrived < Len(input)
  /\ arrived' = arrived + 1
  /\ UNCHANGED <<kind, input, hangup, timeout, reading, pc, clock, result, closing, history>>

HangUp ==
  /\ ~hangup
  /\ hangup' = TRUE
  /\ UNCHANGED <<kind, input, arrived, timeout, reading, pc, clock, result, closing, history>>

\* Down to a least value at which the count no longer matters.
Down(n, least) == IF n > least THEN n - 1 ELSE n

\* waited counts how long the last wait for the rest has lasted.
Tick ==
  /\ pc # "out"
  /\ left'    = Down(left, -1)
  /\ expires' = Down(expires, 0)
  /\ waited'  = IF pc = "poll" /\ Partial /\ waited < EscWait THEN waited + 1 ELSE waited
  /\ UNCHANGED <<terminal, reading, pc, result, closing, history>>

-----------------------------------------------------------------------------
(***************************************************************************)
(* ReadEventTimeout.                                                       *)
(***************************************************************************)
\* late: the reader was closed before the call.
Call ==
  /\ pc = "out" /\ result # "eof"
  /\ pc' = "loop"
  /\ left' = IF timeout > 0 THEN timeout ELSE None
  /\ result' = "none"
  /\ waited' = 0 /\ signalled' = FALSE /\ late' = done
  /\ UNCHANGED <<terminal, reading, expires, closing, signals>>

Returns(what) ==
  /\ pc' = "out"
  /\ result' = what

\* Mutant: the loop does not look at r.done.
TopBlind ==
  /\ pc = "loop"
  /\ IF left = -1 THEN Returns("nil")
     ELSE pc' = "look" /\ UNCHANGED result
  /\ UNCHANGED <<terminal, reading, clock, closing, history>>

\* The top of the loop: closed, or past the deadline.
Top ==
  /\ pc = "loop"
  /\ IF done THEN Returns("eof")
     ELSE IF left = -1 THEN Returns("nil")
     ELSE pc' = "look" /\ UNCHANGED result
  /\ UNCHANGED <<terminal, reading, clock, closing, history>>

\* Mutant: an ESC is taken to have the rest of its sequence behind it.
DecodeUnchecked ==
  /\ pc = "look" /\ Buffered > 0 /\ ~Half
  /\ used' = used + EventLen
  /\ Returns("event")
  /\ UNCHANGED <<terminal, taken, clock, closing, history>>

Decode ==
  /\ pc = "look" /\ Buffered > 0 /\ ~Partial /\ ~Half
  /\ used' = used + EventLen
  /\ Returns("event")
  /\ UNCHANGED <<terminal, taken, clock, closing, history>>

\* The ESC at the front of the buffer becomes a key of its own.
Escape ==
  /\ used' = used + 1
  /\ Returns("escape")

\* Mutant: the poll is given ticks for milliseconds.
PollTimeoutWrongUnit(t) == IF t = None \/ t < Ms THEN None ELSE t \div Ms

\* The timeout for poll is in whole milliseconds; less than one, like none
\* at all, is a poll that waits for ever.
PollTimeout(t) == IF t = None \/ t < Ms THEN None ELSE Ms * (t \div Ms)

\* Nothing to decode: wait for the rest of a sequence, or for input, unless
\* the deadline has been reached.  Half a character is no such sequence: its
\* rest is waited for in the idle read.
StartPoll ==
  /\ pc = "look" /\ (Buffered = 0 \/ Partial \/ Half)
  /\ IF left \in {0, -1}
     THEN /\ IF Partial THEN Escape ELSE Returns("nil") /\ UNCHANGED used
          /\ UNCHANGED <<expires, waited>>
     ELSE /\ pc' = "poll"
          /\ waited' = 0
          /\ expires' = PollTimeout(IF Partial /\ (left = None \/ left > EscWait)
                                    THEN EscWait ELSE left)
          /\ UNCHANGED <<used, result>>
  /\ UNCHANGED <<terminal, taken, left, closing, history>>

-----------------------------------------------------------------------------
(***************************************************************************)
(* readBytes: what poll reports.  The stop pipe comes first.               *)
(***************************************************************************)
\* Mutant: a read without bytes and without error is the end of the call.
NothingReturns ==
  IF Partial THEN Escape ELSE Returns("nil") /\ UNCHANGED used

\* readBytes returns 0, nil: with an ESC in the buffer that is a key, else
\* the loop goes on.
Nothing ==
  IF Partial THEN Escape ELSE pc' = "loop" /\ UNCHANGED <<used, result>>

\* readBytes returns io.EOF.  It is dropped if an ESC is in the buffer, which
\* becomes a key, and if half a character is, which stays there.
NoMore ==
  IF Partial THEN Escape
  ELSE /\ IF Half THEN pc' = "loop" /\ UNCHANGED result ELSE Returns("eof")
       /\ UNCHANGED used

Ready    == pc = "poll" /\ ~stopped
PollEnds == expires' = None

PollStop ==
  /\ pc = "poll" /\ stopped
  /\ PollEnds /\ NoMore
  /\ UNCHANGED <<terminal, taken, left, waited, closing, history>>

PollRead ==
  /\ Ready
  /\ \E n \in 1..(arrived - taken) : taken' = taken + n
  /\ PollEnds
  /\ pc' = "loop"
  /\ UNCHANGED <<terminal, used, left, waited, result, closing, history>>

AtEOF == hangup /\ arrived = taken

\* Mutant: a read of no bytes is not the end of the input.
PollEOFAsTimeout ==
  /\ Ready /\ AtEOF /\ kind = "tty"
  /\ PollEnds /\ Nothing
  /\ UNCHANGED <<terminal, taken, left, waited, closing, history>>

\* A terminal that was hung up can be read, and the read returns no bytes.
PollEOF ==
  /\ Ready /\ AtEOF /\ kind = "tty"
  /\ PollEnds /\ NoMore
  /\ UNCHANGED <<terminal, taken, left, waited, closing, history>>

\* An empty pipe whose other end was closed reports POLLHUP without POLLIN.
PollHangUp ==
  /\ Ready /\ AtEOF /\ kind = "pipe"
  /\ PollEnds /\ Nothing
  /\ UNCHANGED <<terminal, taken, left, waited, closing, history>>

Idle == Ready /\ arrived = taken /\ ~hangup

PollExpires ==
  /\ Idle /\ expires = 0
  /\ PollEnds /\ Nothing
  /\ UNCHANGED <<terminal, taken, left, waited, closing, history>>

\* EINTR, which poll only returns when it has nothing else to report.
Signal ==
  /\ Idle /\ signals < MaxSignals
  /\ signals' = signals + 1 /\ signalled' = TRUE
  /\ PollEnds /\ Nothing
  /\ UNCHANGED <<terminal, taken, left, waited, closing, late>>

-----------------------------------------------------------------------------
CloseDone ==
  /\ ~done
  /\ done' = TRUE
  /\ UNCHANGED <<terminal, reading, pc, clock, result, stopped, history>>

\* Mutant: Close does not write to the stop pipe.
platformCloseSilent ==
  /\ done /\ ~stopped
  /\ UNCHANGED vars

\* The byte stays in the pipe: every later poll reports it.
platformClose ==
  /\ done /\ ~stopped
  /\ stopped' = TRUE
  /\ UNCHANGED <<terminal, reading, pc, clock, result, done, history>>

Ended == pc = "out" /\ result = "eof" /\ UNCHANGED vars

Next ==
  \/ Arrive \/ HangUp \/ Tick
  \/ Call \/ Top \/ Decode \/ StartPoll
  \/ PollStop \/ PollRead \/ PollEOF \/ PollHangUp \/ PollExpires \/ Signal
  \/ CloseDone \/ platformClose
  \/ Ended

(***************************************************************************)
(* Time passes, the goroutines run on, poll returns when it has something  *)
(* to report, the program calls again.  Nobody has to call Close, to send  *)
(* or to hang up, and no signal has to come.                               *)
(***************************************************************************)
Fairness ==
  /\ WF_vars(Tick)
  /\ WF_vars(Call) /\ WF_vars(Top) /\ WF_vars(Decode) /\ WF_vars(StartPoll)
  /\ WF_vars(PollStop \/ PollRead \/ PollEOF \/ PollHangUp \/ PollExpires)
  /\ WF_vars(platformClose)

Spec     == Init /\ [][Next]_vars
FairSpec == Spec /\ Fairness

-----------------------------------------------------------------------------
TypeOK ==
  /\ kind \in Kinds /\ input \in Inputs /\ timeout \in Timeouts
  /\ arrived \in 0..Len(input) /\ taken \in 0..arrived /\ used \in 0..taken
  /\ hangup \in BOOLEAN /\ done \in BOOLEAN /\ stopped \in BOOLEAN
  /\ pc \in {"out", "loop", "look", "poll"}
  /\ result \in {"none", "event", "escape", "nil", "eof"}
  /\ left \in (-1..timeout) \union {None}
  /\ expires \in Nat \union {None}
  /\ waited \in 0..EscWait
  /\ signals \in 0..MaxSignals
  /\ signalled \in BOOLEAN /\ late \in BOOLEAN

Returned(what) == pc = "out" /\ result = what

\* A call that returns neither event nor error has reached its deadline: a
\* poll that is cut short by a signal, or whose timeout was rounded down to
\* whole milliseconds, does not end it early (ReadEventTimeout).
NilNeedsDeadline == Returned("nil") => left \in {0, -1}

\* An ESC is returned as a key only after the full wait for the rest of its
\* sequence, in the last millisecond before the deadline, after a signal,
\* or when the input has ended or was closed.
EscapeNeedsWait ==
  Returned("escape") =>
    \/ waited = EscWait
    \/ left # None /\ left < Ms
    \/ signalled \/ hangup \/ stopped

\* A call that starts after Close has closed r.done returns io.EOF, however
\* much is buffered or can be read.
ClosedStaysClosed == pc = "out" /\ late => result \in {"none", "eof"}

\* Close ends a call that is in progress, whatever it waits for, also a poll
\* without timeout.
CloseEndsCall == done ~> pc = "out"

\* What has arrived ends in half a character, which ReadEvent waits for the
\* rest of for ever (see the finding about reader.go, line 456).
CutCharacter == arrived > 0 /\ input[arrived] = "half"

\* A program that calls ReadEvent again and again learns of the hang-up of a
\* terminal, unless that cuts a character in two: then the read error is
\* dropped and the call goes on (reader.go, lines 456 to 461).
TerminalEndReported ==
  hangup /\ kind = "tty" /\ timeout = 0 /\ ~CutCharacter ~> Returned("eof")

\* So it does of the end of any input: "The channel is closed when the reader
\* is closed or an unrecoverable error occurs" (reader.go, line 80).
EndReported == hangup /\ timeout = 0 ~> Returned("eof")

\* "ReadEventTimeout reads the next input event with an optional timeout"
\* (reader.go, line 130): a call with a timeout returns.
TimedCallReturns == pc # "out" /\ left # None ~> pc = "out"
=============================================================================
