------------------------------ MODULE EventPump ------------------------------
(***************************************************************************)
(* The goroutine behind Reader.GetEventChan, the goroutines that call      *)
(* Close, and the program that receives from EventChan.                    *)
(*                                                                         *)
(* platform is how ReadEvent gets its input:                               *)
(*   "tty"     *os.File on Unix: poll on the terminal and on the stop pipe *)
(*   "conpty"  a Windows console: WaitForMultipleObjects on the console    *)
(*             and on the cancel event                                     *)
(*   "ansi"    any other reader on Windows: a plain blocking Read          *)
(*   "bypass"  none: a GUI backend puts the events into EventChan itself   *)
(*                                                                         *)
(* The input is a sequence of items, named by their index:                 *)
(*   "key"    decodes at once                                              *)
(*   "esc"    an ESC byte: with the character after it one event, alone    *)
(*            incomplete (stages 8 and 9 of ReadEventTimeout)              *)
(*   "half"   the first byte of a character of two bytes: an event by      *)
(*            itself (U+FFFD) when something else than its "rest" follows, *)
(*            incomplete when nothing does                                 *)
(*   "rest"   the last byte of such a character                            *)
(*   "other"  a console record that is no input event (a menu record)      *)
(* An event is the sequence of the items it stands for; <<>> is nil.       *)
(***************************************************************************)
EXTENDS Integers, Sequences, SequencesExt, FiniteSetsExt

CONSTANTS
  Platforms,    \* the platforms to consider
  Inputs,       \* the sequences of items a terminal may produce
  QueueCap,     \* capacity of EventChan: 1024 in the code
  MaxRetries,   \* maxTransientReadRetries: 80 in the code
  MaxFaults,    \* bound: transient read errors in a behaviour
  Closers       \* goroutines that call Close

ASSUME PumpAssumption ==
  /\ Platforms \subseteq {"tty", "conpty", "ansi", "bypass"}
  /\ Inputs \subseteq Seq({"key", "esc", "half", "rest", "other"})
  /\ QueueCap \in Nat \ {0}
  /\ MaxRetries \in Nat
  /\ MaxFaults \in Nat

VARIABLES
  platform, input,
  arrived,      \* items the terminal has sent
  hangup,       \* it will send no more
  taken,        \* items read from it
  used,         \* items decoded; used+1..taken are in r.buf
  pc,           \* where the pump is
  ev,           \* the event ReadEvent returned to it
  retries,      \* transientReadRetries
  faults,       \* transient errors so far
  queue, queueClosed,       \* EventChan
  received,                 \* what the program received from it
  gone,                     \* the program has stopped receiving
  done,                     \* r.done is closed
  stopped,                  \* stop pipe written, or cancel event set
  closer,                   \* where each closer is
  panicked,                 \* whose send on, or close of, a closed channel
  overlap, late, streak     \* history, see Enter, Send and Fault

terminal == <<platform, input, arrived, hangup>>
reading  == <<taken, used>>
pump     == <<pc, ev, retries, faults, streak>>
channel  == <<queue, queueClosed, panicked, received, gone, late>>
closing  == <<done, stopped, closer, overlap>>
vars     == <<terminal, reading, pump, channel, closing>>

\* A console produces records, a byte stream bytes, a backend whole events.
Produces(p, s) ==
  CASE p = "conpty" -> ToSet(s) \subseteq {"key", "other"}
    [] p = "bypass" -> ToSet(s) \subseteq {"key"}
    [] OTHER        -> ~Contains(s, "other")

Init ==
  /\ platform \in Platforms
  /\ input \in {s \in Inputs : Produces(platform, s)}
  /\ arrived = 0 /\ hangup = FALSE
  /\ taken = 0 /\ used = 0
  /\ pc = "none" /\ ev = <<>> /\ retries = 0 /\ faults = 0
  /\ queue = <<>> /\ queueClosed = FALSE /\ received = <<>>
  /\ gone = FALSE
  /\ done = FALSE /\ stopped = FALSE
  /\ closer = [c \in Closers |-> "idle"]
  /\ panicked = "no"
  /\ overlap = FALSE /\ late = 0 /\ streak = 0

-----------------------------------------------------------------------------
(***************************************************************************)
(* The terminal.                                                           *)
(***************************************************************************)
Arrive ==
  /\ ~hangup /\ arrived < Len(input)
  /\ arrived' = arrived + 1
  /\ UNCHANGED <<platform, input, hangup, reading, pump, channel, closing>>

HangUp ==
  /\ platform \in {"tty", "ansi"} /\ ~hangup
  /\ hangup' = TRUE
  /\ UNCHANGED <<platform, input, arrived, reading, pump, channel, closing>>

AtEOF == hangup /\ arrived = taken

-----------------------------------------------------------------------------
(***************************************************************************)
(* The pump.  "none" it was not started; "loop" at the top of the loop of  *)
(* ReadEventTimeout; "wait" in the read for the rest of a sequence; "read" *)
(* in the idle read; "send" in the select with EventChan; "retry" in the   *)
(* select with the retry timer; "exited" it returned, closing EventChan.   *)
(***************************************************************************)
\* A panic ends every goroutine.
Running   == panicked = "no"
At(place) == Running /\ pc = place

\* In bypass mode GetEventChan starts nothing.
GetEventChan ==
  /\ At("none") /\ platform # "bypass"
  /\ pc' = "loop"
  /\ UNCHANGED <<terminal, reading, ev, retries, faults, streak, channel, closing>>

\* The deferred close panics where EventChan is closed already.
Exit ==
  /\ pc' = "exited"
  /\ queueClosed' = TRUE
  /\ panicked' = IF queueClosed THEN "pump" ELSE panicked
  /\ UNCHANGED <<ev, queue, received, gone, late>>

\* Mutant: the retries are not reset.
ReturnKeepsRetries(e, n) ==
  /\ ev' = e
  /\ used' = used + n
  /\ pc' = "send"
  /\ streak' = 0
  /\ UNCHANGED <<terminal, retries, faults, channel, closing>>

\* ReadEvent returns event e, made of the first n undecoded items.
Return(e, n) ==
  /\ ev' = e
  /\ used' = used + n
  /\ pc' = "send"
  /\ retries' = 0 /\ streak' = 0
  /\ UNCHANGED <<terminal, faults, channel, closing>>

\* ReadEventTimeout looks at r.done before anything else, except on a console.
LoopClosed ==
  /\ At("loop") /\ platform # "conpty" /\ done
  /\ Exit
  /\ UNCHANGED <<terminal, reading, retries, faults, streak, closing>>

Buffered == taken - used
Is(i, item) == i <= taken /\ input[i] = item

\* r.buf is an ESC, or an ESC and half a character; or half a character.
Partial == \/ Buffered = 1 /\ Is(used + 1, "esc")
           \/ Buffered = 2 /\ Is(used + 1, "esc") /\ Is(used + 2, "half")
Half    == Buffered = 1 /\ Is(used + 1, "half")

\* The items of the character at i, and of the next event in r.buf.
CharLen(i) == IF Is(i, "half") /\ Is(i + 1, "rest") THEN 2 ELSE 1
EventLen   == IF Is(used + 1, "esc") THEN 1 + CharLen(used + 2) ELSE CharLen(used + 1)

NextItems(n) == [k \in 1..n |-> used + k]

\* Mutants: of several items only the first is in the event; the loop does
\* not look at r.done.
DecodeEventHalf ==
  /\ At("loop") /\ platform # "conpty" /\ ~done
  /\ Buffered > 0 /\ ~Partial /\ ~Half
  /\ Return(NextItems(1), EventLen)
  /\ UNCHANGED taken

DecodeEventClosed ==
  /\ At("loop") /\ platform # "conpty"
  /\ Buffered > 0 /\ ~Partial /\ ~Half
  /\ Return(NextItems(EventLen), EventLen)
  /\ UNCHANGED taken

DecodeEvent ==
  /\ At("loop") /\ platform # "conpty" /\ ~done
  /\ Buffered > 0 /\ ~Partial /\ ~Half
  /\ Return(NextItems(EventLen), EventLen)
  /\ UNCHANGED taken

\* Nothing to decode: to one of the two reads.
StartRead ==
  /\ At("loop")
  /\ \/ platform = "conpty"
     \/ ~done /\ (Buffered = 0 \/ Partial \/ Half)
  /\ pc' = IF platform # "conpty" /\ Partial THEN "wait" ELSE "read"
  /\ UNCHANGED <<terminal, reading, ev, retries, faults, streak, channel, closing>>

\* poll reports the stop pipe first; a plain Read knows nothing of it.
Interrupted == platform = "tty" /\ stopped

ReadBytes ==
  /\ At("wait") \/ At("read")
  /\ platform # "conpty" /\ ~Interrupted
  /\ \E n \in 1..(arrived - taken) : taken' = taken + n
  /\ pc' = "loop"
  /\ UNCHANGED <<terminal, used, ev, retries, faults, streak, channel, closing>>

\* Mutants: the wait for the rest has no timeout; its error ends the pump.
WaitFailsUntimed ==
  /\ At("wait") /\ AtEOF
  /\ Return(NextItems(1), 1)
  /\ UNCHANGED taken

WaitFailsForGood ==
  /\ At("wait")
  /\ IF AtEOF THEN Exit /\ UNCHANGED <<terminal, used, retries, faults, streak, closing>>
     ELSE platform = "tty" /\ Return(NextItems(1), 1)
  /\ UNCHANGED taken

\* The read for the rest of a sequence returns nothing: 100 ms have passed
\* (poll only), or it failed.  The error is dropped, the ESC is a key; half a
\* character after it stays in r.buf.
WaitFails ==
  /\ At("wait")
  /\ platform = "tty" \/ AtEOF
  /\ Return(NextItems(1), 1)
  /\ UNCHANGED taken

\* An error of the idle read ends it, but with half a character in r.buf it is
\* dropped and the loop goes round.
ReadEOF ==
  /\ At("read") /\ platform # "conpty"
  /\ Interrupted \/ AtEOF
  /\ IF Half THEN pc' = "loop" /\ UNCHANGED <<ev, channel>>
             ELSE Exit
  /\ UNCHANGED <<terminal, reading, retries, faults, streak, closing>>

\* The console is the first handle of the wait: a record wins over the
\* cancel event, and nobody looks at r.done.
ReadRecord ==
  /\ At("read") /\ platform = "conpty"
  /\ arrived > taken
  /\ taken' = taken + 1
  /\ Return(IF input[taken + 1] = "other" THEN <<>> ELSE NextItems(1), 1)

Cancelled ==
  /\ At("read") /\ platform = "conpty"
  /\ arrived = taken /\ stopped
  /\ stopped' = FALSE                       \* an auto-reset event
  /\ Exit
  /\ UNCHANGED <<terminal, reading, retries, faults, streak,
                 done, closer, overlap>>

\* A transient error (ERROR_PIPE_NOT_CONNECTED) ends the read.  With an ESC
\* in the buffer it is dropped like a timeout, with half a character it is
\* dropped like any other: neither counted nor delayed.
CanFault == platform # "tty" /\ faults < MaxFaults

\* Mutant: retries without end.
FaultForever ==
  /\ At("read") /\ CanFault
  /\ faults' = faults + 1
  /\ streak' = streak + 1
  /\ retries' = retries + 1
  /\ pc' = "retry"
  /\ UNCHANGED <<terminal, reading, ev, channel, closing>>

Fault ==
  /\ At("read") /\ CanFault
  /\ faults' = faults + 1
  /\ streak' = streak + 1
  /\ \/ /\ Half
        /\ pc' = "loop"
        /\ UNCHANGED <<ev, retries, channel>>
     \/ /\ ~Half /\ retries < MaxRetries
        /\ retries' = retries + 1
        /\ pc' = "retry"
        /\ UNCHANGED <<ev, channel>>
     \/ /\ ~Half /\ retries >= MaxRetries
        /\ Exit /\ UNCHANGED retries
  /\ UNCHANGED <<terminal, reading, closing>>

FaultInSequence ==
  /\ At("wait") /\ CanFault
  /\ faults' = faults + 1
  /\ ev' = NextItems(1) /\ used' = used + 1
  /\ pc' = "send"
  /\ retries' = 0 /\ streak' = 0
  /\ UNCHANGED <<terminal, taken, channel, closing>>

RetryTimer ==
  /\ At("retry")
  /\ pc' = "loop"
  /\ UNCHANGED <<terminal, reading, ev, retries, faults, streak, channel, closing>>

RetryClosed ==
  /\ At("retry") /\ done
  /\ Exit
  /\ UNCHANGED <<terminal, reading, retries, faults, streak, closing>>

\* late counts the events that entered the channel after Close closed done.
\* A send on a closed channel panics, also where the select could return.
Send ==
  /\ At("send")
  /\ queueClosed \/ Len(queue) < QueueCap
  /\ IF queueClosed
     THEN panicked' = "pump" /\ UNCHANGED <<queue, late, pc>>
     ELSE /\ queue' = Append(queue, ev)
          /\ late' = IF done THEN late + 1 ELSE late
          /\ pc' = "loop"
          /\ UNCHANGED panicked
  /\ UNCHANGED <<terminal, reading, ev, retries, faults, streak,
                 queueClosed, received, gone, closing>>

\* Mutant: the select has no case for r.done.
SendStays == FALSE

SendClosed ==
  /\ At("send") /\ done
  /\ Exit
  /\ UNCHANGED <<terminal, reading, retries, faults, streak, closing>>

Pump ==
  \/ LoopClosed \/ DecodeEvent \/ StartRead \/ ReadBytes \/ WaitFails
  \/ ReadEOF \/ ReadRecord \/ Cancelled \/ Fault \/ FaultInSequence
  \/ RetryTimer \/ RetryClosed \/ Send \/ SendClosed

-----------------------------------------------------------------------------
(***************************************************************************)
(* The backend of bypass mode, which knows nothing of r.done: a send on a  *)
(* closed channel, also one that was blocked before, is a panic.           *)
(***************************************************************************)
Inject ==
  /\ Running /\ platform = "bypass" /\ arrived > taken
  /\ ~queueClosed /\ Len(queue) < QueueCap
  /\ queue' = Append(queue, NextItems(1))
  /\ taken' = taken + 1 /\ used' = used + 1
  /\ UNCHANGED <<terminal, pump, queueClosed, panicked, received, gone, late, closing>>

InjectClosed ==
  /\ Running /\ platform = "bypass" /\ arrived > taken
  /\ queueClosed
  /\ panicked' = "backend"
  /\ UNCHANGED <<terminal, reading, pump, queue, queueClosed, received, gone, late, closing>>

-----------------------------------------------------------------------------
(***************************************************************************)
(* The program, which may stop receiving at any time, as input-check does  *)
(* before its deferred Close; and Close: it looks at r.done, then closes   *)
(* it, in bypass mode also EventChan, then wakes the reader.  Nothing      *)
(* keeps a second caller from doing so in between.                         *)
(***************************************************************************)
Receive ==
  /\ Running /\ ~gone /\ queue # <<>>
  /\ received' = Append(received, Head(queue))
  /\ queue' = Tail(queue)
  /\ UNCHANGED <<terminal, reading, pump, queueClosed, panicked, gone, late, closing>>

Leave ==
  /\ Running /\ ~gone
  /\ gone' = TRUE
  /\ UNCHANGED <<terminal, reading, pump, queue, queueClosed, panicked, received, late, closing>>

\* Mutant: Close does not look at r.done.
EnterBlindly(c) ==
  /\ Running /\ closer[c] \in {"idle", "closed"}
  /\ closer' = [closer EXCEPT ![c] = "closing"]
  /\ overlap' = (overlap \/ (~done /\ \E d \in Closers : closer[d] = "closing"))
  /\ UNCHANGED <<terminal, reading, pump, channel, done, stopped>>

\* overlap: two callers are between the look and the close.
Enter(c) ==
  /\ Running /\ closer[c] \in {"idle", "closed"}
  /\ closer' = [closer EXCEPT ![c] = IF done THEN "closed" ELSE "closing"]
  /\ overlap' = (overlap \/ (~done /\ \E d \in Closers : closer[d] = "closing"))
  /\ UNCHANGED <<terminal, reading, pump, channel, done, stopped>>

\* Mutant: Close closes EventChan in every mode.
CloseDoneShuts(c) ==
  /\ Running /\ closer[c] = "closing"
  /\ IF done THEN panicked' = "close" /\ UNCHANGED <<done, closer>>
     ELSE /\ done' = TRUE
          /\ closer' = [closer EXCEPT ![c] = "shutting"]
          /\ UNCHANGED panicked
  /\ UNCHANGED <<terminal, reading, pump, queue, queueClosed, received, gone, late,
                 stopped, overlap>>

CloseDone(c) ==
  /\ Running /\ closer[c] = "closing"
  /\ IF done THEN panicked' = "close" /\ UNCHANGED <<done, closer>>
     ELSE /\ done' = TRUE
          /\ closer' = [closer EXCEPT ![c] =
                           IF platform = "bypass" THEN "shutting" ELSE "waking"]
          /\ UNCHANGED panicked
  /\ UNCHANGED <<terminal, reading, pump, queue, queueClosed, received, gone, late,
                 stopped, overlap>>

CloseChan(c) ==
  /\ Running /\ closer[c] = "shutting"
  /\ queueClosed' = TRUE
  /\ panicked' = IF queueClosed THEN "close" ELSE panicked
  /\ closer' = [closer EXCEPT ![c] = "waking"]
  /\ UNCHANGED <<terminal, reading, pump, queue, received, gone, late,
                 done, stopped, overlap>>

\* Mutant: Close does not wake the reader.
platformCloseSilent(c) ==
  /\ Running /\ closer[c] = "waking"
  /\ closer' = [closer EXCEPT ![c] = "closed"]
  /\ UNCHANGED <<terminal, reading, pump, channel, done, stopped, overlap>>

platformClose(c) ==
  /\ Running /\ closer[c] = "waking"
  /\ stopped' = (stopped \/ platform # "ansi")
  /\ closer' = [closer EXCEPT ![c] = "closed"]
  /\ UNCHANGED <<terminal, reading, pump, channel, done, overlap>>

Crashed == ~Running /\ UNCHANGED vars

Next ==
  \/ Arrive \/ HangUp \/ GetEventChan \/ Pump \/ Receive \/ Leave
  \/ Inject \/ InjectClosed
  \/ \E c \in Closers :
       Enter(c) \/ CloseDone(c) \/ CloseChan(c) \/ platformClose(c)
  \/ Crashed

(***************************************************************************)
(* The goroutines run on; the program receives as long as it has not left; *)
(* the retry timer fires and the 100 ms wait ends.  Nobody has to call     *)
(* Close or to start the pump, the program may leave whenever it likes,    *)
(* the terminal need not send anything, errors need not happen.            *)
(***************************************************************************)
Fairness ==
  /\ WF_vars(LoopClosed)  /\ WF_vars(DecodeEvent)
  /\ WF_vars(StartRead)   /\ WF_vars(ReadBytes)
  /\ WF_vars(WaitFails)   /\ WF_vars(ReadEOF)
  /\ WF_vars(ReadRecord)  /\ WF_vars(Cancelled)
  /\ WF_vars(RetryTimer)  /\ WF_vars(Send \/ SendClosed)
  /\ WF_vars(Receive)
  /\ \A c \in Closers :
       WF_vars(CloseDone(c) \/ CloseChan(c) \/ platformClose(c))

Spec     == Init /\ [][Next]_vars
FairSpec == Spec /\ Fairness
-----------------------------------------------------------------------------
Items == 1..Len(input)

TypeOK ==
  /\ platform \in Platforms /\ input \in Inputs
  /\ arrived \in 0..Len(input) /\ taken \in 0..arrived /\ used \in 0..taken
  /\ hangup \in BOOLEAN
  /\ pc \in {"none", "loop", "wait", "read", "send", "retry", "exited"}
  /\ ev \in Seq(Items)
  /\ retries \in 0..MaxRetries /\ faults \in 0..MaxFaults
  /\ queue \in Seq(Seq(Items)) /\ Len(queue) <= QueueCap
  /\ received \in Seq(Seq(Items))
  /\ queueClosed \in BOOLEAN /\ done \in BOOLEAN /\ stopped \in BOOLEAN
  /\ closer \in [Closers -> {"idle", "closing", "shutting", "waking", "closed"}]
  /\ panicked \in {"no", "close", "pump", "backend"}
  /\ gone \in BOOLEAN /\ overlap \in BOOLEAN
  /\ late \in Nat /\ streak \in Nat

\* The events that went into the channel.
Sent == received \o queue

Visible(i) == input[i] # "other"

\* The items of the events in s are the visible ones up to n, each once and
\* in order, inside an event and from one event to the next.
Carries(s, n) ==
  /\ UNION {ToSet(s[k]) : k \in DOMAIN s} = {i \in 1..n : Visible(i)}
  /\ \A k \in DOMAIN s : \A i, j \in DOMAIN s[k] : i < j => s[k][i] < s[k][j]
  /\ \A j, k \in DOMAIN s : j < k => \A a \in ToSet(s[j]), b \in ToSet(s[k]) : a < b

\* Up to where what was decoded has been sent: all but the event the pump
\* holds and has not sent, or has given up when Close came.
SentUpto ==
  CASE pc = "send"   -> {used - Len(ev)}
    [] pc = "exited" -> {used - Len(ev), used}
    [] OTHER         -> {used}

\* Whatever the interleaving of pump, closers and program, the channel
\* carries the items in the order of the input, each once and none skipped:
\* what was sent is every visible item decoded so far, but for one event at
\* most (GetEventChan, ReadEventTimeout).
InOrder == \E n \in SentUpto : Carries(Sent, n)

\* When the input ends and nobody closes the reader, every item has been
\* sent before EventChan is closed, unless the read failed too often.
NothingLostAtEOF ==
  pc = "exited" /\ ~done /\ streak <= MaxRetries => hangup /\ Carries(Sent, arrived)

\* After Close a byte reader delivers at most the one event whose ReadEvent
\* was already past its look at r.done.
OneLateEvent == platform # "conpty" => late <= 1

\* The pump gives up after MaxRetries + 1 read errors in a row, not before,
\* and an event in between starts the count again (GetEventChan) - as long as
\* no character is cut: errors met with half a character in r.buf are not
\* counted, although they should be bounded too (reader.go line 75), so that the
\* bound is for an empty buffer.
RetriesBounded ==
  /\ Buffered = 0 => streak <= MaxRetries + 1
  /\ pc = "exited" /\ ~done /\ ~hangup => streak = MaxRetries + 1

\* The pump never sends on a closed EventChan and never closes it twice; Close
\* panics only where two calls overlap, so that one after the other any number
\* of calls is safe; and the one other panic is that of a backend of bypass
\* mode that puts an event into EventChan after Close (Close, GetEventChan).
PanicNeedsOverlap ==
  /\ panicked # "pump"
  /\ panicked = "close"   => overlap
  /\ panicked = "backend" => platform = "bypass" /\ done

\* "The channel is closed when the reader is closed" (reader.go line 80):
\* once Close has closed r.done, the pump returns and closes EventChan.
ChannelClosed == done /\ pc # "none" ~> queueClosed \/ ~Running

\* That much is so where Close can wake the read, on a terminal on Unix (stop
\* pipe) and a Windows console (cancel event), and in bypass mode: also when
\* EventChan is full and the program no longer receives, and with half a
\* character in r.buf.
CloseEndsPump ==
  done /\ (pc # "none" \/ platform = "bypass") /\ platform # "ansi"
    ~> queueClosed \/ ~Running

\* Whatever arrives is received, unless the reader is closed or gives up or
\* the program has left: a lone ESC does not hang, nothing stays in a buffer
\* but half a character that is all there is.  A plain Read cannot time out,
\* so an ESC may wait there for the next key.
Delivered ==
  \A i \in 1..Max({Len(s) : s \in Inputs}) :
    (/\ i <= arrived /\ Visible(i) /\ pc # "none" /\ platform # "ansi"
     /\ ~(i = arrived /\ input[i] = "half")) ~>
      \/ \E e \in ToSet(received) : i \in ToSet(e)
      \/ done \/ gone \/ ~Running
      \/ pc = "exited" /\ streak > MaxRetries

\* The items of the event that the pump holds, and those accounted for when
\* that event is yet to be sent.
Pending == IF platform = "conpty" THEN 1 ELSE Len(ev)
Upto    == IF pc = "send" THEN used - Pending ELSE used

Stream == INSTANCE EventStream WITH
            upto <- Upto, closed <- queueClosed, crashed <- ~Running

\* Pump, closers and backend together keep the promise of EventChan: nothing
\* is put out of order, or after the channel was closed, closing costs one
\* event at most, and whatever was put is received (GetEventChan).
KeepsStream == Stream!Spec
=============================================================================
