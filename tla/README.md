# Verification of vtinput

TLA+ models of vtinput, the Go library that turns what a terminal sends into
key, mouse, focus, paste and far2l events, with TLC runs on small instances and
TLAPS proofs for all of them. Line numbers refer to `src/`.

## The system

| Component | State | Operations | Correct when |
|---|---|---|---|
| Decoder: the ladder of `ReadEventTimeout` (reader.go 155-446) and the parsers it asks (parser.go) | `r.buf`, `far2lExtensionsEnabled` | one iteration: emit an event, skip a sequence, wait for more | the events depend on the bytes and not on how reads cut them; no slice goes past its end; every iteration makes progress |
| Double-wrap workaround (win_double_unwrap.go, reader.go 167-193) | `winDoubleBuf`, `winWrapping` | detect, peel a record, put the recovered bytes back, give up | a wrapped mouse report decodes like a bare one and leaves nothing behind; typed keys are not taken for one |
| Blocking reader: `ReadEvent` | the above and the input | iterate, read, 100 ms wait, end of input | bytes do not stay in the buffer; the end of the input is reported |
| Event pump: `GetEventChan`, `EventChan`, `Close` (reader.go 56-123) | `done`, `EventChan`, the retry count, stop pipe or cancel event | read and send in a goroutine; close from any goroutine | events in order, none lost or repeated; retries bounded; `Close` ends the pump; nobody sends on a closed channel or closes it twice |
| Unix reads (reader_unix.go) | descriptors, stop pipe, deadline | poll, read, interrupt | a timeout is a timeout, the deadline is kept, a hang-up is noticed |
| Windows reads (reader_windows.go) | console handle, cancel event, saved mode | wait, read a record, cancel | one event per record; `Close` wakes the wait |
| Terminal modes (terminal.go, console mode in reader_windows.go) | mode of the line, modes and kitty flags of the terminal, `InputMode` | enable, restore; open and close a reader | line and terminal are left as they were found, also after a failure and when programs nest; no protocol is enabled that the console reader cannot use |
| Key data (parser.go, reader.go) | none | decode fields | a key means the same in every protocol |
| far2l stack (far2l_stack.go) | a byte stack | push and pop | round trips, an underflow takes nothing |
| input-check (cmd/input-check) | pressed keys, modifiers | handle an event, expire keys | a key is shown while it is held and no longer, the locks are shown as they are |
| Metrics, key codes, log hook | counters | - | - |

How they interact: the program calls `GetEventChan`, which starts one goroutine.
That goroutine calls `ReadEvent`, which decodes what is in `r.buf` and otherwise
calls `readBytes` (a byte stream) or is answered by `readConPTYEventTimeout` (a
Windows console). Events go to the program through `EventChan`, a channel of
1024. `Close`, from any goroutine, closes `r.done`, at which the pump looks at
the top of each iteration and in its two selects, and wakes the read with a byte
in the stop pipe or with an event handle. In bypass mode there is no goroutine:
a GUI backend sends to `EventChan` itself, and `Close` closes it. Before all
this, and independently of it, the program calls `EnableProtocols`, which
changes the line and writes to the terminal, and `NewReader`, which changes the
line again on Windows; both are undone at the end. input-check is such a
program.

What is hard: sequences are cut anywhere by the reads; several encodings share
prefixes, so a stage may decide too early; an ESC is a key or a prefix depending
on time; decoding state survives the call that set it; `Close` races with the
read, with the send and with itself; the platforms fail differently. The
`hazards` list of PROJECT.json has each at its line.

## The modules

| Module | Models |
|---|---|
| `VTBytes` | bytes, `scanCSI`, `scanAPC`, decimal fields, `utf8.FullRune` and `DecodeRune` |
| `VTDecoder` | one iteration of the loop, `Decide(r)`, one operator per stage of the ladder, and the state it leaves, `After(r)` |
| `ByteReader` | `ReadEvent` in a loop on a terminal: state machine over `VTDecoder` |
| `EventPump` | pump, channel, program, closers and backend, on three platforms and in bypass mode |
| `EventStream` | the abstract promise of `EventChan`, which `EventPump` implements |
| `TimedRead` | `ReadEventTimeout` and `readBytes` on a Unix file: clock, deadline, poll, signals, hang-up, `Close` |
| `TerminalModes` | `EnableProtocols`, its restore function, the console mode of `NewReader` and `Close`, against a line and a terminal |
| `Far2lStack` | push and pop, as operators that return value and rest |
| `KeyData` | the fields of a key event, one operator per parser, over `Far2lStack` |
| `InputCheck` | keyboard, terminal and input-check, over `KeyData` |
| `MC*` | the streams, inputs, keys and terminals of the runs |
| `*Proofs` | theorems: `VTDecoderProofs`, `ByteReaderProofs`, `ChunkProofs`, `EventPumpProofs`, `TimedReadProofs`, `TerminalModesProofs`, `Far2lStackProofs`, `InputCheckProofs` |

`VTDecoder` is a function and no state machine, because an iteration is: it has
no choice and no concurrency. `r.buf`, `r.dbl`, `r.wrap`, `r.far2l` are `r.buf`,
`r.winDoubleBuf`, `r.winWrapping`, `r.far2lExtensionsEnabled`. A stage is
`Pass` where the code falls through to the next `if`, `Wait` where it says
`goto waitForMore`, `Skip` where it says `continue`, and `Emit` where it
returns an event. Lengths are counted from 1, so the code's `terminatorIdx + 1`
is `end`. An event keeps its kind (`InputSource` or `Type`), whether the ladder
added the Alt of a prefix, and the bytes it was parsed from; the other fields
are functions of those bytes. Of each parser, the model has what decides
whether and how far it consumes, which is all that the loop sees. Decimal
numbers are exact where the code has a 64-bit int: no run has a longer one.

`ByteReader` splits the loop at its reads. `Iterate` is an iteration that finds
something to do, `Read` a read that returns any non-empty prefix of what was
sent (`n <= 1024` is no limit for the streams of the runs), `EscTimeout` the end
of the 100 ms wait and `ReadEOF` the error of the idle read. An iteration
without a read cannot be interrupted by anything that touches the same state.
Its history variables restart after a timeout, or after one of three decisions
the code makes knowingly too early, as soon as the decoder is back in a state
without leftovers: `ESC [ O` (focus lost, although VTE function keys begin so),
`ESC ESC` (Escape, although it may prefix a sequence), and `=` (far2l adds a
space, which is only dropped if it is there already). `Early` names them. A
fourth needs no timeout either: a read that comes when 32 bytes or more of an
unfinished win32 record are in the buffer (reader.go 186-192) finds that what
was unwrapped before has been dropped, which it would not be with the whole
record there; `Read` ends a clean history then. `Run` is the loop without its
reads, and `Decode` what it makes of bytes that come at once.

`EventPump` abstracts bytes to items: a `key` decodes at once, an `esc` waits
for the character after it and becomes a key of its own if none comes, `half`
and `rest` are the two bytes of one character, an `other` is a console record of
an unhandled type. What is in `r.buf` decides what a read error does: with an ESC
(`Partial`) it makes the ESC a key, with half a character (`Half`) it is dropped
and the loop goes round (reader.go 456-461), with nothing it goes to the pump. `pc` is where the pump's goroutine is;
`Close` is three steps per caller (look at `r.done`, close it, wake the reader),
since nothing makes them one. `tty` is a Unix file (poll and stop pipe),
`conpty` a Windows console (wait and cancel event), `ansi` a plain blocking
`Read`. A `tty` reports a hang-up as the end of the input, as a terminal does;
what a pipe does is in `TimedRead`. Transient errors occur on Windows only (`isRetryableReadError`).
In `bypass` mode the pump never starts; `Inject` is the backend, which sends
whole events and does not know of `done`, so that it may send on a channel that
`Close` has closed (`InjectClosed`, a panic). `Send`, `Exit`, `CloseDone` and
`CloseChan` panic as well where they meet a closed channel; `panicked` says who
did, and after a panic nothing runs. `Leave` is the program that stops receiving
for good, before or after `Close`, as input-check does (main.go 104).

`EventStream` is what a program may rely on that only sees the channel: each
event stands for the items of one character, or the ESC and those, after those of
the event before it; nothing is put after the close; what was put is received; closing
may cost the event in hand. Its `upto` is `Upto` in `EventPump`: the items
decoded, but for those of an event that is yet to be sent.

`TimedRead` has the same items but `other`, and time. It counts down, in ticks of half a
millisecond in the runs: `left` is what `time.Until(deadline)` gives, with -1 for
every negative value, `expires` what remains of the poll. `Tick` may come
between any two steps of a call, so each look at the clock sees a later time,
and a poll that has expired may be noticed late. One iteration is `Top` (r.done
and the deadline), then `Decode` or `StartPoll`, then what the poll reports:
`PollStop` before everything else, `PollRead`, `PollEOF` (a hung-up terminal can
be read and gives no bytes), `PollHangUp` (an empty pipe without a writer
reports POLLHUP alone), `PollExpires`, `Signal` (EINTR). The byte in the stop
pipe is never read, so `stopped` stays. `Nothing` and `NoMore` are what the two
callers of `readBytes` do with `0, nil` and `io.EOF`: `NoMore` returns the error
only if nothing is in the buffer.

`TerminalModes` keeps the line (a set of flags, changed at once) apart from the
terminal (a set of modes and a stack of kitty flags, changed by the sequences it
has yet to read, `wire`). `MakeRaw`, `Send` and their failures are the steps of
one call of `EnableProtocols`, since a write may fail when some of the sequences
are out; `Restore` and `RestoreLine` those of the function it returns. Calls of
different programs do not overlap (`Busy`), and what saved the line's mode is
closed in the order of a stack, as `defer` in nested programs does; a reader on
Unix saves nothing and may be closed at any time. `NewReaderUnset` is the console
reader whose SetConsoleMode fails (reader_windows.go 62): the line keeps its
mode, so that neither `StaysRaw` nor `ConsoleGetsKeys` can be asked for it, but
`Close` must still put the right mode back. `Crash` kills all programs:
the next one takes what it finds for the normal state. `seqEnableKeyboard` to
`seqDisableMouse` are the constants of terminal.go, by name and in their order;
`enableSeq` and `disableSeq` put them together as the code does. `Stages` is the
terminal after each of the sequences it reads, `Settle` after all of them.

`KeyData` takes a sequence with its numbers read; `VTDecoder` has which
sequences are accepted, and `CSIEvent` that the legacy parser is asked first.
Sets of modifiers are sets of names, numbers (`Bit`) where a protocol sends the
number. `InputCheck` is the program behind it: `Press`, `Repeat`, `Release` and
the focus are the keyboard's, `queue` has the reports on their way, `HandleKey`
is `handleEvent` with everything it changes, `Tick` the 50 ms ticker with the
two rules of expiry (ages end at 4, the first tick past 150 ms; a tick that
comes late only expires a key sooner). What a terminal reports is assumed as the
protocols specify it: modifiers and locks do not repeat, the report of a lock
key's press has the state before it, that of its release may be stale
(main.go 136), keys let go while another window has the focus are not reported.
`HandleNil` is what the program does when the channel is closed: nil is used
like an event, which panics. The history variables `lost` and `told` are what
the properties except: keys let go without a report, and locks that no report
told of.

## The runs

| Run | Instance | Shows |
|---|---|---|
| `decoder_chunks` | every ordered pair of 28 sequences, three streams with a wrapped report (its records after the first without the fields that have their default value), a wrapped sequence with a record longer than 32 bytes, or a typed record before a letter, and every string of up to 4 bytes over `ESC [ O A`, 195 and 226; every cut, every timeout | `ChunkIndependence`, also for malformed input, `UnwrapTransparent`, `LoopShrinks` (no iteration but one that reads leaves as many bytes as it found), `SlicesInside` (no slice of `r.buf` is out of range), `TypeOK`, `Drains` (liveness) |
| `event_pump` | three platforms and bypass mode, up to 3 items, half characters among them, 2 closers, a program that may stop receiving, capacity 1, 1 retry, 2 errors | order, completeness, lateness, retries (`RetriesBounded`: with an empty buffer), panics (`PanicNeedsOverlap`), shutdown also with a full channel that nobody reads (`CloseEndsPump`), delivery, and that it implements `EventStream` (`KeepsStream`, its liveness too) |
| `timed_read` | terminal and pipe, up to 2 items, timeouts of 0, 0.5, 1.5 and 3 ms, a wait of 2 ms, 1 signal | what ends a call and what makes an ESC a key; `Close` and the end of a terminal are noticed (liveness) |
| `term_modes` | Unix and Windows, all values of `InputMode`, two sets of protocols, two lines, a terminal with modes of its own, up to 4 sessions and readers | line and terminal are put back (`LineRestored`, `TerminalRestored`), stay raw in between (`StaysRaw`), reports meet a raw line (`ReportsMeetRaw`), a console reader gets keys (`ConsoleGetsKeys`) |
| `input_check` | four protocols, 7 keys, 2 held, 3 strokes, 2 reports on their way; for `ProtocolsAgree` a keyboard of some 75 keys under every chord of two modifiers and every state of the locks | what is shown is what is held (`StuckNeedsLostRelease`, `ShownWhileHeld`), locks are predicted (`LocksPredicted`), keys fade (`Fades`, liveness), each protocol tells key, direction and modifiers, win32 and far2l also which Ctrl and Alt (`ProtocolsAgree`) |
| `timed_deadline` | a terminal, timeout 1.5 ms | violated: the call outlives its deadline |
| `pipe_hangup` | a pipe without a writer | violated: the loop spins |
| `eof_partial_rune` | the input ends inside a character | violated: the end is never reported |
| `wrap_signature` | a typed U+010F in win32 mode | violated: it starts the unwrapping |
| `close_ansi` | Close during a plain blocking read | violated: EventChan stays open |
| `kitty_locks` | an arrow under kitty with CapsLock on | violated: the event does not have the lock |
| `winapi_protocols` | a console, each `InputMode`, one session and one reader | violated: under `winapi` the protocols are on beside the console reader |

Why the bounds are enough: a sequence can only interfere with its neighbour (the
longest look-ahead is one byte past a sequence, the buffer carries no more than
one unfinished sequence, and the three flags of state are each set and cleared
by a sequence in the list), so pairs cover the interference of sequences; the
raw strings cover what no sequence in the list is. In the pump, capacity 1 makes
the channel full with two events, one retry and two errors reach the end of the
retries and a success before it, and two closers are the least that overlap.
Three items allow an event before, in and after an ESC pair, and a cut
character alone, after an event and after an ESC. `QueueCap` and
`MaxRetries` are 1024 and 80 in the code; the theorems are for every value.
`MaxFaults` bounds the errors in a behaviour and is no constant of the code.
In `TimedRead`, two items are an ESC and its rest, or an event before one. The
wait for the rest is 2 ms instead of 100: the code only compares it with what is
left and rounds it to milliseconds, and the timeouts lie below a millisecond,
between one and the wait, and above the wait. `MaxSignals` bounds the signals in
a behaviour. In `TerminalModes`, `MaxOpened` counts sessions and readers: two
around and two inside are the least that nest on both sides, and one of them may
be a later program after a crash; `MaxBehind = 0` means that a write waits until
the terminal has read the sequences of the one before, but not its own. One of
the sets of protocols has the stack and modes that report, the other a single
mode, so that sessions differ; the line of 0 is the one that `Close` takes for
none. In `InputCheck`, two keys held are a chord, and each pair that shares a
code is among the seven; three strokes are a press, another, and a repeat, or a
loss of focus between two; two reports on their way are a press and a release
that the program sees after both.

Fairness. `ByteReader`: the goroutine runs on, what is sent can be read, and
the 100 ms end: weak fairness of `Next` over the reader's own state (`FairSpec`).
`decoder_chunks` uses `FairSpecByHand`, the same with the enabling condition
spelled out, which is much cheaper for TLC; that the two conditions agree was
checked on a small instance. Which of a read and the end of the wait comes is left open, and
the terminal need not hang up. `EventPump`: each step of the pump, `Receive`, and the steps of a `Close` that
has begun. `Receive` is fair only as long as the program has not left: `Leave`
may come at any time and disables it for good, so `CloseEndsPump` holds with
nobody receiving, and `Delivered` has `gone` among its exceptions. The select between `Send` and
`SendClosed` is one unit of fairness: Go does not promise which ready case it
takes. `TimedRead`: time passes, the calling goroutine runs on, a poll that has
something to report returns (its outcomes are one unit of fairness), a `Close`
that has begun goes on to the stop pipe. `InputCheck`: the program handles what
has been reported, and its ticker ticks; nobody has to type or let go of a key.
`Fades` has no exception for a program that is busy, since strokes are bounded.
In no module does anybody have to call
`Close`, and no error or signal has to happen. Deadlock is checked, and
`Done` and `Crashed` stand for a program that has finished or panicked, `Ended`
for one that stops calling after `io.EOF`; it is not checked for
`TerminalModes`, where the programs are over when all is closed, nor for
`InputCheck`, which exits on Escape and Ctrl+C.

## The proofs

`tlapm` checks every proof; the only assumptions are those on the constants,
which TLC evaluates on the instances of the runs: `StreamsAssumption` (streams
are sequences of bytes), `PumpAssumption`, `TimedAssumption` (a millisecond is
one tick or more, the wait for the rest a whole number of them),
`ModesAssumption`, `CheckAssumption` and `KeysAssumption` (the keys are among
those of `Keyboard`): what kind of value each constant has.

`VTDecoderProofs`: `DecideSound` says, for every buffer, that an iteration
consumes at least one byte and no more than there are, so that no `r.buf[n:]`
panics. It goes stage by stage: each stage is `Sound` for the slice it looks
at, `First` exists because the natural numbers are well-founded, and
`Otherwise` and `WithPrefix` keep soundness up to the whole buffer.

`ByteReaderProofs`: `AfterShrinks` says that an iteration that does not wait
leaves fewer bytes in `r.buf` and `winDoubleBuf` together. The weight is needed
because the unwrapping puts bytes back: a record is three bytes or more and
gives at most one. From it `TypeCorrect` (`Spec => []TypeOK`, inductive as it
stands), `LoopAlwaysShrinks` (`Spec => []LoopShrinks`, over states and not over
steps, so that an iteration that changes nothing does not slip through as a
stutter) and `SlicesStayInside` (`Spec => []SlicesInside`), which is
`DecideSound` for the buffers that are reached.

`ChunkProofs`: `CutsDoNotMatter` is `Spec => []ChunkIndependence`: for every set
of streams, every cut of them into reads and every choice of timeouts. The
argument has three parts.

1. A decision does not change when bytes come behind those it was made on. The
   bytes `d` are compared with bytes `e` that begin with `d`, first in what is
   counted and scanned (`BeginsCount`, `BeginsField`, `BeginsCSI`, `BeginsAPC`,
   `BeginsRune`, `BeginsRecord`), then stage by stage, where a stage may change
   only if it waited. That a stage further down sees the end of its sequence is
   `WholeUnlessWaiting`: with an unfinished `ESC [` some stage waits. The
   exceptions are where `Early` is needed: `FocusInTime`, `AltSame` (through
   `TwoEscapes`) and `PlainDecides`. The result is `DecideSame`, and `AfterSame`
   for the state an iteration leaves.
2. `Run` does what its recursive definition says (`RunDef`), by induction over a
   set of numbers (`EveryNumber`, from the well-foundedness of the natural
   numbers), and stays where it has to read (`ReachesEnd`). `AfterShrinks` bounds
   the number of iterations.
3. `ChunkInv` is inductive: the loop that got, at once, all that was read and
   any further bytes `c` of what is still to be read comes to where the program
   is now, with `c` behind it. The property alone, which is the case of no `c`,
   is not inductive, since it says nothing while iterations remain to be done,
   and the next read may return any `c`. TLC checked `ChunkInv` on a smaller set
   of streams before it was proved.

The proof is where the fourth early decision was found: `Runaway` is a decision
that more bytes may change, and with a record longer than 32 bytes in the
streams TLC refuted the property as it had been stated.

`EventPumpProofs`: `PumpInv` is inductive and implies `TypeOK`, `OneLateEvent` and
`RetriesBounded`, for any number of closers, any capacity, any bound on retries
and any input. It adds that a waiting pump has an undecoded item (`Waiting`), that
only a console has records that are no events, and no buffer (`Records`), that no
pump runs in bypass mode (`Idle`), that the idle read starts with an empty buffer
or half a character (`ReadsEmpty`), that the stop signal follows `done`
(`StopDone`), that a closer past its look at `r.done` has been overlapped if
`done` is set, and that two of them overlap (`Closing`), that after a late event
a byte reader is back at its look at `r.done` (`Lateness`), and that with an
empty buffer the retry count is the length of the current run of errors
(`Retrying`; with half a character it is not, as errors are dropped uncounted).
Without `StopDone`, an exit by the stop signal could not be told from one without
`Close`. `PumpInv` was checked by TLC on the instance of `event_pump` before it
was proved.

The second part of `EventPumpProofs` is about `EventStream`. `StreamRefined` says that every behaviour of `EventPump` is
one of `EventStream`, but for liveness, for all values of the constants. The
mapping needs `PumpInv` and two more parts. `Sending`: the event in hand consists
of the last one to three items decoded, so that a `Send` is a `Put`; that a nil
stands for exactly one item is `Records`. `Open`: the channel is closed at most
once, by the pump or, in bypass mode, by the one closer that closed `done`, and
nobody sends after it but a backend. It is also what `OverlapNeeded` rests on: no
panic of the pump, none of `Close` without an overlap. The steps that decode move items from `used` into the
hand, which leaves `Upto` alone; `Exit` is a `Shut` that loses the hand.
`ItemsInOrder` and `NothingLost` are about what is sent (`Sent`, received or in
the channel). `InOrder` says through `Carries(s, n)` that the events `s` have the
items up to `n` that are visible, each once, in ascending order, which a `Put`
extends (`CarriesMore`) and no other step touches. For the end
of the input, `ReadsEmpty`: the read that reports it to the pump found no byte
undecoded, since with half a character it would not have.

`TimedReadProofs`: `TimedInv` adds two parts to the invariants. `WaitMeasured`
relates the clocks: while poll waits for the rest of a sequence, what has passed
and what remains make up the 100 ms, unless the deadline cut the wait, and then
less than a millisecond more than what remains is left. `PollTimeoutShort` is the
rounding down to milliseconds behind that millisecond, for every length of a
tick. `LateCallEnds` says that a call that began after `Close` never gets past
the top of the loop. From them `NilOnlyAtDeadline`, `EscapeOnlyAfterWait`,
`ClosedForGood` and `TypeCorrect`.

`TerminalModesProofs`: `ModesInv` has eight parts. For the line: of what is open,
the first that will restore it found `line0`, and all above it found a raw line
(`FirstFoundLine0`, `RawWhileHeld`); neither is kept without the other, since
closing the first one hands its role to the next. `NoVTOnTop` is the same chain
for the flag that takes the keys from a console reader. For the terminal:
`TerminalAccounted` says what it will be like once it has read what is on its
way (`Settled`), one entry of flags more for each active session with kitty, no
mode but those found and those an active session asked for. That needs what
`Settle` makes of sequences put one after the other (`SettleConcat`), and this
an induction along a recursive function (`StagesDef`, `EveryNumber`).
`QuietUntilSent`, `SendersAllowed` and `CallsInOrder` hold the two together. From
it six theorems, one per invariant of `term_modes`. A reader whose SetConsoleMode
failed is in the chains like any other, but does not hold the line raw
(`HoldsRaw`) and is not one that gets keys (`Keyed`).

`Far2lStackProofs`: `PopPushU8`, `PopPushU16`, `PopPushU32` and `PopPushString`
say that popping gives back what was pushed and the stack before it, for every
stack and every value of the width; `TopOfConcat` is what they share, and
`Bytes32Sound` that four bytes make up a number (two words of two bytes each).
`UnderflowLeavesStack`: a stack that is too short stays as it is.

`InputCheckProofs` has the five invariants of `input_check`, for any set of keys
of the keyboard, any bounds, and each protocol. Two things carry it.

1. What a report says of its key. `KeysKnown` sorts the keyboard into nine kinds
   of keys, each with what is known of its fields; one lemma per protocol and
   kind then follows a key through its report and the parser that takes it, from
   which `TellsKey`: in win32, far2l and kitty, the event has the key's code and
   direction, and is filed under the code the key is filed under, whatever else
   is held. For far2l that goes through the stack (`PopPushU16`, `PopPushU32`),
   for win32 and far2l through the sum of the flags' bits and back (`Bits`).
   `TrackedIsOwn`: no two keys are filed under one code, but the two Ctrl and
   the two Alt.
2. `IInv`, which says what the program will show once the reports on their way
   have been handled. `StuckNeedsLostRelease` is part of it and is not inductive:
   a press may be handled late, when its key is up again. `ReleaseFollows` has
   the release behind it in the queue, `OnlyReported` that without release
   reports every entry is a legacy one, which expires. For `ShownWhileHeld`,
   `PressFollows`: a key that is held is in the table or its press is on the
   way, behind any older release; two keys that share a code cannot be told
   apart so, and are shown by their modifier: `ModifiersFollow` is about the
   modifiers in the last report of the queue. It needs `FocusHolds`, since a
   loss of focus clears them. For `LocksPredicted`, `LocksFollow` splits the
   reports into those that give a lock a value, those that leave it (another
   lock key's, and the release of its own), and those that do not speak of it:
   the last that gives a value gives the right one, and if there is none the
   program has the right one already. `QueueTyping` says of an entry what its
   report says of its key, and no more, so that the steps that add entries use
   (1) and those that take them need not look at parsers. TLC checked `IInv` on
   the instance of `input_check`, over its million states.

`ProtocolsTellTheSame` is `ProtocolsAgree`, which depends on no state but the
protocol. It claims of win32 and far2l the very Ctrl and Alt keys that are held,
of kitty and legacy sequences that one of the two is told, since that is all
their reports have; the library's own README promises more (see the
observations). Locks are claimed except of reports that the legacy parser
takes (`kitty_locks`), the character except with Ctrl or Alt held. `ReportFaithful` puts together `WindowsFaithful`, `KittyFaithful` and
`LegacyFaithful`, which are for any number of held keys and not only for chords.

Only model-checked: `UnwrapTransparent` (it compares the results of the loop on
two given streams, which is a computation and no induction), and the liveness
properties (`Drains`, `CloseEndsPump`, `Delivered`,
`CloseEndsCall`, `TerminalEndReported`, `Fades`, the liveness of `EventStream`),
since liveness under fairness is out of the prover's reach. What a recursive definition gives for every input can be stated as
a set of numbers and proved, as above, as long as it is a function and not a
RECURSIVE operator.

## Observations

What the code does that is no finding of a run, or that a property excepts:

- A win32 record of more than 32 bytes, in a wrapped sequence and cut by a read
  after its 32nd byte, makes the reader forget what was unwrapped before it
  (reader.go 186); uncut it does not. No terminal pads its records so far.
- A console whose mode was 0 is not put back by `Close` (reader_windows.go 212).
- An inner session that ends turns off DEC modes that an outer one has asked
  for, as modes have no stack; kitty flags have one and come back.
- A restore function that is called before the `Close` of a console reader
  opened after it, or twice, leaves the line raw or pops a flag too many:
  `TerminalModes` assumes the order of `defer`.
- Under kitty, Ctrl and Alt of other keys are reported as the left ones
  (parser.go 671-676), whichever is held, although README.md 29 of the library says
  "Accurately reports `LeftCtrl` vs `RightCtrl`". The protocol has one bit for the
  two; only the right key's own report names it.
- An error of the idle read with half a character in `r.buf` is dropped (reader.go
  460). `eof_partial_rune` shows it for the end of the input; a transient error
  is, in addition, neither counted nor delayed by the pump, so that the limit of
  reader.go 75 ("keep a genuinely disconnected console bounded") does not hold
  there. `RetriesBounded` is stated for an empty buffer.
- A console record of an unhandled type (a menu record) makes `ReadEvent` return
  neither event nor error (reader_windows.go 202), and the pump sends that nil,
  which input-check uses like an event (main.go 101-104). `InOrder` and
  `EventStream` have it as an event without items.
- `restore` puts the line back right after it has written the deactivation
  sequences (terminal.go 114): what a slow terminal still sends meets a line that
  echoes. `ReportsMeetRaw` ends with the first session.
- Under kitty a letter under CapsLock and Shift is upper case; keypad digits have no
  character; keys without an entry (F13 and on, Pause, Print) have no code; a
  loss of focus clears the locks that input-check shows until the next report.
- An SS3 arrow without a modifier counts as Ctrl with the arrow, and a lone ESC
  is not marked as legacy.
- input-check exits on left Ctrl with C only (main.go 300), files Enter and
  keypad Enter under one code, and panics when its input ends (main.go 101).

## What is not modelled

Mouse fields, `RepeatCount` and `UnshiftedChar` of keys, the fields of console
records: functions of one report, without state. Reads from something that is no
file, errors of poll and read other than EINTR on Unix, failing console calls other
than the reader's SetConsoleMode (GetConsoleMode, CreateEvent, the restores), a
stop pipe that could not be made. `PopU64` and `PushU64`, which nothing calls. Flags,
log and screen of input-check; metrics, logging (no control depends on them).

## Plan

1. Done: `VTBytes`, `VTDecoder`, `ByteReader`, `EventPump`, their runs and the
   first theorems.
2. Done: `TimedRead`, model-checked.
3. Done: `EventStream`, its refinement checked and proved; bypass mode.
4. Done: `TerminalModes`, model-checked.
5. Done: `Far2lStack` with its proofs, and `KeyData`.
6. Done: `InputCheck`, model-checked.
7. Done: the safety invariants of `TimedRead`, `TerminalModes` and `EventPump`,
   and `ChunkIndependence`, proved.
8. Done: the safety invariants of `InputCheck`, proved.
