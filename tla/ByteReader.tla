----------------------------- MODULE ByteReader -----------------------------
(***************************************************************************)
(* ReadEvent called in a loop on a Unix terminal: what the decoder returns *)
(* for the bytes the terminal sends, however the reads cut them and        *)
(* whenever the 100 ms wait for the rest of a sequence expires.            *)
(*                                                                         *)
(* wire, r and ended are the program; got, evs, origin and clean record    *)
(* the history since the last fresh start of the decoder: the state it     *)
(* was in, what it has read and returned since, and whether all of it was  *)
(* decoded without a timeout and without an early decision.                *)
(***************************************************************************)
EXTENDS VTDecoder

CONSTANT Streams    \* what the terminal may send before it closes

ASSUME StreamsAssumption == Streams \subseteq Seq(Byte)

VARIABLES
  wire,     \* sent and not read yet
  hangup,   \* the terminal has closed its end
  r,        \* the decoding state of the Reader
  ended,    \* ReadEvent has returned io.EOF
  got, evs, origin, clean

program == <<wire, hangup, r, ended>>
vars    == <<wire, hangup, r, ended, got, evs, origin, clean>>

Init ==
  /\ wire \in Streams
  /\ hangup = FALSE
  /\ r = Start
  /\ ended = FALSE
  /\ got = <<>> /\ evs = <<>>
  /\ origin = Start
  /\ clean = TRUE

(***************************************************************************)
(* Three decisions are made although the next byte could change them: the  *)
(* focus report ESC [ O may be the start of a VTE function key, the double *)
(* ESC may be an Alt prefix, and '=' may be far2l's "= ".                  *)
(***************************************************************************)
Early(o, next) ==
  /\ o.act = "emit"
  /\ \/ o.event.kind = "focus"  /\ o.event.text[3] = CapO /\ next \in BrokenSS3
     \/ o.event.kind = "escape" /\ next \in {LBR, CapO, LT, UND}
     \/ o.event.kind = "char"   /\ o.event.text = <<EQ>> /\ o.n = 1 /\ next = SPACE

TooEarly == /\ After(r).buf = <<>>
            /\ wire # <<>>
            /\ Early(Decide(r), wire[1])

\* Nothing is left of what came before.
Fresh(s) == s.buf = <<>> /\ s.dbl = <<>> /\ ~s.wrap

\* The history after a step to state s that returned the events new.
Record(s, new, ok) ==
  IF Fresh(s) /\ ~ok
  THEN /\ got' = <<>> /\ evs' = <<>>
       /\ origin' = s
       /\ clean' = TRUE
  ELSE /\ evs' = evs \o new
       /\ clean' = ok
       /\ UNCHANGED <<got, origin>>

\* An iteration of the loop that finds something to do in the buffer.
Iterate ==
  /\ ~ended /\ ~AtRest(r)
  /\ r' = After(r)
  /\ Record(r', Returned(r), clean /\ ~TooEarly)
  /\ UNCHANGED <<wire, hangup, ended>>

\* A read returns some of what was sent.  One that finds 32 bytes or more of
\* an unfinished win32 record comes after a fourth decision that is early:
\* what was unwrapped so far has been dropped.
Read ==
  /\ ~ended /\ AtRest(r)
  /\ \E n \in 1..Len(wire) :
       /\ r' = Received(r, SubSeq(wire, 1, n))
       /\ wire' = Drop(wire, n)
       /\ got' = got \o SubSeq(wire, 1, n)
  /\ clean' = (clean /\ ~Runaway(r))
  /\ UNCHANGED <<hangup, ended, evs, origin>>

\* The wait for the rest of a sequence ends without a byte: the 100 ms are
\* over, or the read failed.  The ESC becomes a key of its own.
EscTimeout ==
  /\ ~ended /\ Decide(r).act = "wait"
  /\ r' = TimedOut(r)
  /\ Record(r', <<EscapeKey>>, FALSE)
  /\ UNCHANGED <<wire, hangup, ended>>

HangUp ==
  /\ ~hangup
  /\ hangup' = TRUE
  /\ UNCHANGED <<wire, r, ended, got, evs, origin, clean>>

\* The read of an idle iteration reports the end of the input.  With bytes
\* still in the buffer the error is dropped and the loop goes on.
ReadEOF ==
  /\ ~ended /\ Decide(r).act = "idle"
  /\ hangup /\ wire = <<>>
  /\ ended' = (r.buf = <<>>)
  /\ UNCHANGED <<wire, hangup, r, got, evs, origin, clean>>

Done == ended /\ UNCHANGED vars

Next == Iterate \/ Read \/ EscTimeout \/ HangUp \/ ReadEOF \/ Done

(***************************************************************************)
(* The loop runs on, a read of a readable terminal returns, the wait of    *)
(* 100 ms ends.  Whether a read or the end of the wait comes first is left *)
(* open.  The terminal need not close.                                     *)
(***************************************************************************)
Spec     == Init /\ [][Next]_vars
FairSpec == Spec /\ WF_<<r, ended>>(Next)

(***************************************************************************)
(* The same for large instances: ENABLED is written out as CanGoOn, and    *)
(* Next is left out of the step, for TLC would evaluate an iteration of    *)
(* the decoder for each.                                                   *)
(***************************************************************************)
CanGoOn ==
  /\ ~ ended
  /\ IF AtRest(r)
     THEN wire # <<>> \/ Decide(r).act = "wait" \/ (hangup /\ r.buf = <<>>)
     ELSE After(r) # r

FairSpecByHand == Spec /\ ([]<>~CanGoOn \/ []<><<TRUE>>_<<r, ended>>)

-----------------------------------------------------------------------------
\* The decoding state and every value of the history have their types.
TypeOK ==
  /\ wire \in Seq(Byte) /\ got \in Seq(Byte)
  /\ r \in [buf : Seq(Byte), dbl : Seq(Byte), wrap : BOOLEAN, far2l : BOOLEAN]
  /\ origin \in [buf : Seq(Byte), dbl : Seq(Byte), wrap : BOOLEAN, far2l : BOOLEAN]
  /\ hangup \in BOOLEAN /\ ended \in BOOLEAN /\ clean \in BOOLEAN

Weight(s) == Len(s.buf) + Len(s.dbl)

\* What the loop has come to one iteration after p, unless it has to read.
Onward(p) ==
  IF AtRest(p.r) THEN p
  ELSE [r |-> After(p.r), evs |-> p.evs \o Returned(p.r)]

\* The state after each iteration from state s on, until one has to read, and
\* the events returned until then.
Run(s) ==
  LET run[n \in 0..Weight(s)] ==
        IF n = 0 THEN [r |-> s, evs |-> <<>>] ELSE Onward(run[n - 1])
  IN  run

\* What the decoder makes of bytes that one read delivers to state s.
Decode(s, bytes) ==
  LET t == Received(s, bytes) IN Run(t)[Weight(t)]

\* However the reads cut the bytes of the terminal, inside an escape
\* sequence, a character or a mouse report, the decoder returns the events
\* it returns for the same bytes in one read and keeps the same state,
\* unless a timeout or an early decision came between (ReadEventTimeout,
\* every ErrIncomplete of the parsers).  After a timeout or an early
\* decision it holds again as soon as the buffer has run empty.
ChunkIndependence ==
  clean /\ AtRest(r) =>
    LET whole == Decode(origin, got)
    IN  r = whole.r /\ evs = whole.evs

\* Every way round the loop of ReadEventTimeout that does not read takes
\* bytes out of the buffers, and so does the end of the wait: no input makes
\* it spin on what it already has, not even in an iteration that changes
\* nothing (every `continue` of the ladder).
LoopShrinks ==
  /\ ~AtRest(r) => Weight(After(r)) < Weight(r)
  /\ Decide(r).act = "wait" => Weight(TimedOut(r)) < Weight(r)

\* No iteration takes more bytes than there are in r.buf, however the reads
\* have cut a sequence or its Alt prefix: a slice that starts beyond its end
\* panics (every r.buf[n+altOffset:] of ReadEventTimeout).
SlicesInside ==
  ~AtRest(r) => Decide(r).n \in 1..Len(r.buf)

\* Bytes are not left lying in the buffer: in the end all are read and
\* decoded, but for the unfinished start of a character.
Drains ==
  <>[](wire = <<>> /\ (r.buf = <<>> \/ (~FullRune(r.buf) /\ r.buf[1] # ESC)))

\* The reader reports the end of the input: "The channel is closed when the
\* reader is closed or an unrecoverable error occurs" (reader.go, line 80).
EofReported == hangup ~> ended

\* A record starts the unwrapping only if it wraps an ESC: "true if the
\* buffer starts with the signature of a Win32-wrapped SGR ESC"
\* (win_double_unwrap.go, lines 29-31).
WrapStartsWithEsc == r.dbl # <<>> => r.dbl[1] = ESC

=============================================================================
