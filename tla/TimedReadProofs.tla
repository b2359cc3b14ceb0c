--------------------------- MODULE TimedReadProofs ---------------------------
(***************************************************************************)
(* The safety invariants of TimedRead, for every input, every timeout and  *)
(* every length of a millisecond.                                          *)
(***************************************************************************)
EXTENDS TimedRead, TLAPS

\* While it waits for the rest of a sequence, poll ends when the wait has
\* lasted EscWait, or in the last millisecond before the deadline.
WaitMeasured ==
  pc = "poll" /\ Partial /\ expires # None =>
    waited + expires = EscWait \/ (left # None /\ left < expires + Ms)

\* A call that began after Close ends at the top of the loop.
LateCallEnds == late => done /\ (pc = "loop" \/ (pc = "out" /\ result = "eof"))

TimedInv == TypeOK /\ WaitMeasured /\ LateCallEnds /\ NilNeedsDeadline /\ EscapeNeedsWait

-----------------------------------------------------------------------------
\* What PollTimeout makes of a timeout is at most a millisecond short of it.
LEMMA PollTimeoutShort ==
  ASSUME NEW t \in Nat \union {None}
  PROVE  /\ PollTimeout(t) \in Nat \union {None}
         /\ PollTimeout(t) # None => t \in Nat /\ PollTimeout(t) <= t /\ t < PollTimeout(t) + Ms
<1>1. CASE t = None \/ t < Ms
  BY <1>1 DEF PollTimeout
<1>2. CASE t # None /\ t >= Ms
  <2>1. Ms \in Nat /\ Ms > 0 /\ t \in Nat
    BY <1>2, TimedAssumption
  <2>2. t \div Ms \in Nat /\ t % Ms \in 0..(Ms - 1) /\ t = Ms * (t \div Ms) + (t % Ms)
    BY <2>1
  <2>3. Ms * (t \div Ms) \in Nat
    BY <2>1, <2>2
  <2> QED
    BY <1>2, <2>1, <2>2, <2>3 DEF PollTimeout, None
<1> QED
  BY <1>1, <1>2, TimedAssumption DEF None

\* The wait for the rest is a whole number of milliseconds.
LEMMA PollTimeoutExact == PollTimeout(EscWait) = EscWait
<1>1. Ms \in Nat /\ Ms > 0 /\ EscWait \in Nat /\ EscWait >= Ms /\ EscWait % Ms = 0
  BY TimedAssumption
<1>2. EscWait = Ms * (EscWait \div Ms) + (EscWait % Ms)
  BY <1>1
<1>3. EscWait \div Ms \in Nat
  BY <1>1
<1> QED
  BY <1>1, <1>2, <1>3 DEF PollTimeout, None

\* The cursors into the input, and so what is buffered, are numbers, and the
\* item looked at is there.
LEMMA BufferTyped ==
  ASSUME TypeOK
  PROVE  /\ Len(input) \in Nat /\ arrived \in Nat /\ taken \in Nat /\ used \in Nat
         /\ used <= taken /\ taken <= arrived /\ arrived <= Len(input)
         /\ Buffered \in Nat
         /\ Partial \in BOOLEAN /\ Half \in BOOLEAN
<1>1. input \in Seq({"key", "esc", "half", "rest"})
  BY TimedAssumption DEF TypeOK
<1>2. Len(input) \in Nat
  BY <1>1
<1> QED
  BY <1>1, <1>2 DEF TypeOK, Buffered, Partial, Half

\* The next event is made of items that are buffered.
LEMMA EventFits ==
  ASSUME TypeOK, Buffered > 0, ~Partial, ~Half
  PROVE  used + EventLen \in 0..taken
<1>b. taken \in Nat /\ used \in Nat /\ used < taken
  BY BufferTyped DEF Buffered
<1>1. CharLen(used + 1) \in 1..2 /\ CharLen(used + 2) \in 1..2
  BY DEF CharLen
<1>2. CharLen(used + 1) = 2 => used + 2 <= taken
  BY <1>b DEF CharLen, Is
<1>3. CharLen(used + 2) = 2 => used + 3 <= taken
  BY <1>b DEF CharLen, Is
<1>4. CASE Is(used + 1, "esc")
  <2>1. used + 2 <= taken
    BY <1>4, <1>b DEF Partial, Buffered, Is
  <2>2. EventLen = 1 + CharLen(used + 2)
    BY <1>4 DEF EventLen
  <2> QED
    BY <1>1, <1>3, <1>b, <2>1, <2>2
<1>5. CASE ~Is(used + 1, "esc")
  <2>1. EventLen = CharLen(used + 1)
    BY <1>5 DEF EventLen
  <2> QED
    BY <1>1, <1>2, <1>b, <2>1
<1> QED
  BY <1>4, <1>5

\* The ways to come out of poll without bytes, as what they change.
LEMMA NothingSays ==
  ASSUME Nothing
  PROVE  \/ Partial /\ used' = used + 1 /\ pc' = "out" /\ result' = "escape"
         \/ ~Partial /\ used' = used /\ pc' = "loop" /\ result' = result
BY DEF Nothing, Escape, Returns

LEMMA NoMoreSays ==
  ASSUME NoMore
  PROVE  \/ Partial /\ used' = used + 1 /\ pc' = "out" /\ result' = "escape"
         \/ ~Partial /\ used' = used /\ pc' = "out" /\ result' = "eof"
         \/ ~Partial /\ used' = used /\ pc' = "loop" /\ result' = result
BY DEF NoMore, Escape, Returns

-----------------------------------------------------------------------------
LEMMA InitInv == Init => TimedInv
<1> SUFFICES ASSUME Init PROVE TimedInv
  OBVIOUS
<1>1. Len(input) \in Nat /\ EscWait \in Nat /\ MaxSignals \in Nat
  <2>1. input \in Seq({"key", "esc", "half", "rest"})
    BY TimedAssumption DEF Init
  <2> QED
    BY <2>1, TimedAssumption
<1>2. /\ arrived \in 0..Len(input) /\ taken \in 0..arrived /\ used \in 0..taken
      /\ waited \in 0..EscWait /\ signals \in 0..MaxSignals
  BY <1>1 DEF Init
<1>3. TypeOK
  BY <1>2 DEF Init, TypeOK
<1> QED
  BY <1>3 DEF Init, TimedInv, WaitMeasured, LateCallEnds, NilNeedsDeadline, EscapeNeedsWait,
              Returned

\* The terminal and the clock keep the invariant.
LEMMA TerminalStep ==
  ASSUME TimedInv, Arrive \/ HangUp \/ Tick
  PROVE  TimedInv'
<1> USE DEF TimedInv
<1>0. /\ Ms \in Nat /\ Ms > 0 /\ EscWait \in Nat /\ Timeouts \subseteq Nat /\ MaxSignals \in Nat
      /\ timeout \in Nat
  BY TimedAssumption DEF TypeOK
<1>b. /\ Len(input) \in Nat /\ arrived \in Nat /\ taken \in Nat /\ used \in Nat
      /\ used <= taken /\ taken <= arrived /\ arrived <= Len(input)
  BY BufferTyped
<1>1. CASE Arrive
  <2>1. UNCHANGED <<kind, input, hangup, timeout, reading, pc, clock, result, closing, history>>
    BY <1>1 DEF Arrive
  <2>2. TypeOK'
    BY <1>1, <2>1, <1>0, <1>b DEF Arrive, TypeOK, reading, clock, closing, history
  <2> QED
    BY <2>1, <2>2 DEF WaitMeasured, LateCallEnds, NilNeedsDeadline, EscapeNeedsWait, Returned,
                      Partial, Buffered, Is, reading, clock, closing, history
<1>2. CASE HangUp
  <2>1. /\ UNCHANGED <<kind, input, arrived, timeout, reading, pc, clock, result, closing, history>>
        /\ hangup' = TRUE
    BY <1>2 DEF HangUp
  <2>2. TypeOK'
    BY <2>1 DEF TypeOK, reading, clock, closing, history
  <2> QED
    BY <2>1, <2>2 DEF WaitMeasured, LateCallEnds, NilNeedsDeadline, EscapeNeedsWait, Returned,
                      Partial, Buffered, Is, reading, clock, closing, history
<1>3. CASE Tick
  <2>1. /\ UNCHANGED <<terminal, reading, pc, result, closing, history>>
        /\ pc # "out" /\ left' = Down(left, -1) /\ expires' = Down(expires, 0)
        /\ waited' = IF pc = "poll" /\ Partial /\ waited < EscWait THEN waited + 1 ELSE waited
    BY <1>3 DEF Tick
  <2>2. left' \in (-1..timeout) \union {None} /\ expires' \in Nat \union {None}
    BY <2>1, <1>0 DEF TypeOK, Down, None
  <2>3. waited' \in 0..EscWait
    BY <2>1, <1>0 DEF TypeOK
  <2>u. UNCHANGED <<kind, input, arrived, hangup, timeout, taken, used, pc, result, done, stopped,
                    signals, signalled, late>>
    BY <2>1 DEF terminal, reading, closing, history
  <2>4. TypeOK'
    BY <2>u, <2>2, <2>3 DEF TypeOK
  <2>5. Partial' = Partial /\ pc' = pc
    BY <2>1 DEF Partial, Buffered, Is, reading, terminal
  <2>6. WaitMeasured'
    BY <2>1, <2>5, <1>0 DEF WaitMeasured, TypeOK, Down, None
  <2> QED
    BY <2>1, <2>4, <2>5, <2>6 DEF LateCallEnds, NilNeedsDeadline, EscapeNeedsWait, Returned,
                      closing, history
<1> QED
  BY <1>1, <1>2, <1>3

\* The steps of the call outside poll.
LEMMA CallStep ==
  ASSUME TimedInv, Call \/ Top \/ Decode \/ StartPoll
  PROVE  TimedInv'
<1> USE DEF TimedInv
<1>0. /\ Ms \in Nat /\ Ms > 0 /\ EscWait \in Nat /\ Timeouts \subseteq Nat /\ MaxSignals \in Nat
      /\ timeout \in Nat
  BY TimedAssumption DEF TypeOK
<1>b. /\ Len(input) \in Nat /\ arrived \in Nat /\ taken \in Nat /\ used \in Nat
      /\ used <= taken /\ taken <= arrived /\ arrived <= Len(input)
  BY BufferTyped
<1>1. CASE Call
  <2>1. /\ UNCHANGED <<terminal, reading, expires, closing, signals>>
        /\ pc' = "loop" /\ left' = (IF timeout > 0 THEN timeout ELSE None) /\ result' = "none"
        /\ waited' = 0 /\ signalled' = FALSE /\ late' = done
    BY <1>1 DEF Call
  <2>l. left' \in (-1..timeout) \union {None} /\ waited' \in 0..EscWait
    BY <2>1, <1>0
  <2>u. UNCHANGED <<kind, input, arrived, hangup, timeout, taken, used, done, stopped, signals>>
    BY <2>1 DEF terminal, reading, closing
  <2>2. TypeOK'
    BY <2>1, <2>l, <2>u DEF TypeOK
  <2> QED
    BY <2>1, <2>2 DEF WaitMeasured, LateCallEnds, NilNeedsDeadline, EscapeNeedsWait, Returned,
                      closing
<1>2. CASE Top
  <2>1. /\ UNCHANGED <<terminal, reading, clock, closing, history>>
        /\ pc = "loop"
        /\ \/ done /\ pc' = "out" /\ result' = "eof"
           \/ ~done /\ left = -1 /\ pc' = "out" /\ result' = "nil"
           \/ ~done /\ pc' = "look" /\ result' = result
    BY <1>2 DEF Top, Returns
  <2>2. TypeOK'
    BY <2>1 DEF TypeOK, terminal, reading, clock, closing, history
  <2> QED
    BY <2>1, <2>2 DEF WaitMeasured, LateCallEnds, NilNeedsDeadline, EscapeNeedsWait, Returned,
                      clock, closing, history
<1>3. CASE Decode
  <2>1. /\ UNCHANGED <<terminal, taken, clock, closing, history>>
        /\ pc = "look" /\ Buffered > 0 /\ ~Partial /\ ~Half
        /\ used' = used + EventLen
        /\ pc' = "out" /\ result' = "event"
    BY <1>3 DEF Decode, Returns
  <2>2. used' \in 0..taken
    BY <2>1, EventFits
  <2>3. TypeOK'
    BY <2>1, <2>2 DEF TypeOK, terminal, clock, closing, history
  <2> QED
    BY <2>1, <2>3 DEF WaitMeasured, LateCallEnds, NilNeedsDeadline, EscapeNeedsWait, Returned,
                      clock, closing, history
<1>4. CASE StartPoll
  <2>0. UNCHANGED <<terminal, taken, left, closing, history>> /\ pc = "look"
    BY <1>4 DEF StartPoll
  <2>1. CASE left \in {0, -1}
    <3>1. /\ expires' = expires /\ waited' = waited /\ pc' = "out"
          /\ \/ Partial /\ used' = used + 1 /\ result' = "escape"
             \/ used' = used /\ result' = "nil"
      BY <1>4, <2>1 DEF StartPoll, Escape, Returns
    <3>2. used' \in 0..taken
      BY <3>1, <1>b DEF Partial, Buffered, Is
    <3>3. TypeOK'
      BY <2>0, <3>1, <3>2 DEF TypeOK, terminal, closing, history
    <3>4. left' # None /\ left' < Ms
      BY <2>0, <2>1, <1>0 DEF None
    <3> QED
      BY <2>0, <2>1, <3>1, <3>3, <3>4 DEF WaitMeasured, LateCallEnds, NilNeedsDeadline,
         EscapeNeedsWait, Returned, closing, history
  <2>2. CASE left \notin {0, -1}
    <3> DEFINE t == IF Partial /\ (left = None \/ left > EscWait) THEN EscWait ELSE left
    <3>1. pc' = "poll" /\ waited' = 0 /\ expires' = PollTimeout(t) /\ used' = used /\ result' = result
      BY <1>4, <2>2 DEF StartPoll
    <3>2. t \in Nat \union {None}
      BY <2>2, <1>0 DEF TypeOK, None
    <3> HIDE DEF t
    <3>3. PollTimeout(t) \in Nat \union {None}
      BY <3>2, PollTimeoutShort
    <3>4. TypeOK'
      BY <2>0, <3>1, <3>3, <1>0 DEF TypeOK, terminal, closing, history
    <3>5. Partial' = Partial /\ left' = left
      BY <2>0, <3>1 DEF Partial, Buffered, Is, terminal
    <3>6. ASSUME Partial, expires' # None
          PROVE  waited' + expires' = EscWait \/ (left # None /\ left < expires' + Ms)
      <4>1. CASE left = None \/ left > EscWait
        <5>1. t = EscWait
          BY <4>1, <3>6 DEF t
        <5> QED
          BY <5>1, <3>1, PollTimeoutExact, <1>0
      <4>2. CASE ~(left = None \/ left > EscWait)
        <5>1. t = left
          BY <4>2 DEF t
        <5> QED
          BY <5>1, <4>2, <3>1, <3>2, <3>6, PollTimeoutShort
      <4> QED
        BY <4>1, <4>2
    <3>7. WaitMeasured'
      BY <3>5, <3>6 DEF WaitMeasured
    <3> QED
      BY <2>0, <3>1, <3>4, <3>7 DEF LateCallEnds, NilNeedsDeadline, EscapeNeedsWait, Returned,
         closing, history
  <2> QED
    BY <2>1, <2>2
<1> QED
  BY <1>1, <1>2, <1>3, <1>4

\* What poll reports.
LEMMA PollStep ==
  ASSUME TimedInv,
         PollStop \/ PollRead \/ PollEOF \/ PollHangUp \/ PollExpires \/ Signal
  PROVE  TimedInv'
<1> USE DEF TimedInv
<1>0. /\ Ms \in Nat /\ Ms > 0 /\ EscWait \in Nat /\ Timeouts \subseteq Nat /\ MaxSignals \in Nat
      /\ timeout \in Nat
  BY TimedAssumption DEF TypeOK
<1>b. /\ Len(input) \in Nat /\ arrived \in Nat /\ taken \in Nat /\ used \in Nat
      /\ used <= taken /\ taken <= arrived /\ arrived <= Len(input)
  BY BufferTyped
<1>p. Partial => used + 1 \in 0..taken
  BY <1>b DEF Partial, Buffered, Is
<1>1. CASE PollRead
  <2>1. PICK n \in 1..(arrived - taken) : taken' = taken + n
    BY <1>1 DEF PollRead
  <2>2. /\ UNCHANGED <<terminal, used, left, waited, result, closing, history>>
        /\ expires' = None /\ pc = "poll" /\ pc' = "loop"
    BY <1>1 DEF PollRead, PollEnds, Ready
  <2>3. taken' \in 0..arrived /\ used \in 0..taken'
    BY <2>1, <1>b
  <2>4. TypeOK'
    BY <2>2, <2>3 DEF TypeOK, terminal, closing, history
  <2> QED
    BY <2>2, <2>4 DEF WaitMeasured, LateCallEnds, NilNeedsDeadline, EscapeNeedsWait, Returned,
                      closing, history
<1>2. CASE PollStop \/ PollEOF
  <2>1. /\ UNCHANGED <<terminal, taken, left, waited, closing, history>>
        /\ expires' = None /\ pc = "poll" /\ NoMore /\ (stopped \/ hangup)
    BY <1>2 DEF PollStop, PollEOF, PollEnds, Ready, AtEOF
  <2>2. /\ used' \in 0..taken
        /\ \/ pc' = "out" /\ result' \in {"escape", "eof"}
           \/ pc' = "loop" /\ result' = result
    BY <2>1, <1>b, <1>p, NoMoreSays
  <2>3. TypeOK'
    BY <2>1, <2>2 DEF TypeOK, terminal, closing, history
  <2> QED
    BY <2>1, <2>2, <2>3 DEF WaitMeasured, LateCallEnds, NilNeedsDeadline, EscapeNeedsWait,
                      Returned, terminal, closing, history
<1>3. CASE PollHangUp \/ PollExpires \/ Signal
  <2>0. /\ UNCHANGED <<terminal, taken, left, waited, closing, late>>
        /\ expires' = None /\ pc = "poll" /\ Nothing
        /\ \/ signals' = signals /\ signalled' = signalled
           \/ signals < MaxSignals /\ signals' = signals + 1 /\ signalled' = TRUE
    BY <1>3 DEF PollHangUp, PollExpires, Signal, Ready, PollEnds, Idle, history
  <2>s. signals \in 0..MaxSignals /\ signalled \in BOOLEAN
    BY DEF TypeOK
  <2>t. signals' \in 0..MaxSignals /\ signalled' \in BOOLEAN
    <3>1. signals' = signals \/ (signals < MaxSignals /\ signals' = signals + 1)
      BY <2>0
    <3>2. signalled' = signalled \/ signalled' = TRUE
      BY <2>0
    <3>3. signals' \in 0..MaxSignals
      BY <3>1, <2>s, <1>0
    <3> QED
      BY <3>2, <3>3, <2>s
  <2>1. /\ UNCHANGED <<terminal, taken, left, waited, closing, late>>
        /\ expires' = None /\ pc = "poll" /\ Nothing
        /\ signals' \in 0..MaxSignals /\ signalled' \in BOOLEAN
    BY <2>0, <2>t
  <2>2. hangup \/ expires = 0 \/ signalled'
    BY <1>3 DEF PollHangUp, PollExpires, Signal, AtEOF
  <2>3. \/ Partial /\ used' = used + 1 /\ pc' = "out" /\ result' = "escape"
        \/ ~Partial /\ used' = used /\ pc' = "loop" /\ result' = result
    BY <2>1, NothingSays
  <2>4. used' \in 0..taken
    BY <2>3, <1>b, <1>p
  <2>5. TypeOK'
    BY <2>1, <2>3, <2>4 DEF TypeOK, terminal, closing
  <2>6. Partial /\ expires = 0 => waited = EscWait \/ (left # None /\ left < Ms)
    BY <2>1, <1>0 DEF WaitMeasured, TypeOK, None
  <2>7. EscapeNeedsWait'
    BY <2>1, <2>2, <2>3, <2>6 DEF EscapeNeedsWait, Returned, terminal, closing
  <2> QED
    BY <2>1, <2>3, <2>5, <2>7 DEF WaitMeasured, LateCallEnds, NilNeedsDeadline, Returned, closing
<1> QED
  BY <1>1, <1>2, <1>3

\* Close, and a program that has stopped calling.
LEMMA CloseStep ==
  ASSUME TimedInv, CloseDone \/ platformClose \/ Ended \/ UNCHANGED vars
  PROVE  TimedInv'
<1> USE DEF TimedInv
<1>1. CASE CloseDone
  <2>1. /\ UNCHANGED <<terminal, reading, pc, clock, result, stopped, history>>
        /\ done' = TRUE
    BY <1>1 DEF CloseDone
  <2> QED
    BY <2>1 DEF TypeOK, WaitMeasured, LateCallEnds, NilNeedsDeadline, EscapeNeedsWait, Returned,
                Partial, Buffered, Is, terminal, reading, clock, history
<1>2. CASE platformClose
  <2>1. /\ UNCHANGED <<terminal, reading, pc, clock, result, done, history>>
        /\ stopped' = TRUE
    BY <1>2 DEF platformClose
  <2> QED
    BY <2>1 DEF TypeOK, WaitMeasured, LateCallEnds, NilNeedsDeadline, EscapeNeedsWait, Returned,
                Partial, Buffered, Is, terminal, reading, clock, history
<1>3. CASE Ended \/ UNCHANGED vars
  <2>1. UNCHANGED vars
    BY <1>3 DEF Ended
  <2> QED
    BY <2>1 DEF TypeOK, WaitMeasured, LateCallEnds, NilNeedsDeadline, EscapeNeedsWait, Returned,
                Partial, Buffered, Is, vars, terminal, reading, clock, closing, history
<1> QED
  BY <1>1, <1>2, <1>3

LEMMA TimedInvariant == Spec => []TimedInv
<1>1. TimedInv /\ [Next]_vars => TimedInv'
  BY TerminalStep, CallStep, PollStep, CloseStep DEF Next
<1> QED
  BY InitInv, <1>1, PTL DEF Spec

-----------------------------------------------------------------------------
\* The variables keep their types: the cursors stay inside the input, and the
\* time left never exceeds the timeout of the call.
THEOREM TypeCorrect == Spec => []TypeOK
BY TimedInvariant, PTL DEF TimedInv

\* For every timeout and tick, ReadEventTimeout returns neither event nor
\* error only when its deadline has been reached.
THEOREM NilOnlyAtDeadline == Spec => []NilNeedsDeadline
BY TimedInvariant, PTL DEF TimedInv

\* For every timeout and tick, an ESC is returned as a key only after the
\* full wait, in the last millisecond, after a signal or at the end: rounding
\* the timeout of poll down never shortens the wait.
THEOREM EscapeOnlyAfterWait == Spec => []EscapeNeedsWait
BY TimedInvariant, PTL DEF TimedInv

\* A call that starts after Close returns io.EOF, whatever the schedule.
THEOREM ClosedForGood == Spec => []ClosedStaysClosed
<1>1. TimedInv => ClosedStaysClosed
  BY DEF TimedInv, LateCallEnds, ClosedStaysClosed
<1> QED
  BY <1>1, TimedInvariant, PTL
=============================================================================
