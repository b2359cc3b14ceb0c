--------------------------- MODULE EventPumpProofs ---------------------------
(***************************************************************************)
(* The pump and the closers, for any number of closers, any channel        *)
(* capacity, any bound on the retries and any input.                       *)
(*                                                                         *)
(* The properties are not inductive: that an exit without Close follows    *)
(* MaxRetries + 1 errors needs that only Close wakes the reader and that   *)
(* the idle read has half a character in the buffer, or nothing; that a    *)
(* panic follows an overlap needs to know who is past the look at r.done   *)
(* while another one closes it.  PumpInv says so.                          *)
(***************************************************************************)
EXTENDS EventPump, TLAPS, SequenceTheorems

\* An ESC is what the pump waits with, on a byte stream; nobody sets the stop
\* signal before r.done is closed.
Waiting  == pc = "wait" => used < taken /\ platform # "conpty"
StopDone == stopped => done

\* Byte streams have no records, consoles no buffer; the pump is not started
\* in bypass mode, and the idle read starts with nothing left to decode.
Records ==
  /\ platform # "conpty" => \A i \in 1..Len(input) : input[i] # "other"
  /\ platform = "conpty" => taken = used
Idle       == platform = "bypass" => pc = "none"
ReadsEmpty == pc = "read" => used = taken \/ Half

\* A caller that is past the look at r.done has been overtaken if r.done is
\* closed, and two such callers overlap; only the one that closed it wakes.
Closing ==
  /\ \A c \in Closers : closer[c] = "closing" /\ done => overlap
  /\ \A c, d \in Closers :
       c # d /\ closer[c] = "closing" /\ closer[d] = "closing" => overlap
  /\ \A c \in Closers : closer[c] \in {"shutting", "waking"} => done

\* Nothing is late before Close; after a late event a byte reader comes back
\* to the look at r.done and not past it.
Lateness ==
  /\ ~done => late = 0
  /\ platform # "conpty" /\ late # 0 => late = 1 /\ pc \in {"loop", "exited"}

\* The count of the code is the number of errors since the last event, while
\* nothing is buffered.
Retrying ==
  /\ pc # "exited" /\ Buffered = 0 => streak = retries
  /\ RetriesBounded

PumpInv == /\ TypeOK /\ Waiting /\ Records /\ Idle /\ ReadsEmpty
           /\ StopDone /\ Closing /\ Lateness /\ Retrying

-----------------------------------------------------------------------------
\* The lengths and the counts are numbers.
LEMMA Numbers ==
  ASSUME TypeOK
  PROVE  /\ Len(input) \in Nat /\ arrived \in Nat /\ taken \in Nat /\ used \in Nat
         /\ arrived <= Len(input) /\ taken <= arrived /\ used <= taken
         /\ retries \in Nat /\ faults \in Nat /\ late \in Nat /\ streak \in Nat
         /\ MaxRetries \in Nat /\ MaxFaults \in Nat
<1>1. input \in Seq({"key", "esc", "half", "rest", "other"})
  BY PumpAssumption DEF TypeOK
<1>2. Len(input) \in Nat
  BY <1>1, LenProperties
<1>3. arrived \in Nat /\ arrived <= Len(input)
  BY <1>2 DEF TypeOK
<1>4. taken \in Nat /\ taken <= arrived
  BY <1>3 DEF TypeOK
<1> QED
  BY <1>2, <1>3, <1>4, PumpAssumption DEF TypeOK

\* The variables of the pump that Return and Exit set keep their types.
LEMMA ReturnType ==
  ASSUME TypeOK, NEW e \in Seq(Items), NEW n \in Nat,
         used + n <= taken', taken' \in 0..arrived, Return(e, n)
  PROVE  TypeOK'
<1>1. used' \in 0..taken'
  BY Numbers DEF Return
<1>2. 0 \in 0..MaxRetries /\ 0 \in Nat
  BY Numbers
<1> QED
  BY <1>1, <1>2 DEF Return, TypeOK, Items, terminal, channel, closing

LEMMA ExitType ==
  ASSUME TypeOK, Exit,
         UNCHANGED <<terminal, taken, used, retries, faults,
                     done, closer, overlap>>,
         stopped' \in BOOLEAN, streak' \in Nat
  PROVE  TypeOK'
BY DEF Exit, TypeOK, Items, terminal

\* An event is made of items, and is as long as the items it takes.
LEMMA EventType ==
  ASSUME TypeOK, NEW n \in Nat, used + n <= Len(input)
  PROVE  /\ NextItems(n) \in Seq(Items) /\ Len(NextItems(n)) = n /\ <<>> \in Seq(Items)
<1>1. \A k \in 1..n : used + k \in Items
  BY Numbers DEF Items
<1> QED
  BY <1>1 DEF NextItems

\* The next event takes what is buffered; it has several items only where
\* the first one is an ESC or half a character.
LEMMA EventLenType ==
  ASSUME TypeOK, used < taken, ~Partial, ~Half
  PROVE  /\ EventLen \in 1..3 /\ used + EventLen <= taken
         /\ EventLen > 1 => input[used + 1] \in {"esc", "half"}
<1>1. CharLen(used + 1) \in 1..2 /\ CharLen(used + 2) \in 1..2
  BY DEF CharLen
<1>2. CharLen(used + 1) = 2 => used + 2 <= taken /\ input[used + 1] = "half"
  BY Numbers DEF CharLen, Is
<1>3. CharLen(used + 2) = 2 => used + 3 <= taken
  BY Numbers DEF CharLen, Is
<1>4. CASE Is(used + 1, "esc")
  <2>1. used + 2 <= taken
    BY <1>4, Numbers DEF Partial, Buffered
  <2>2. EventLen = 1 + CharLen(used + 2) /\ input[used + 1] = "esc"
    BY <1>4 DEF EventLen, Is
  <2> QED
    BY <1>1, <1>3, <2>1, <2>2, Numbers
<1>5. CASE ~Is(used + 1, "esc")
  <2>1. EventLen = CharLen(used + 1)
    BY <1>5 DEF EventLen
  <2> QED
    BY <1>1, <1>2, <2>1, Numbers
<1> QED
  BY <1>4, <1>5

LEMMA DecodeEventType ==
  ASSUME TypeOK, DecodeEvent
  PROVE  TypeOK'
<1>1. used < taken /\ ~Partial /\ ~Half /\ taken' = taken
  BY Numbers DEF DecodeEvent, Buffered
<1>2. EventLen \in Nat /\ used + EventLen <= taken
  BY <1>1, EventLenType
<1>3. Return(NextItems(EventLen), EventLen)
  BY DEF DecodeEvent
<1>4. NextItems(EventLen) \in Seq(Items)
  BY <1>2, Numbers, EventType
<1>5. taken' \in 0..arrived
  BY <1>1 DEF TypeOK
<1> QED
  BY <1>1, <1>2, <1>3, <1>4, <1>5, ReturnType

LEMMA ReadBytesType ==
  ASSUME TypeOK, ReadBytes
  PROVE  TypeOK'
<1>1. PICK n \in 1..(arrived - taken) : taken' = taken + n
  BY DEF ReadBytes
<1>2. taken' \in 0..arrived /\ used \in 0..taken'
  BY <1>1, Numbers
<1> QED
  BY <1>2 DEF ReadBytes, TypeOK, Items, terminal, channel, closing

LEMMA ReadRecordType ==
  ASSUME TypeOK, ReadRecord
  PROVE  TypeOK'
<1> DEFINE e == IF input[taken + 1] = "other" THEN <<>> ELSE NextItems(1)
<1>1. taken < arrived /\ taken' = taken + 1 /\ Return(e, 1)
  BY Numbers DEF ReadRecord
<1>2. 1 \in Nat /\ used + 1 <= Len(input)
  BY <1>1, Numbers
<1>3. e \in Seq(Items)
  BY <1>2, EventType
<1>4. taken' \in 0..arrived /\ used + 1 <= taken'
  BY <1>1, Numbers
<1> HIDE DEF e
<1> QED
  BY <1>1, <1>3, <1>4, ReturnType

\* The lone ESC of WaitFails and FaultInSequence.
LEMMA LoneEscType ==
  ASSUME TypeOK, Waiting, pc = "wait"
  PROVE  /\ NextItems(1) \in Seq(Items) /\ Len(NextItems(1)) = 1
         /\ used + 1 <= taken /\ used + 1 \in 0..taken
<1>1. used < taken
  BY DEF Waiting
<1>2. 1 \in Nat /\ used + 1 <= Len(input)
  BY <1>1, Numbers
<1>3. NextItems(1) \in Seq(Items) /\ Len(NextItems(1)) = 1
  BY <1>2, EventType
<1> QED
  BY <1>1, <1>3, Numbers

LEMMA WaitFailsType ==
  ASSUME TypeOK, Waiting, WaitFails
  PROVE  TypeOK'
<1>1. pc = "wait" /\ taken' = taken /\ Return(NextItems(1), 1)
  BY DEF WaitFails, At
<1>2. taken' \in 0..arrived
  BY <1>1 DEF TypeOK
<1> QED
  BY <1>1, <1>2, LoneEscType, ReturnType

LEMMA FaultType ==
  ASSUME TypeOK, Fault
  PROVE  TypeOK'
<1>1. faults' \in 0..MaxFaults /\ streak' \in Nat
  BY Numbers DEF Fault, CanFault
<1>2. CASE Half \/ retries < MaxRetries
  <2>1. retries' \in 0..MaxRetries /\ UNCHANGED <<ev, channel>> /\ pc' \in {"loop", "retry"}
    BY <1>2, Numbers DEF Fault, TypeOK
  <2> QED
    BY <1>1, <2>1 DEF Fault, TypeOK, Items, terminal, reading, channel, closing
<1>3. CASE ~(Half \/ retries < MaxRetries)
  <2>1. Exit /\ UNCHANGED <<terminal, taken, used, retries, done, closer, overlap>>
        /\ stopped' \in BOOLEAN
    BY <1>3 DEF Fault, TypeOK, reading, closing
  <2> QED
    BY <1>1, <2>1 DEF Exit, TypeOK, Items, terminal
<1> QED
  BY <1>2, <1>3

LEMMA FaultInSequenceType ==
  ASSUME TypeOK, Waiting, FaultInSequence
  PROVE  TypeOK'
<1>1. faults' \in 0..MaxFaults
  BY Numbers DEF FaultInSequence, CanFault
<1>2. NextItems(1) \in Seq(Items) /\ used + 1 \in 0..taken
  BY LoneEscType DEF FaultInSequence, At
<1>3. 0 \in 0..MaxRetries
  BY Numbers
<1> QED
  BY <1>1, <1>2, <1>3 DEF FaultInSequence, TypeOK, Items, terminal, channel, closing

LEMMA SendType ==
  ASSUME TypeOK, Send
  PROVE  TypeOK'
<1>1. CASE queueClosed
  BY <1>1 DEF Send, TypeOK, Items, terminal, reading, closing
<1>2. CASE ~queueClosed
  <2>1. queue' \in Seq(Seq(Items)) /\ Len(queue') = Len(queue) + 1
    <3>1. queue \in Seq(Seq(Items)) /\ ev \in Seq(Items)
      BY DEF TypeOK
    <3>2. queue' = Append(queue, ev)
      BY <1>2 DEF Send
    <3> QED
      BY <3>1, <3>2, AppendProperties
  <2>2. Len(queue) \in Nat /\ Len(queue) < QueueCap /\ QueueCap \in Nat
    BY <1>2, PumpAssumption, LenProperties DEF Send, TypeOK
  <2>3. late' \in Nat
    BY <1>2, Numbers DEF Send
  <2>4. Len(queue') <= QueueCap
    BY <2>1, <2>2
  <2> QED
    BY <1>2, <2>1, <2>3, <2>4 DEF Send, TypeOK, Items, terminal, reading, closing
<1> QED
  BY <1>1, <1>2

LEMMA ReceiveType ==
  ASSUME TypeOK, Receive
  PROVE  TypeOK'
<1>1. queue \in Seq(Seq(Items)) /\ queue # <<>> /\ received \in Seq(Seq(Items))
  BY DEF Receive, TypeOK
<1>2. Head(queue) \in Seq(Items) /\ Tail(queue) \in Seq(Seq(Items))
      /\ Len(Tail(queue)) = Len(queue) - 1
  BY <1>1, HeadTailProperties
<1>3. received' \in Seq(Seq(Items))
  BY <1>1, <1>2, AppendProperties DEF Receive
<1>4. Len(queue) \in Nat /\ Len(queue) <= QueueCap /\ QueueCap \in Nat
  BY <1>1, PumpAssumption, LenProperties DEF TypeOK
<1>5. queue' \in Seq(Seq(Items)) /\ Len(queue') <= QueueCap
  BY <1>2, <1>4 DEF Receive
<1> QED
  BY <1>3, <1>5 DEF Receive, TypeOK, Items, terminal, reading, pump, closing

LEMMA CloserType ==
  ASSUME TypeOK, NEW c \in Closers, Enter(c) \/ CloseDone(c) \/ CloseChan(c) \/ platformClose(c)
  PROVE  TypeOK'
<1>1. CASE Enter(c)
  BY <1>1 DEF Enter, TypeOK, Items, terminal, reading, pump, channel
<1>2. CASE CloseDone(c)
  BY <1>2 DEF CloseDone, TypeOK, Items, terminal, reading, pump
<1>3. CASE CloseChan(c)
  BY <1>3 DEF CloseChan, TypeOK, Items, terminal, reading, pump
<1>4. CASE platformClose(c)
  BY <1>4 DEF platformClose, TypeOK, Items, terminal, reading, pump, channel
<1> QED
  BY <1>1, <1>2, <1>3, <1>4

LEMMA InjectType ==
  ASSUME TypeOK, Inject
  PROVE  TypeOK'
<1>1. taken < arrived /\ taken' = taken + 1 /\ used' = used + 1
  BY Numbers DEF Inject
<1>2. taken' \in 0..arrived /\ used' \in 0..taken'
  BY <1>1, Numbers
<1>3. NextItems(1) \in Seq(Items)
  <2>1. 1 \in Nat /\ used + 1 <= Len(input)
    BY <1>1, Numbers
  <2> QED
    BY <2>1, EventType
<1>4. queue' \in Seq(Seq(Items)) /\ Len(queue') = Len(queue) + 1
  BY <1>3, AppendProperties DEF Inject, TypeOK
<1>5. Len(queue) \in Nat /\ Len(queue) < QueueCap /\ QueueCap \in Nat
  BY PumpAssumption, LenProperties DEF Inject, TypeOK
<1>6. Len(queue') <= QueueCap
  BY <1>4, <1>5
<1> QED
  BY <1>2, <1>4, <1>6 DEF Inject, TypeOK, Items, terminal, pump, closing

LEMMA TypeStep ==
  ASSUME TypeOK, Waiting, [Next]_vars
  PROVE  TypeOK'
<1>1. CASE Arrive
  <2>1. arrived' \in 0..Len(input) /\ taken \in 0..arrived'
    BY <1>1, Numbers DEF Arrive
  <2> QED
    BY <1>1, <2>1 DEF Arrive, TypeOK, Items, reading, pump, channel, closing
<1>2. CASE HangUp
  BY <1>2 DEF HangUp, TypeOK, Items, reading, pump, channel, closing
<1>3. CASE GetEventChan \/ StartRead \/ RetryTimer
  BY <1>3 DEF GetEventChan, StartRead, RetryTimer, TypeOK, Items,
              terminal, reading, channel, closing
<1>4. CASE LoopClosed \/ (ReadEOF /\ ~Half) \/ RetryClosed \/ SendClosed
  <2>1. /\ Exit
        /\ UNCHANGED <<terminal, reading, retries, faults, streak, closing>>
    BY <1>4 DEF LoopClosed, ReadEOF, RetryClosed, SendClosed
  <2>2. stopped' \in BOOLEAN /\ streak' \in Nat
    BY <2>1 DEF TypeOK, closing
  <2> QED
    BY <2>1, <2>2, ExitType DEF reading, closing
<1>5. CASE Cancelled
  <2>1. stopped' \in BOOLEAN /\ streak' \in Nat
    BY <1>5 DEF Cancelled, TypeOK
  <2> QED
    BY <1>5, <2>1, ExitType DEF Cancelled, reading
<1>6. CASE Receive
  BY <1>6, ReceiveType
<1>11. CASE Leave
  BY <1>11 DEF Leave, TypeOK, Items, terminal, reading, pump, closing
<1>7. CASE \E c \in Closers : Enter(c) \/ CloseDone(c) \/ CloseChan(c) \/ platformClose(c)
  BY <1>7, CloserType
<1>8. CASE InjectClosed
  BY <1>8 DEF InjectClosed, TypeOK, Items, terminal, reading, pump, closing
<1>9. CASE Crashed \/ UNCHANGED vars
  BY <1>9 DEF Crashed, TypeOK, Items, vars, terminal, reading, pump, channel, closing
<1>10. CASE ReadEOF /\ Half
  BY <1>10 DEF ReadEOF, TypeOK, Items, terminal, reading, channel, closing
<1> QED
  BY <1>1, <1>2, <1>3, <1>4, <1>5, <1>6, <1>7, <1>8, <1>9, <1>10, <1>11, DecodeEventType,
     ReadBytesType, ReadRecordType, WaitFailsType, FaultType,
     FaultInSequenceType, SendType, InjectType DEF Next, Pump

-----------------------------------------------------------------------------
\* What the terminal, the closers and the program do leaves the pump alone.
LEMMA OthersFrame ==
  ASSUME \/ Arrive \/ HangUp \/ Receive \/ Leave \/ InjectClosed
         \/ Crashed \/ UNCHANGED vars
         \/ \E c \in Closers : Enter(c) \/ CloseDone(c) \/ CloseChan(c) \/ platformClose(c)
  PROVE  /\ UNCHANGED <<platform, input, reading, pump>>
         /\ (hangup => hangup') /\ (done => done')
BY DEF Arrive, HangUp, Receive, Leave, InjectClosed, Crashed, Enter,
       CloseDone, CloseChan, platformClose, vars, terminal, closing

\* Whatever a step does, the terminal stays what it is, and what was closed,
\* overlapped or hung up stays so.
LEMMA ConstantFrame ==
  ASSUME [Next]_vars
  PROVE  UNCHANGED <<platform, input>> /\ (hangup => hangup') /\ (done => done')
BY DEF Next, Pump, Arrive, HangUp, GetEventChan, LoopClosed, DecodeEvent,
         StartRead, ReadBytes, WaitFails, ReadEOF, ReadRecord, Cancelled, Fault,
         FaultInSequence, RetryTimer, RetryClosed, Send, SendClosed, Receive, Leave,
         Inject, InjectClosed, Enter, CloseDone, CloseChan, platformClose,
         Crashed, Return, Exit,
         vars, terminal, closing

LEMMA WaitingStep ==
  ASSUME TypeOK, Waiting, [Next]_vars
  PROVE  Waiting'
<1>1. CASE StartRead
  <2>1. Partial => used < taken
    BY Numbers DEF Partial, Buffered
  <2> QED
    BY <1>1, <2>1 DEF StartRead, Waiting, At, reading, terminal
<1>2. CASE UNCHANGED <<pc, taken, used, platform>>
  BY <1>2 DEF Waiting
<1>3. CASE pc' # "wait"
  BY <1>3 DEF Waiting
<1>4. CASE Inject
  <2>1. taken' = taken + 1 /\ used' = used + 1 /\ UNCHANGED <<pc, platform>>
    BY <1>4 DEF Inject, terminal, pump
  <2> QED
    BY <2>1, Numbers DEF Waiting
<1>5. [Next]_vars => StartRead \/ Inject
                     \/ UNCHANGED <<pc, taken, used, platform>> \/ pc' # "wait"
  BY OthersFrame DEF Next, Pump, GetEventChan, LoopClosed, DecodeEvent, At,
         ReadBytes, WaitFails, ReadEOF, ReadRecord, Cancelled, Fault, FaultInSequence,
         RetryTimer, RetryClosed, Send, SendClosed, Return, Exit, reading, pump
<1> QED
  BY <1>1, <1>2, <1>3, <1>4, <1>5

LEMMA RecordsStep ==
  ASSUME TypeOK, Waiting, Records, [Next]_vars
  PROVE  Records'
<1>1. UNCHANGED <<input, platform>>
  BY ConstantFrame
<1>2. CASE platform = "conpty"
  <2>1. CASE ReadRecord
    BY <1>1, <1>2, <2>1, Numbers DEF ReadRecord, Return, Records
  <2>2. ASSUME ~ReadRecord
        PROVE  UNCHANGED <<taken, used>>
    BY <1>2, <2>2, OthersFrame DEF Waiting, At, Next, Pump, GetEventChan,
           LoopClosed, DecodeEvent, StartRead, ReadBytes, WaitFails, ReadEOF,
           Cancelled, Fault, FaultInSequence, RetryTimer, RetryClosed, Send,
           SendClosed, Inject, reading
  <2> QED
    BY <1>1, <1>2, <2>1, <2>2 DEF Records
<1> QED
  BY <1>1, <1>2 DEF Records

LEMMA IdleStep ==
  ASSUME Idle, [Next]_vars
  PROVE  Idle'
<1>1. platform' = platform
  BY ConstantFrame
<1>2. ASSUME pc = "none", platform = "bypass"
      PROVE  pc' = "none"
  BY <1>2, OthersFrame DEF At, Next, Pump, GetEventChan, LoopClosed, DecodeEvent,
         StartRead, ReadBytes, WaitFails, ReadEOF, ReadRecord, Cancelled, Fault,
         FaultInSequence, RetryTimer, RetryClosed, Send, SendClosed, Inject, pump
<1> QED
  BY <1>1, <1>2 DEF Idle

LEMMA ReadsEmptyStep ==
  ASSUME TypeOK, Records, Idle, ReadsEmpty, [Next]_vars
  PROVE  ReadsEmpty'
<1> USE Numbers
<1>1. CASE StartRead
  <2>1. /\ UNCHANGED <<used, taken, input>> /\ Half' = Half
        /\ pc' = IF platform # "conpty" /\ Partial THEN "wait" ELSE "read"
    BY <1>1 DEF StartRead, reading, terminal, Half, Buffered, Is
  <2>2. CASE platform = "conpty"
    BY <2>1, <2>2 DEF Records, ReadsEmpty
  <2>3. CASE platform # "conpty"
    BY <1>1, <2>1, <2>3 DEF StartRead, Buffered, ReadsEmpty
  <2> QED
    BY <2>2, <2>3
<1>2. CASE pc' # "read"
  BY <1>2 DEF ReadsEmpty
<1>3. CASE UNCHANGED <<pc, used, taken, input>>
  BY <1>3 DEF ReadsEmpty, Half, Buffered, Is
<1>4. CASE Inject
  BY <1>4 DEF Inject, Idle, pump, ReadsEmpty
<1>5. ASSUME ~StartRead, ~Inject
      PROVE  pc' # "read" \/ UNCHANGED <<pc, used, taken, input>>
  BY <1>5, OthersFrame DEF Next, Pump, GetEventChan, LoopClosed, DecodeEvent, WaitFails, At,
         FaultInSequence, ReadRecord, ReadBytes, ReadEOF, Cancelled, Fault, RetryTimer,
         RetryClosed, Send, SendClosed, Return, Exit, terminal, reading, pump
<1> QED
  BY <1>1, <1>2, <1>3, <1>4, <1>5

\* What the closers share changes in their own steps only, but for the
\* cancel event, which a wait resets.
LEMMA ClosingFrame ==
  ASSUME [Next]_vars
  PROVE  \/ UNCHANGED <<done, closer, overlap>>
            /\ (stopped' = stopped \/ stopped' = FALSE)
         \/ \E c \in Closers : Enter(c) \/ CloseDone(c) \/ CloseChan(c) \/ platformClose(c)
BY DEF Next, Pump, Arrive, HangUp, GetEventChan, LoopClosed, DecodeEvent,
       StartRead, ReadBytes, WaitFails, ReadEOF, ReadRecord, Cancelled, Fault,
       FaultInSequence, RetryTimer, RetryClosed, Send, SendClosed, Receive, Leave,
       Inject, InjectClosed, Crashed, Return, Exit, vars, closing

LEMMA ClosingStep ==
  ASSUME TypeOK, Closing, StopDone, [Next]_vars
  PROVE  Closing' /\ StopDone'
<1>1. closer \in [Closers -> {"idle", "closing", "shutting", "waking", "closed"}]
  BY DEF TypeOK
<1>2. CASE UNCHANGED <<done, closer, overlap>>
           /\ (stopped' = stopped \/ stopped' = FALSE)
  BY <1>2 DEF Closing, StopDone
<1>3. ASSUME NEW c \in Closers, Enter(c)
      PROVE  Closing' /\ StopDone'
  <2>1. /\ closer' = [closer EXCEPT ![c] = IF done THEN "closed" ELSE "closing"]
        /\ UNCHANGED <<done, stopped>>
        /\ overlap' = (overlap \/ (~done /\ \E d \in Closers : closer[d] = "closing"))
    BY <1>3 DEF Enter
  <2>2. \A d \in Closers : d # c => closer'[d] = closer[d]
    BY <1>1, <2>1
  <2>3. closer'[c] = IF done THEN "closed" ELSE "closing"
    BY <1>1, <2>1
  <2>4. overlap => overlap'
    BY <2>1
  <2>5. ASSUME NEW d \in Closers, closer'[d] = "closing", done'
        PROVE  overlap'
    BY <2>1, <2>2, <2>3, <2>4, <2>5 DEF Closing
  <2>6. ASSUME NEW d \in Closers, NEW e \in Closers, d # e,
               closer'[d] = "closing", closer'[e] = "closing"
        PROVE  overlap'
    BY <2>1, <2>2, <2>3, <2>4, <2>6 DEF Closing
  <2> QED
    BY <2>1, <2>2, <2>3, <2>4, <2>5, <2>6 DEF Closing, StopDone
<1>4. ASSUME NEW c \in Closers, CloseDone(c)
      PROVE  Closing' /\ StopDone'
  <2>1. closer[c] = "closing" /\ UNCHANGED <<stopped, overlap>>
    BY <1>4 DEF CloseDone
  <2>2. CASE done
    BY <1>4, <2>1, <2>2 DEF CloseDone, Closing, StopDone
  <2>3. CASE ~done
    <3>1. /\ done' = TRUE
          /\ closer' = [closer EXCEPT ![c] =
                           IF platform = "bypass" THEN "shutting" ELSE "waking"]
      BY <1>4, <2>3 DEF CloseDone
    <3>2. \A d \in Closers :
             IF d = c THEN closer'[d] \in {"shutting", "waking"}
                      ELSE closer'[d] = closer[d]
      BY <1>1, <3>1
    <3> QED
      BY <2>1, <3>1, <3>2 DEF Closing, StopDone
  <2> QED
    BY <2>2, <2>3
<1>5. ASSUME NEW c \in Closers, platformClose(c)
      PROVE  Closing' /\ StopDone'
  <2>1. /\ closer[c] = "waking" /\ UNCHANGED <<done, overlap>>
        /\ closer' = [closer EXCEPT ![c] = "closed"]
    BY <1>5 DEF platformClose
  <2>2. \A d \in Closers : closer'[d] = IF d = c THEN "closed" ELSE closer[d]
    BY <1>1, <2>1
  <2> QED
    BY <2>1, <2>2 DEF Closing, StopDone
<1>6. ASSUME NEW c \in Closers, CloseChan(c)
      PROVE  Closing' /\ StopDone'
  <2>1. /\ closer[c] = "shutting" /\ UNCHANGED <<done, stopped, overlap>>
        /\ closer' = [closer EXCEPT ![c] = "waking"]
    BY <1>6 DEF CloseChan
  <2>2. \A d \in Closers : closer'[d] = IF d = c THEN "waking" ELSE closer[d]
    BY <1>1, <2>1
  <2> QED
    BY <2>1, <2>2 DEF Closing, StopDone
<1> QED
  BY <1>2, <1>3, <1>4, <1>5, <1>6, ClosingFrame

-----------------------------------------------------------------------------
\* late is counted by Send; after a late event only the look at r.done, the
\* steps of a console and those of others can follow.
LEMMA LatenessStep ==
  ASSUME TypeOK, Lateness, [Next]_vars
  PROVE  Lateness'
<1>1. (done => done') /\ platform' = platform
  BY ConstantFrame
<1>2. CASE Send /\ ~queueClosed
  <2>1. UNCHANGED done /\ pc = "send" /\ pc' = "loop"
    BY <1>2 DEF Send, closing, At
  <2>2. late' = IF done THEN late + 1 ELSE late
    BY <1>2 DEF Send
  <2> QED
    BY <1>1, <2>1, <2>2 DEF Lateness
<1>3. ASSUME ~(Send /\ ~queueClosed)
      PROVE  late' = late
  BY <1>3 DEF Next, Pump, Arrive, HangUp, GetEventChan, LoopClosed, DecodeEvent,
         StartRead, ReadBytes, WaitFails, ReadEOF, ReadRecord, Cancelled, Fault,
         FaultInSequence, RetryTimer, RetryClosed, Send, SendClosed, Receive, Leave, Enter,
         CloseDone, CloseChan, Inject, InjectClosed, platformClose, Crashed, Return, Exit,
         vars, channel
<1>4. ASSUME pc \in {"loop", "exited"}, done, platform # "conpty"
      PROVE  pc' \in {"loop", "exited"}
  BY <1>4, OthersFrame DEF Next, Pump, GetEventChan, LoopClosed, DecodeEvent,
         StartRead, ReadBytes, WaitFails, ReadEOF, ReadRecord, Cancelled, Fault,
         FaultInSequence, RetryTimer, RetryClosed, Send, SendClosed,
         Inject, Exit, At, pump
<1>5. CASE ~(Send /\ ~queueClosed)
  BY <1>1, <1>3, <1>4, <1>5 DEF Lateness
<1> QED
  BY <1>2, <1>5

\* With the same numbers of errors and at most more in the buffer, nothing
\* about the retries changes.
LEMMA RetryingKept ==
  ASSUME TypeOK, Retrying, UNCHANGED <<retries, streak>>, taken' - used' >= taken - used,
         (hangup => hangup') /\ (done => done'),
         pc # "exited" => (pc' # "exited" \/ done \/ hangup),
         pc = "exited" => pc' = "exited"
  PROVE  Retrying'
<1> USE Numbers DEF Buffered, Retrying, RetriesBounded
<1>1. Buffered' = 0 => Buffered = 0 \/ taken - used < 0
  OBVIOUS
<1> QED
  BY <1>1

LEMMA RetryingStep ==
  ASSUME TypeOK, ReadsEmpty, StopDone, Retrying, [Next]_vars
  PROVE  Retrying'
<1> USE Numbers
<1>1. CASE Fault
  <2>1. /\ pc = "read" /\ streak' = streak + 1
        /\ UNCHANGED <<hangup, done, input, used, taken>>
    BY <1>1 DEF Fault, At, terminal, reading, closing
  <2>2. CASE Half
    <3>1. Buffered' = 1 /\ pc' = "loop"
      BY <1>1, <2>1, <2>2 DEF Fault, Half, Buffered
    <3> QED
      BY <3>1 DEF Retrying, RetriesBounded
  <2>3. CASE ~Half /\ retries < MaxRetries
    <3>1. retries' = retries + 1 /\ pc' = "retry" /\ streak = retries
      BY <1>1, <2>1, <2>3 DEF Fault, ReadsEmpty, Retrying, Buffered
    <3> QED
      BY <2>1, <2>3, <3>1 DEF Retrying, RetriesBounded
  <2>4. CASE ~Half /\ ~(retries < MaxRetries)
    <3>1. /\ pc' = "exited" /\ retries = MaxRetries /\ streak = retries
          /\ retries' = retries
      BY <1>1, <2>1, <2>4 DEF Fault, Exit, TypeOK, ReadsEmpty, Retrying, Buffered
    <3> QED
      BY <2>1, <3>1 DEF Retrying, RetriesBounded
  <2> QED
    BY <2>2, <2>3, <2>4
<1>2. CASE DecodeEvent \/ WaitFails \/ ReadRecord \/ FaultInSequence
  <2>1. pc' = "send" /\ retries' = 0 /\ streak' = 0
    BY <1>2 DEF DecodeEvent, WaitFails, ReadRecord, FaultInSequence, Return
  <2> QED
    BY <2>1 DEF Retrying, RetriesBounded
<1>3. CASE LoopClosed \/ ReadEOF \/ Cancelled \/ RetryClosed \/ SendClosed
  <2>1. /\ UNCHANGED <<hangup, done, retries, streak, used, taken>>
        /\ pc # "exited" /\ pc' \in {"exited", "loop"}
    BY <1>3 DEF LoopClosed, ReadEOF, Cancelled, RetryClosed, SendClosed, At, Exit,
                terminal, reading, closing
  <2>2. done \/ hangup
    BY <1>3 DEF LoopClosed, ReadEOF, Cancelled, RetryClosed, SendClosed,
                Interrupted, AtEOF, StopDone
  <2> QED
    BY <2>1, <2>2, RetryingKept
<1>4. CASE GetEventChan \/ StartRead \/ RetryTimer \/ Send
  <2>1. /\ UNCHANGED <<hangup, done, retries, streak, used, taken>>
        /\ pc # "exited" /\ pc' # "exited"
    BY <1>4 DEF GetEventChan, StartRead, RetryTimer, Send, At, terminal, reading, closing
  <2> QED
    BY <2>1, RetryingKept
<1>5. CASE ReadBytes
  <2>1. /\ UNCHANGED <<hangup, done, retries, streak, used>>
        /\ pc # "exited" /\ pc' # "exited"
    BY <1>5 DEF ReadBytes, At, terminal, closing
  <2>2. PICK n \in 1..(arrived - taken) : taken' = taken + n
    BY <1>5 DEF ReadBytes
  <2> QED
    BY <2>1, <2>2, RetryingKept
<1>6. CASE Inject
  <2>1. /\ UNCHANGED <<hangup, done, retries, streak, pc>>
        /\ used' = used + 1 /\ taken' = taken + 1
    BY <1>6 DEF Inject, terminal, pump, closing
  <2> QED
    BY <2>1, RetryingKept
<1>7. CASE \/ Arrive \/ HangUp \/ Receive \/ Leave \/ InjectClosed
           \/ Crashed \/ UNCHANGED vars
           \/ \E c \in Closers : Enter(c) \/ CloseDone(c) \/ CloseChan(c) \/ platformClose(c)
  BY <1>7, OthersFrame, RetryingKept DEF reading, pump
<1> QED
  BY <1>1, <1>2, <1>3, <1>4, <1>5, <1>6, <1>7 DEF Next, Pump

-----------------------------------------------------------------------------
LEMMA PumpInvInit == Init => PumpInv
<1> SUFFICES ASSUME Init
             PROVE  PumpInv
  OBVIOUS
<1>1. input \in Seq({"key", "esc", "half", "rest", "other"}) /\ input \in Inputs
  BY PumpAssumption DEF Init
<1>2. Len(input) \in Nat
  BY <1>1, LenProperties
<1>3. /\ <<>> \in Seq(Items) /\ <<>> \in Seq(Seq(Items)) /\ Len(<<>>) = 0
      /\ arrived \in 0..Len(input) /\ taken \in 0..arrived /\ used \in 0..taken
  BY <1>2, EmptySeq DEF Init
<1>4. MaxRetries \in Nat /\ MaxFaults \in Nat /\ QueueCap \in Nat
  BY PumpAssumption
<1>5. closer \in [Closers -> {"idle", "closing", "shutting", "waking", "closed"}]
  BY DEF Init
<1>6. TypeOK
  <2>1. platform \in Platforms /\ input \in Inputs
    BY DEF Init
  <2>2. ev \in Seq(Items) /\ received \in Seq(Seq(Items)) /\ queue \in Seq(Seq(Items))
    BY <1>3 DEF Init
  <2>3. Len(queue) <= QueueCap
    BY <1>3, <1>4 DEF Init
  <2>4. /\ retries \in 0..MaxRetries /\ faults \in 0..MaxFaults
        /\ late \in Nat /\ streak \in Nat
    BY <1>4 DEF Init
  <2> QED
    BY <1>3, <1>5, <2>1, <2>2, <2>3, <2>4 DEF Init, TypeOK
<1>7. Waiting /\ Idle /\ ReadsEmpty /\ StopDone /\ Closing /\ Lateness
  BY <1>4 DEF Init, Waiting, Idle, ReadsEmpty, StopDone, Closing, Lateness
<1>8. Retrying
  BY <1>4 DEF Init, Retrying, RetriesBounded
<1>9. ASSUME platform # "conpty", NEW i \in 1..Len(input), input[i] = "other"
      PROVE  FALSE
  <2>1. CASE platform = "bypass"
    <3>1. input[i] \in ToSet(input)
      BY DEF ToSet
    <3>2. ToSet(input) \subseteq {"key"}
      BY <2>1 DEF Init, Produces
    <3> QED
      BY <1>9, <3>1, <3>2
  <2>2. CASE platform # "bypass"
    <3>1. ~Contains(input, "other")
      BY <1>9, <2>2 DEF Init, Produces
    <3> QED
      BY <1>9, <3>1 DEF Contains
  <2> QED
    BY <2>1, <2>2
<1>10. Records
  BY <1>9 DEF Init, Records
<1> QED
  BY <1>6, <1>7, <1>8, <1>10 DEF PumpInv

LEMMA PumpInvStep == PumpInv /\ [Next]_vars => PumpInv'
BY TypeStep, WaitingStep, RecordsStep, IdleStep, ReadsEmptyStep, ClosingStep,
   LatenessStep, RetryingStep DEF PumpInv

LEMMA PumpInvHolds == Spec => []PumpInv
BY PumpInvInit, PumpInvStep, PTL DEF Spec

\* What the pump, the channel and the closers keep is well formed; the
\* channel never exceeds its capacity.
THEOREM PumpTypeCorrect == Spec => []TypeOK
<1>1. PumpInv => TypeOK
  BY DEF PumpInv
<1> QED
  BY <1>1, PumpInvHolds, PTL

\* Once Close has closed r.done, a byte reader sends at most one more event,
\* whatever the capacity of the channel and the bytes still buffered.
THEOREM AtMostOneLate == Spec => []OneLateEvent
<1>1. PumpInv => OneLateEvent
  BY DEF PumpInv, Lateness, OneLateEvent
<1> QED
  BY <1>1, PumpInvHolds, PTL

\* The pump never gives up before MaxRetries + 1 read errors in a row, and
\* makes no more attempts while nothing is buffered, for every MaxRetries.
\* Errors met with half a character in the buffer are the exception.
THEOREM RetriesAreBounded == Spec => []RetriesBounded
<1>1. PumpInv => RetriesBounded
  BY DEF PumpInv, Retrying
<1> QED
  BY <1>1, PumpInvHolds, PTL
-----------------------------------------------------------------------------
(***************************************************************************)
(* EventPump implements EventStream: every step of the pump, a closer, the *)
(* backend or the program is a step of the promise of EventChan, or leaves *)
(* what the promise is about alone.                                        *)
(*                                                                         *)
(* A Put needs to know what the event in hand is made of (Sending), and    *)
(* that the channel is open as long as somebody may put into it or close   *)
(* it (Open).                                                              *)
(*                                                                         *)
(* Then what the channel carries: the items of the input in their order    *)
(* (InOrder), and at the end of the input all of them (NothingLostAtEOF).  *)
(***************************************************************************)

\* The event that the pump is about to send is made of the last items decoded;
\* several only where the first of them waits for more, and on a console just
\* one, or none for a record that is no event.
Takes(n) == /\ n \in 1..3 /\ used >= n
            /\ n > 1 => input[used - n + 1] \in {"esc", "half"} /\ platform # "conpty"
Sending ==
  pc = "send" =>
    \/ \E n \in 1..3 :
          /\ Takes(n) /\ ev = [k \in 1..n |-> used - n + k]
          /\ \A i \in (used - n + 1)..used : Visible(i)
    \/ used >= 1 /\ ~Visible(used) /\ ev = <<>> /\ platform = "conpty"

Open ==
  /\ queueClosed => pc = "exited" \/ (platform = "bypass" /\ done)
  /\ \A c \in Closers : closer[c] = "shutting" => platform = "bypass" /\ ~queueClosed
  /\ \A c, d \in Closers : c # d => ~(closer[c] = "shutting" /\ closer[d] = "shutting")

StreamInv == PumpInv /\ Sending /\ Open /\ PanicNeedsOverlap
-----------------------------------------------------------------------------
\* What was just decoded is such an event.
LEMMA SendingDecoded ==
  ASSUME TypeOK, NEW n \in 1..3, used + n <= Len(input),
         n > 1 => input[used + 1] \in {"esc", "half"} /\ platform # "conpty",
         \A i \in (used + 1)..(used + n) : Visible(i),
         ev' = NextItems(n), used' = used + n, UNCHANGED <<input, platform>>
  PROVE  Sending'
<1> USE Numbers
<1>1. used' - n + 1 = used + 1 /\ used' >= n
  OBVIOUS
<1>2. \A i : Visible(i)' <=> Visible(i)
  BY DEF Visible
<1>3. \A i \in (used' - n + 1)..used' : Visible(i)'
  BY <1>1, <1>2
<1>4. ev' = [k \in 1..n |-> used' - n + k]
  BY DEF NextItems
<1>5. Takes(n)'
  BY <1>1 DEF Takes
<1> QED
  BY <1>3, <1>4, <1>5 DEF Sending

LEMMA SendingStep ==
  ASSUME PumpInv, Sending, [Next]_vars
  PROVE  Sending'
<1> USE Numbers DEF PumpInv
<1>1. CASE DecodeEvent
  <2>1. /\ used < taken /\ ~Partial /\ ~Half /\ platform # "conpty"
        /\ UNCHANGED <<input, platform>>
        /\ ev' = NextItems(EventLen) /\ used' = used + EventLen
    BY <1>1 DEF DecodeEvent, Buffered, Return, terminal
  <2>2. PICK n \in 1..3 : /\ n = EventLen /\ used + n <= taken
                          /\ n > 1 => input[used + 1] \in {"esc", "half"}
    BY <2>1, EventLenType
  <2>3. \A i \in (used + 1)..(used + n) : Visible(i)
    BY <2>1, <2>2 DEF Records, Visible
  <2>4. used + n <= Len(input)
    BY <2>2
  <2> QED
    BY <2>1, <2>2, <2>3, <2>4, SendingDecoded
<1>2. CASE WaitFails \/ FaultInSequence
  <2>1. /\ pc = "wait" /\ ev' = NextItems(1) /\ used' = used + 1
        /\ UNCHANGED <<input, platform>>
    BY <1>2 DEF WaitFails, FaultInSequence, Return, At, terminal
  <2>2. used + 1 <= Len(input) /\ platform # "conpty"
    BY <2>1 DEF Waiting
  <2>3. \A i \in (used + 1)..(used + 1) : Visible(i)
    BY <2>2 DEF Records, Visible
  <2> QED
    BY <2>1, <2>2, <2>3, SendingDecoded
<1>3. CASE ReadRecord
  <2>1. /\ platform = "conpty" /\ used' = used + 1 /\ UNCHANGED <<input, platform>>
        /\ ev' = IF input[taken + 1] = "other" THEN <<>> ELSE NextItems(1)
        /\ arrived > taken
    BY <1>3 DEF ReadRecord, Return, terminal
  <2>2. taken = used /\ used + 1 <= Len(input)
    BY <2>1 DEF Records
  <2>3. CASE input[used + 1] = "other"
    BY <2>1, <2>2, <2>3 DEF Sending, Visible
  <2>4. CASE input[used + 1] # "other"
    <3>1. \A i \in (used + 1)..(used + 1) : Visible(i)
      BY <2>4 DEF Visible
    <3> QED
      BY <2>1, <2>2, <2>4, <3>1, SendingDecoded
  <2> QED
    BY <2>3, <2>4
<1>4. CASE Inject
  BY <1>4 DEF Inject, Idle, pump, Sending
<1>5. CASE pc' # "send"
  BY <1>5 DEF Sending
<1>6. CASE UNCHANGED <<pc, ev, used, input, platform>>
  BY <1>6 DEF Sending, Takes, Visible
<1>7. ASSUME ~DecodeEvent, ~WaitFails, ~FaultInSequence, ~ReadRecord, ~Inject
      PROVE  pc' # "send" \/ UNCHANGED <<pc, ev, used, input, platform>>
  BY <1>7, OthersFrame, ConstantFrame DEF Next, Pump, GetEventChan, LoopClosed, StartRead,
         ReadBytes, ReadEOF, Cancelled, Fault, RetryTimer, RetryClosed, Send,
         SendClosed, Exit, reading, pump
<1> QED
  BY <1>1, <1>2, <1>3, <1>4, <1>5, <1>6, <1>7

LEMMA OpenStep ==
  ASSUME PumpInv, Open, [Next]_vars
  PROVE  Open'
<1>1. closer \in [Closers -> {"idle", "closing", "shutting", "waking", "closed"}]
  BY DEF PumpInv, TypeOK
<1>2. platform' = platform /\ (done => done')
  BY ConstantFrame
<1>3. ASSUME NEW c \in Closers, Enter(c) \/ platformClose(c)
      PROVE  Open'
  <2>1. /\ UNCHANGED <<pc, queueClosed, done>>
        /\ \E v \in {"closed", "closing"} : closer' = [closer EXCEPT ![c] = v]
    BY <1>3 DEF Enter, platformClose, pump, channel
  <2>2. \A d \in Closers : closer'[d] = "shutting" => closer[d] = "shutting"
    BY <1>1, <2>1
  <2> QED
    BY <1>2, <2>1, <2>2 DEF Open
<1>4. ASSUME NEW c \in Closers, CloseDone(c)
      PROVE  Open'
  <2>1. UNCHANGED <<pc, queueClosed>>
    BY <1>4 DEF CloseDone, pump
  <2>2. CASE done
    BY <1>2, <1>4, <2>1, <2>2 DEF CloseDone, Open
  <2>3. CASE ~done
    <3>1. /\ closer' = [closer EXCEPT ![c] =
                          IF platform = "bypass" THEN "shutting" ELSE "waking"]
      BY <1>4, <2>3 DEF CloseDone
    <3>2. \A d \in Closers : closer[d] # "shutting"
      BY <2>3 DEF PumpInv, Closing
    <3>3. \A d \in Closers : closer'[d] = "shutting" => d = c /\ platform = "bypass"
      BY <1>1, <3>1, <3>2
    <3>4. platform = "bypass" => ~queueClosed
      BY <2>3 DEF Open, PumpInv, Idle
    <3> QED
      BY <1>2, <2>1, <3>3, <3>4 DEF Open
  <2> QED
    BY <2>2, <2>3
<1>5. ASSUME NEW c \in Closers, CloseChan(c)
      PROVE  Open'
  <2>1. /\ closer[c] = "shutting" /\ UNCHANGED <<pc, done>>
        /\ closer' = [closer EXCEPT ![c] = "waking"]
    BY <1>5 DEF CloseChan, pump
  <2>2. \A d \in Closers : closer'[d] # "shutting"
    BY <1>1, <2>1 DEF Open
  <2>3. platform = "bypass" /\ done
    BY <2>1 DEF Open, PumpInv, Closing
  <2> QED
    BY <1>2, <2>1, <2>2, <2>3 DEF Open
<1>6. CASE UNCHANGED <<done, closer, overlap>>
  <2>1. platform = "bypass" => UNCHANGED <<pc, queueClosed>>
    <3>1. CASE \E c \in Closers : Enter(c) \/ CloseDone(c) \/ CloseChan(c) \/ platformClose(c)
      BY <1>1, <1>6, <3>1 DEF Enter, CloseDone, CloseChan, platformClose, pump, channel
    <3>2. CASE ~(\E c \in Closers : Enter(c) \/ CloseDone(c) \/ CloseChan(c) \/ platformClose(c))
      BY <3>2 DEF PumpInv, Idle, At, Next, Pump, Arrive, HangUp, GetEventChan, LoopClosed,
         DecodeEvent, StartRead, ReadBytes, WaitFails, ReadEOF, ReadRecord,
         Cancelled, Fault, FaultInSequence, RetryTimer, RetryClosed, Send,
         SendClosed, Receive, Leave, Inject, InjectClosed, Crashed, vars, pump, channel
    <3> QED
      BY <3>1, <3>2
  <2>2. platform # "bypass" => (queueClosed' => pc' = "exited")
    <3>1. \A c \in Closers : platform # "bypass" => ~CloseChan(c)
      BY DEF Open, CloseChan
    <3> QED
      BY <3>1 DEF Open, At, Next, Pump, Arrive, HangUp, GetEventChan, LoopClosed,
         DecodeEvent, StartRead, ReadBytes, WaitFails, ReadEOF, ReadRecord,
         Cancelled, Fault, FaultInSequence, RetryTimer, RetryClosed, Send,
         SendClosed, Receive, Leave, Inject, InjectClosed, Enter, CloseDone,
         platformClose, Crashed, Return, Exit, vars, pump, channel
  <2> QED
    BY <1>2, <1>6, <2>1, <2>2 DEF Open
<1> QED
  BY <1>3, <1>4, <1>5, <1>6, ClosingFrame
\* As long as the pump runs EventChan is open.
LEMMA StillOpen ==
  ASSUME PumpInv, Open, pc \notin {"none", "exited"}
  PROVE  ~queueClosed /\ platform # "bypass"
BY DEF PumpInv, Idle, Open

\* Neither the pump nor a closer meets a closed channel; a closer meets a
\* closed r.done only after an overlap.
LEMMA PanicStep ==
  ASSUME PumpInv, Open, PanicNeedsOverlap, [Next]_vars
  PROVE  PanicNeedsOverlap'
<1>1. platform' = platform /\ (done => done')
  BY ConstantFrame
<1>2. overlap => overlap'
  BY ClosingFrame DEF Enter, CloseDone, CloseChan, platformClose
<1>3. CASE panicked' = panicked
  BY <1>1, <1>2, <1>3 DEF PanicNeedsOverlap
<1>4. CASE InjectClosed
  <2>1. platform = "bypass" /\ done /\ panicked' = "backend"
    BY <1>4 DEF InjectClosed, Open, PumpInv, Idle
  <2> QED
    BY <1>1, <2>1 DEF PanicNeedsOverlap
<1>5. ASSUME NEW c \in Closers, CloseDone(c)
      PROVE  PanicNeedsOverlap'
  <2>1. panicked' = panicked \/ (panicked' = "close" /\ overlap)
    BY <1>5 DEF CloseDone, PumpInv, Closing
  <2> QED
    BY <1>2, <1>3, <2>1 DEF PanicNeedsOverlap
<1>6. ASSUME NEW c \in Closers, CloseChan(c)
      PROVE  panicked' = panicked
  BY <1>6 DEF CloseChan, Open
<1>7. CASE LoopClosed \/ ReadEOF \/ Cancelled \/ RetryClosed \/ SendClosed \/ Fault \/ Send
  <2>1. pc \notin {"none", "exited"}
    BY <1>7 DEF LoopClosed, ReadEOF, Cancelled, RetryClosed, SendClosed, Fault, Send, At
  <2>2. ~queueClosed
    BY <2>1, StillOpen
  <2>3. panicked' = panicked
    BY <1>7, <2>2 DEF LoopClosed, ReadEOF, Cancelled, RetryClosed, SendClosed, Fault, Send,
           Exit, channel
  <2> QED
    BY <1>3, <2>3
<1>8. CASE \/ Arrive \/ HangUp \/ GetEventChan \/ DecodeEvent \/ StartRead \/ ReadBytes
           \/ WaitFails \/ ReadRecord \/ FaultInSequence \/ RetryTimer \/ Receive \/ Leave
           \/ Inject \/ Crashed \/ UNCHANGED vars
           \/ \E c \in Closers : Enter(c) \/ platformClose(c)
  <2>1. panicked' = panicked
    BY <1>8 DEF Arrive, HangUp, GetEventChan, DecodeEvent, StartRead, ReadBytes, WaitFails,
           ReadRecord, FaultInSequence, RetryTimer, Receive, Leave, Inject, Crashed, Enter,
           platformClose, Return, vars, channel
  <2> QED
    BY <1>3, <2>1
<1> QED
  BY <1>3, <1>4, <1>5, <1>6, <1>7, <1>8 DEF Next, Pump
-----------------------------------------------------------------------------
LEMMA StreamInvInit == Init => StreamInv
<1> SUFFICES ASSUME Init
             PROVE  StreamInv
  OBVIOUS
<1>1. Sending /\ Open /\ PanicNeedsOverlap
  BY DEF Init, Sending, Open, PanicNeedsOverlap
<1> QED
  BY <1>1, PumpInvInit DEF StreamInv

LEMMA StreamInvStep == StreamInv /\ [Next]_vars => StreamInv'
BY PumpInvStep, SendingStep, OpenStep, PanicStep DEF StreamInv

LEMMA StreamInvHolds == Spec => []StreamInv
BY StreamInvInit, StreamInvStep, PTL DEF Spec

\* The pump never panics.  Any number of goroutines may call Close any number
\* of times: it panics only if two of them overlap between the look at r.done
\* and its close.  A backend panics only in bypass mode, after a Close.
THEOREM OverlapNeeded == Spec => []PanicNeedsOverlap
<1>1. StreamInv => PanicNeedsOverlap
  BY DEF StreamInv
<1> QED
  BY <1>1, StreamInvHolds, PTL
-----------------------------------------------------------------------------
\* What one step of the pump is to the stream, action by action.

Kept == UNCHANGED <<input, Upto, queue, received, gone, queueClosed, panicked>>

\* The event in hand stands for the items after Upto.
LEMMA InHand ==
  ASSUME StreamInv, pc = "send"
  PROVE  /\ Upto \in Nat /\ Upto + Pending = used /\ Pending \in 1..3
         /\ Pending > 1 => input[Upto + 1] \in {"esc", "half"}
         /\ ev = IF input[Upto + 1] = "other"
                  THEN <<>> ELSE [k \in 1..Pending |-> Upto + k]
<1> USE Numbers DEF StreamInv, PumpInv
<1>1. ASSUME NEW n \in 1..3, Takes(n), ev = [k \in 1..n |-> used - n + k],
             \A i \in (used - n + 1)..used : Visible(i)
      PROVE  /\ Upto \in Nat /\ Upto + Pending = used /\ Pending \in 1..3
             /\ Pending > 1 => input[Upto + 1] \in {"esc", "half"}
             /\ ev = IF input[Upto + 1] = "other"
                      THEN <<>> ELSE [k \in 1..Pending |-> Upto + k]
  <2>1. Len(ev) = n
    BY <1>1
  <2>2. Pending = n /\ used >= n
    BY <1>1, <2>1 DEF Pending, Takes
  <2>3. Upto = used - n
    BY <2>2 DEF Upto
  <2>4. input[Upto + 1] # "other"
    <3>1. Upto + 1 \in (used - n + 1)..used
      BY <2>2, <2>3
    <3> QED
      BY <1>1, <3>1 DEF Visible
  <2>5. ev = [k \in 1..Pending |-> Upto + k]
    BY <1>1, <2>2, <2>3
  <2>6. Pending > 1 => input[Upto + 1] \in {"esc", "half"}
    BY <1>1, <2>2, <2>3 DEF Takes
  <2> QED
    BY <2>2, <2>3, <2>4, <2>5, <2>6
<1>2. CASE used >= 1 /\ ~Visible(used) /\ ev = <<>> /\ platform = "conpty"
  <2>1. Pending = 1
    BY <1>2 DEF Pending
  <2>2. Upto = used - 1
    BY <2>1 DEF Upto
  <2>3. Upto + 1 = used /\ input[Upto + 1] = "other"
    BY <1>2, <2>2 DEF Visible
  <2> QED
    BY <1>2, <2>1, <2>2, <2>3
<1> QED
  BY <1>1, <1>2 DEF Sending

LEMMA SendPuts ==
  ASSUME StreamInv, Send
  PROVE  Stream!Put
<1> USE Numbers DEF StreamInv, PumpInv
<1>1. pc = "send" /\ Running
  BY DEF Send, At
<1>2. ~queueClosed
  BY <1>1, StillOpen
<1>3. /\ Len(queue) < QueueCap
      /\ queue' = Append(queue, ev) /\ pc' = "loop"
      /\ UNCHANGED <<input, used, received, gone, queueClosed, panicked>>
  BY <1>2 DEF Send, terminal, reading, closing
<1>4. Upto' = used
  BY <1>3 DEF Upto
<1>5. PICK n \in 1..3 :
        /\ n = Pending /\ Upto \in Nat /\ Upto + n = used
        /\ n > 1 => input[Upto + 1] \in {"esc", "half"}
        /\ ev = IF input[Upto + 1] = "other" THEN <<>> ELSE [k \in 1..n |-> Upto + k]
  BY <1>1, InHand
<1>6. Upto + n <= Len(input)
  BY <1>5
<1>7. Stream!PutItems(n)
  BY <1>3, <1>4, <1>5 DEF Stream!PutItems
<1>8. UNCHANGED Running
  BY <1>3 DEF Running
<1> QED
  BY <1>1, <1>2, <1>3, <1>6, <1>7, <1>8 DEF Stream!Put

LEMMA InjectPuts ==
  ASSUME StreamInv, Inject
  PROVE  Stream!Put
<1> USE Numbers DEF StreamInv, PumpInv
<1>1. /\ platform = "bypass" /\ Running /\ ~queueClosed /\ Len(queue) < QueueCap
      /\ arrived > taken /\ queue' = Append(queue, NextItems(1)) /\ used' = used + 1
      /\ UNCHANGED <<input, pc, ev, received, gone, queueClosed, panicked>>
  BY DEF Inject, terminal, pump, closing
<1>2. pc = "none"
  BY <1>1 DEF Idle
<1>3. Upto = used /\ Upto' = used + 1
  BY <1>1, <1>2 DEF Upto
<1>4. used + 1 <= Len(input)
  BY <1>1
<1>5. input[used + 1] # "other"
  BY <1>1, <1>4 DEF Records
<1>6. Stream!PutItems(1)
  BY <1>1, <1>3, <1>5 DEF Stream!PutItems, NextItems
<1>7. UNCHANGED Running
  BY <1>1 DEF Running
<1> QED
  BY <1>1, <1>3, <1>4, <1>6, <1>7, 1 \in 1..3 DEF Stream!Put

LEMMA ReceiveDelivers ==
  ASSUME Receive
  PROVE  Stream!Deliver
<1>1. Upto' = Upto
  BY DEF Receive, terminal, reading, pump, Upto, Pending
<1>2. UNCHANGED Running
  BY DEF Receive, Running
<1> QED
  BY <1>1, <1>2 DEF Receive, terminal, closing, Stream!Deliver

LEMMA LeaveLeaves ==
  ASSUME Leave
  PROVE  Stream!Leave
<1>1. Upto' = Upto
  BY DEF Leave, terminal, reading, pump, Upto, Pending
<1>2. UNCHANGED Running
  BY DEF Leave, Running
<1> QED
  BY <1>1, <1>2 DEF Leave, terminal, closing, Stream!Leave

\* Every way out of the loop shuts the stream; only SendClosed gives up an event.
LEMMA ExitShuts ==
  ASSUME StreamInv, pc \notin {"none", "exited"}, Exit,
         UNCHANGED <<input, used>>, Running
  PROVE  Stream!Shut
<1> USE Numbers DEF StreamInv, PumpInv
<1>1. ~queueClosed
  BY StillOpen
<1>2. pc' = "exited" /\ queueClosed' = TRUE /\ UNCHANGED <<queue, received, gone, panicked>>
  BY <1>1 DEF Exit
<1>3. Upto' = used
  BY <1>2 DEF Upto
<1>4. Upto' \in Upto..(Upto + 3)
  <2>1. CASE pc = "send"
    BY <1>3, <2>1, InHand
  <2>2. CASE pc # "send"
    BY <1>3, <2>2 DEF Upto
  <2> QED
    BY <2>1, <2>2
<1>5. UNCHANGED Running
  BY <1>2 DEF Running
<1> QED
  BY <1>1, <1>2, <1>4, <1>5 DEF Stream!Shut

LEMMA CloseChanShuts ==
  ASSUME StreamInv, NEW c \in Closers, CloseChan(c)
  PROVE  Stream!Shut
<1>1. closer[c] = "shutting" /\ platform = "bypass" /\ ~queueClosed
  BY DEF CloseChan, StreamInv, Open
<1>2. /\ Running /\ queueClosed' = TRUE
      /\ UNCHANGED <<input, used, pc, ev, platform, queue, received, gone, panicked>>
  BY <1>1 DEF CloseChan, terminal, reading, pump
<1>3. pc = "none"
  BY <1>1 DEF StreamInv, PumpInv, Idle
<1>4. Upto \in Nat /\ Upto' = Upto
  BY <1>2, <1>3, Numbers DEF Upto, StreamInv, PumpInv
<1>5. UNCHANGED Running
  BY <1>2 DEF Running
<1> QED
  BY <1>1, <1>2, <1>4, <1>5 DEF Stream!Shut

\* A decoded event is in hand, and no part of the stream yet.
LEMMA ReturnKeeps ==
  ASSUME StreamInv, NEW e, NEW n \in Nat, pc # "send",
         pc' = "send", ev' = e, used' = used + n,
         n = IF platform = "conpty" THEN 1 ELSE Len(e),
         UNCHANGED <<terminal, channel, closing>>
  PROVE  Kept
<1>1. Upto = used /\ used \in Nat
  BY Numbers DEF Upto, StreamInv, PumpInv
<1>2. Upto' = used
  <2>1. platform' = platform
    BY DEF terminal
  <2>2. Pending' = n
    BY <2>1 DEF Pending
  <2> QED
    BY <1>1, <2>2 DEF Upto
<1> QED
  BY <1>1, <1>2 DEF Kept, terminal, channel, closing

LEMMA DecodeKeeps ==
  ASSUME StreamInv, DecodeEvent
  PROVE  Kept
<1> USE DEF StreamInv, PumpInv
<1>1. /\ pc = "loop" /\ used < taken /\ ~Partial /\ ~Half
      /\ Return(NextItems(EventLen), EventLen)
  BY Numbers DEF DecodeEvent, Buffered, At
<1>2. PICK n \in 1..3 : n = EventLen /\ used + n <= taken
  BY <1>1, EventLenType
<1>3. Len(NextItems(n)) = n /\ n \in Nat
  BY <1>2, Numbers, EventType
<1>4. platform # "conpty"
  BY DEF DecodeEvent
<1> QED
  BY <1>1, <1>2, <1>3, <1>4, ReturnKeeps DEF Return

LEMMA LoneEscKeeps ==
  ASSUME StreamInv, WaitFails \/ FaultInSequence
  PROVE  Kept
<1>1. /\ pc = "wait" /\ pc' = "send" /\ ev' = NextItems(1) /\ used' = used + 1
      /\ UNCHANGED <<terminal, channel, closing>>
  BY DEF WaitFails, FaultInSequence, Return, At
<1>2. Len(NextItems(1)) = 1 /\ 1 \in Nat
  BY <1>1, LoneEscType DEF StreamInv, PumpInv
<1> QED
  BY <1>1, <1>2, ReturnKeeps

LEMMA RecordKeeps ==
  ASSUME StreamInv, ReadRecord
  PROVE  Kept
<1>1. /\ pc = "read" /\ pc' = "send" /\ used' = used + 1 /\ platform = "conpty"
      /\ UNCHANGED <<terminal, channel, closing>>
  BY DEF ReadRecord, Return, At
<1> QED
  BY <1>1, ReturnKeeps, 1 \in Nat
-----------------------------------------------------------------------------
LEMMA StreamStep ==
  ASSUME StreamInv, [Next]_vars
  PROVE  [Stream!Next]_Stream!vars
<1> USE DEF At
<1>1. CASE Send \/ Inject
  BY <1>1, SendPuts, InjectPuts DEF Stream!Next
<1>2. CASE Receive \/ Leave
  BY <1>2, ReceiveDelivers, LeaveLeaves DEF Stream!Next
<1>3. CASE LoopClosed \/ (ReadEOF /\ ~Half) \/ Cancelled \/ RetryClosed \/ SendClosed
  <2>1. /\ pc \notin {"none", "exited"} /\ Exit /\ Running
        /\ UNCHANGED <<input, used>>
    BY <1>3 DEF LoopClosed, ReadEOF, Cancelled, RetryClosed, SendClosed,
           terminal, reading, closing
  <2> QED
    BY <2>1, ExitShuts DEF Stream!Next
<1>4. CASE Fault \/ (ReadEOF /\ Half)
  <2>1. /\ pc = "read" /\ Running /\ UNCHANGED <<input, used>>
        /\ (pc' \in {"retry", "loop"} /\ UNCHANGED channel) \/ Exit
    BY <1>4 DEF Fault, ReadEOF, terminal, reading, closing
  <2>2. CASE Exit
    BY <2>1, <2>2, ExitShuts DEF Stream!Next
  <2>3. CASE pc' \in {"retry", "loop"} /\ UNCHANGED channel
    BY <2>1, <2>3 DEF Upto, Running, channel, Stream!vars
  <2> QED
    BY <2>1, <2>2, <2>3
<1>5. CASE InjectClosed
  <2>1. Upto' = Upto
    BY <1>5 DEF InjectClosed, terminal, reading, pump, Upto, Pending
  <2> QED
    BY <1>5, <2>1 DEF InjectClosed, Running, terminal, Stream!Crash, Stream!Next
<1>6. ASSUME NEW c \in Closers, CloseDone(c)
      PROVE  [Stream!Next]_Stream!vars
  <2>1. /\ Upto' = Upto /\ Running
        /\ UNCHANGED <<input, queue, queueClosed, received, gone>>
    BY <1>6 DEF CloseDone, terminal, reading, pump, Upto, Pending
  <2>2. panicked' = "close" \/ UNCHANGED panicked
    BY <1>6 DEF CloseDone
  <2> QED
    BY <2>1, <2>2 DEF Running, Stream!Crash, Stream!Next, Stream!vars
<1>7. ASSUME NEW c \in Closers, CloseChan(c)
      PROVE  [Stream!Next]_Stream!vars
  BY <1>7, CloseChanShuts DEF Stream!Next
<1>8. CASE DecodeEvent \/ WaitFails \/ FaultInSequence \/ ReadRecord
  BY <1>8, DecodeKeeps, LoneEscKeeps, RecordKeeps DEF Kept, Running, Stream!vars
<1>9. CASE \/ Arrive \/ HangUp \/ Crashed \/ UNCHANGED vars
           \/ \E c \in Closers : Enter(c) \/ platformClose(c)
  <2>1. /\ UNCHANGED <<input, platform, used, pc, ev>>
        /\ UNCHANGED <<queue, received, gone, queueClosed, panicked>>
    BY <1>9 DEF Arrive, HangUp, Crashed, Enter, platformClose, vars, terminal,
           reading, pump, channel, closing
  <2> QED
    BY <2>1 DEF Upto, Pending, Running, Stream!vars
<1>10. CASE GetEventChan \/ StartRead \/ ReadBytes \/ RetryTimer
  <2>1. /\ pc # "send" /\ pc' # "send" /\ UNCHANGED <<input, used>>
        /\ UNCHANGED <<queue, received, gone, queueClosed, panicked>>
    BY <1>10 DEF GetEventChan, StartRead, ReadBytes, RetryTimer, terminal,
           reading, channel, closing
  <2> QED
    BY <2>1 DEF Upto, Running, Stream!vars
<1> QED
  BY <1>1, <1>2, <1>3, <1>4, <1>5, <1>6, <1>7, <1>8, <1>9, <1>10 DEF Next, Pump

LEMMA StreamInit == Init => Stream!Init
<1> SUFFICES ASSUME Init
             PROVE  Stream!Init
  OBVIOUS
<1>1. input \in Seq({"key", "esc", "half", "rest", "other"})
  BY PumpAssumption DEF Init
<1>2. Upto = 0
  BY DEF Init, Upto
<1> QED
  BY <1>1, <1>2 DEF Init, Running, Stream!Init

\* Pump, closers and backend implement the promise of EventChan, whatever the
\* platform, the number of closers, the capacity and the bounds: one event
\* after the other in the order of the input, none after the channel was
\* closed (the safety part of KeepsStream).
THEOREM StreamRefined == Spec => Stream!SafeSpec
<1>1. Init => Stream!Init
  BY StreamInit
<1>2. StreamInv /\ [Next]_vars => [Stream!Next]_Stream!vars
  BY StreamStep
<1> QED
  BY <1>1, <1>2, StreamInvHolds, PTL DEF Spec, Stream!SafeSpec

-----------------------------------------------------------------------------
(***************************************************************************)
(* What the channel carries.  That nothing is lost at the end needs that   *)
(* an idle read whose error ends the pump started with an empty buffer.    *)
(***************************************************************************)
OrderInv == StreamInv /\ InOrder /\ NothingLostAtEOF

LEMMA SentSays ==
  ASSUME TypeOK
  PROVE  /\ Sent \in Seq(Seq(Items)) /\ Len(Sent) \in Nat /\ DOMAIN Sent = 1..Len(Sent)
         /\ received \in Seq(Seq(Items)) /\ queue \in Seq(Seq(Items))
<1>1. received \in Seq(Seq(Items)) /\ queue \in Seq(Seq(Items))
  BY DEF TypeOK
<1>2. Sent \in Seq(Seq(Items))
  BY <1>1, ConcatProperties DEF Sent
<1> QED
  BY <1>1, <1>2, LenProperties

\* What is put at the end of the channel is sent last.
LEMMA PutIsSent ==
  ASSUME TypeOK, NEW e \in Seq(Items), queue' = Append(queue, e), received' = received
  PROVE  Sent' = Append(Sent, e)
<1>1. received \in Seq(Seq(Items)) /\ queue \in Seq(Seq(Items))
  BY SentSays
<1>2. received \o Append(queue, e) = Append(received \o queue, e)
  BY <1>1
<1> QED
  BY <1>2 DEF Sent

\* Receiving changes nothing in what was sent.
LEMMA ReceiveKeepsSent ==
  ASSUME TypeOK, Receive
  PROVE  Sent' = Sent
<1>1. /\ received \in Seq(Seq(Items)) /\ queue \in Seq(Seq(Items)) /\ queue # <<>>
      /\ received' = Append(received, Head(queue)) /\ queue' = Tail(queue)
  BY SentSays DEF Receive
<1>2. Append(received, Head(queue)) \o Tail(queue) = received \o queue
  BY <1>1
<1> QED
  BY <1>1, <1>2 DEF Sent

\* An item that is no event need not be sent.
LEMMA CarriesPastRecord ==
  ASSUME NEW s, NEW n \in Nat, Carries(s, n), ~Visible(n + 1)
  PROVE  Carries(s, n + 1)
<1>1. {i \in 1..(n + 1) : Visible(i)} = {i \in 1..n : Visible(i)}
  <2>1. \A i \in 1..(n + 1) : i = n + 1 \/ i \in 1..n
    OBVIOUS
  <2>2. \A i \in 1..n : i \in 1..(n + 1)
    OBVIOUS
  <2> QED
    BY <2>1, <2>2
<1> QED
  BY <1>1 DEF Carries

\* The items of an event that is put after those up to n come after them.
LEMMA CarriesMore ==
  ASSUME TypeOK, NEW s \in Seq(Seq(Items)), NEW n \in Nat, Carries(s, n), NEW e \in Seq(Items),
         NEW m \in Nat, n <= m,
         ToSet(e) = {i \in (n + 1)..m : Visible(i)},
         \A i, j \in DOMAIN e : i < j => e[i] < e[j]
  PROVE  Carries(Append(s, e), m)
<1> DEFINE t == Append(s, e)
<1>l. PICK l \in Nat : l = Len(s)
  BY LenProperties
<1>1. /\ DOMAIN s = 1..l /\ DOMAIN t = 1..(l + 1)
      /\ \A k \in 1..l : t[k] = s[k]
      /\ t[l + 1] = e
  BY <1>l, AppendProperties, LenProperties
<1> HIDE DEF t
<1>2. \A k \in 1..(l + 1) : k \in 1..l \/ k = l + 1
  BY <1>l
<1>k. \A k \in 1..l : k \in 1..(l + 1) /\ l + 1 \in 1..(l + 1)
  BY <1>l
<1>3. \A k \in 1..l : \A a \in ToSet(s[k]) : a \in 1..n
  BY <1>1 DEF Carries
<1>4. UNION {ToSet(t[k]) : k \in DOMAIN t} = {i \in 1..m : Visible(i)}
  <2>1. \A x : (\E k \in 1..(l + 1) : x \in ToSet(t[k]))
                 <=> (\E k \in 1..l : x \in ToSet(s[k])) \/ x \in ToSet(e)
    BY <1>1, <1>2, <1>k, <1>l
  <2>2. \A x : (\E k \in DOMAIN s : x \in ToSet(s[k])) <=> x \in 1..n /\ Visible(x)
    BY DEF Carries
  <2>3. \A x : x \in ToSet(e) <=> x \in (n + 1)..m /\ Visible(x)
    OBVIOUS
  <2>4. \A x : x \in 1..m <=> x \in 1..n \/ x \in (n + 1)..m
    OBVIOUS
  <2>5. \A x : (\E k \in DOMAIN t : x \in ToSet(t[k])) <=> x \in 1..m /\ Visible(x)
    BY <1>1, <2>1, <2>2, <2>3, <2>4, Zenon
  <2> QED
    BY <2>5
<1>5. \A k \in DOMAIN t : \A i, j \in DOMAIN t[k] : i < j => t[k][i] < t[k][j]
  BY <1>1, <1>2 DEF Carries
<1>6. \A j, k \in DOMAIN t : j < k => \A a \in ToSet(t[j]), b \in ToSet(t[k]) : a < b
  <2> SUFFICES ASSUME NEW j \in 1..(l + 1), NEW k \in 1..(l + 1), j < k,
                      NEW a \in ToSet(t[j]), NEW b \in ToSet(t[k])
               PROVE  a < b
    BY <1>1
  <2>1. j \in 1..l /\ t[j] = s[j]
    BY <1>1
  <2>2. CASE k \in 1..l
    BY <1>1, <2>1, <2>2 DEF Carries
  <2>3. CASE k = l + 1
    <3>1. a \in 1..n
      BY <1>3, <2>1
    <3>2. b \in (n + 1)..m
      BY <1>1, <2>3
    <3> QED
      BY <3>1, <3>2
  <2> QED
    BY <1>2, <2>2, <2>3
<1> QED
  BY <1>4, <1>5, <1>6 DEF Carries, t

LEMMA CarriesStill ==
  ASSUME NEW n, NEW s, Carries(s, n), Sent' = s, input' = input
  PROVE  Carries(Sent, n)'
BY DEF Carries, Visible

\* Nothing was put, and what was decoded is accounted for as before.
LEMMA OrderKept ==
  ASSUME InOrder, Sent' = Sent, input' = input, SentUpto \subseteq SentUpto'
  PROVE  InOrder'
<1>1. PICK n \in SentUpto : Carries(Sent, n)
  BY DEF InOrder
<1>2. Carries(Sent, n)'
  BY <1>1, CarriesStill
<1> QED
  BY <1>1, <1>2 DEF InOrder

\* What is decoded is in the hand of the pump.
LEMMA OrderDecoded ==
  ASSUME StreamInv, InOrder, DecodeEvent \/ WaitFails \/ FaultInSequence \/ ReadRecord
  PROVE  InOrder'
<1> USE Numbers DEF StreamInv, PumpInv
<1>1. /\ pc \notin {"send", "exited"} /\ pc' = "send"
      /\ UNCHANGED <<input, queue, received>>
  BY DEF DecodeEvent, WaitFails, FaultInSequence, ReadRecord, Return, At, terminal, channel
<1>2. Sent' = Sent /\ input' = input
  BY <1>1 DEF Sent
<1>3. SentUpto = {used} /\ SentUpto' = {used' - Len(ev')}
  BY <1>1 DEF SentUpto
<1>4. CASE DecodeEvent \/ WaitFails \/ FaultInSequence
  <2>1. CASE DecodeEvent
    <3>1. /\ used < taken /\ ~Partial /\ ~Half
          /\ ev' = NextItems(EventLen) /\ used' = used + EventLen
      BY <2>1 DEF DecodeEvent, Buffered, Return
    <3>2. PICK n \in 1..3 : n = EventLen /\ used + n <= taken
      BY <3>1, EventLenType
    <3>3. Len(NextItems(n)) = n
      BY <3>2, EventType
    <3> QED
      BY <1>2, <1>3, <3>1, <3>2, <3>3, OrderKept
  <2>2. CASE WaitFails \/ FaultInSequence
    <3>1. pc = "wait" /\ ev' = NextItems(1) /\ used' = used + 1
      BY <2>2 DEF WaitFails, FaultInSequence, Return, At
    <3>2. PICK n \in {1} : ev' = NextItems(n) /\ Len(NextItems(n)) = n /\ used' = used + n
      BY <3>1, LoneEscType
    <3>3. used' - Len(ev') = used
      BY <3>2
    <3> QED
      BY <1>2, <1>3, <3>3, OrderKept
  <2> QED
    BY <1>4, <2>1, <2>2
<1>5. CASE ReadRecord
  <2>1. /\ taken = used /\ used' = used + 1
        /\ ev' = IF input[used + 1] = "other" THEN <<>> ELSE NextItems(1)
        /\ used + 1 <= Len(input)
    BY <1>5 DEF ReadRecord, Return, Records
  <2>2. CASE input[used + 1] # "other"
    <3>1. PICK n \in {1} : ev' = NextItems(n) /\ Len(NextItems(n)) = n /\ used' = used + n
      BY <2>1, <2>2, EventType, 1 \in Nat
    <3>2. used' - Len(ev') = used
      BY <3>1
    <3> QED
      BY <1>2, <1>3, <3>2, OrderKept
  <2>3. CASE input[used + 1] = "other"
    <3>1. PICK n \in Nat : n = used + 1
      OBVIOUS
    <3>2. used' - Len(ev') = n
      BY <2>1, <2>3, <3>1
    <3>3. Carries(Sent, used)
      BY <1>3 DEF InOrder
    <3>4. Carries(Sent, n)
      BY <2>3, <3>1, <3>3, CarriesPastRecord DEF Visible
    <3>5. Carries(Sent, n)'
      BY <1>2, <3>4, CarriesStill
    <3> QED
      BY <1>3, <3>2, <3>5 DEF InOrder
  <2> QED
    BY <2>2, <2>3
<1> QED
  BY <1>4, <1>5

\* What is put comes next in the input.
LEMMA OrderSend ==
  ASSUME StreamInv, InOrder, Send
  PROVE  InOrder'
<1> USE Numbers DEF StreamInv, PumpInv
<1>1. /\ pc = "send" /\ pc' = "loop" /\ used' = used /\ input' = input
      /\ queue' = Append(queue, ev) /\ received' = received
  <2>1. pc = "send"
    BY DEF Send, At
  <2> QED
    BY <2>1, StillOpen DEF Send, terminal, reading
<1>2. SentUpto = {used - Len(ev)} /\ SentUpto' = {used}
  BY <1>1 DEF SentUpto
<1>3. Sent' = Append(Sent, ev) /\ Sent \in Seq(Seq(Items)) /\ ev \in Seq(Items)
  BY <1>1, PutIsSent, SentSays DEF TypeOK
<1>4. PICK m \in Nat : m = used
  OBVIOUS
<1>5. /\ m - Len(ev) \in Nat /\ m - Len(ev) <= m
      /\ ToSet(ev) = {i \in (m - Len(ev) + 1)..m : Visible(i)}
      /\ \A i, j \in DOMAIN ev : i < j => ev[i] < ev[j]
  <2>1. ASSUME NEW k \in 1..3, Takes(k), ev = [i \in 1..k |-> used - k + i],
               \A i \in (used - k + 1)..used : Visible(i)
        PROVE  /\ m - Len(ev) \in Nat /\ m - Len(ev) <= m
               /\ ToSet(ev) = {i \in (m - Len(ev) + 1)..m : Visible(i)}
               /\ \A i, j \in DOMAIN ev : i < j => ev[i] < ev[j]
    <3>1. Len(ev) = k /\ DOMAIN ev = 1..k /\ m - k \in Nat
      BY <1>4, <2>1 DEF Takes
    <3>2. \A i \in 1..k : ev[i] = m - k + i
      BY <1>4, <2>1
    <3>3. ToSet(ev) = (m - k + 1)..m
      <4>1. ASSUME NEW x \in (m - k + 1)..m
            PROVE  \E i \in 1..k : ev[i] = x
        <5>1. x - (m - k) \in 1..k /\ m - k + (x - (m - k)) = x
          BY <3>1
        <5> QED
          BY <3>2, <5>1
      <4>2. \A i \in 1..k : ev[i] \in (m - k + 1)..m
        BY <3>1, <3>2
      <4>3. ToSet(ev) = {ev[i] : i \in 1..k}
        BY <3>1 DEF ToSet
      <4> QED
        BY <4>1, <4>2, <4>3
    <3>4. (m - k + 1)..m = {i \in (m - k + 1)..m : Visible(i)}
      BY <1>4, <2>1
    <3>5. \A i, j \in DOMAIN ev : i < j => ev[i] < ev[j]
      BY <3>1, <3>2
    <3> QED
      BY <3>1, <3>3, <3>4, <3>5
  <2>3. CASE ev = <<>>
    <3>1. Len(<<>>) = 0 /\ ToSet(<<>>) = {} /\ DOMAIN <<>> = {}
      BY DEF ToSet
    <3>2. (m - 0 + 1)..m = {}
      OBVIOUS
    <3> QED
      BY <2>3, <3>1, <3>2
  <2> QED
    BY <1>1, <2>1, <2>3 DEF Sending
<1>6. PICK n \in Nat : n = m - Len(ev)
  BY <1>5
<1>7. Carries(Sent, n)
  BY <1>2, <1>4, <1>6 DEF InOrder
<1>8. Carries(Append(Sent, ev), m)
  BY <1>3, <1>5, <1>6, <1>7, CarriesMore
<1>9. Carries(Sent, m)'
  BY <1>1, <1>3, <1>8, CarriesStill
<1> QED
  BY <1>2, <1>4, <1>9 DEF InOrder

LEMMA OrderInject ==
  ASSUME StreamInv, InOrder, Inject
  PROVE  InOrder'
<1> USE Numbers DEF StreamInv, PumpInv
<1>1. /\ pc = "none" /\ pc' = "none" /\ used' = used + 1 /\ input' = input
      /\ queue' = Append(queue, NextItems(1)) /\ received' = received
      /\ platform = "bypass" /\ used + 1 <= Len(input)
  BY DEF Inject, Idle, terminal, pump
<1>2. SentUpto = {used} /\ SentUpto' = {used'}
  BY <1>1 DEF SentUpto
<1>3. PICK n \in Nat : n = used
  OBVIOUS
<1>4. PICK m \in Nat : m = used + 1
  OBVIOUS
<1>n. NextItems(1) = <<m>>
  BY <1>4 DEF NextItems
<1>5. <<m>> \in Seq(Items) /\ m = n + 1 /\ n <= m
  BY <1>1, <1>3, <1>4 DEF Items
<1>6. Sent' = Append(Sent, <<m>>) /\ Sent \in Seq(Seq(Items))
  BY <1>1, <1>4, <1>5, <1>n, PutIsSent, SentSays
<1>7. /\ ToSet(<<m>>) = {i \in (n + 1)..m : Visible(i)}
      /\ \A i, j \in DOMAIN <<m>> : i < j => <<m>>[i] < <<m>>[j]
  <2>1. ToSet(<<m>>) = {m} /\ DOMAIN <<m>> = {1}
    BY DEF ToSet
  <2>2. Visible(m) /\ (n + 1)..m = {m}
    BY <1>1, <1>4, <1>5 DEF Visible, Records
  <2> QED
    BY <2>1, <2>2
<1>8. Carries(Sent, n)
  BY <1>2, <1>3 DEF InOrder
<1>9. Carries(Append(Sent, <<m>>), m)
  <2>1. PICK e \in Seq(Items) : e = <<m>>
    BY <1>5
  <2>2. PICK s \in Seq(Seq(Items)) : s = Sent
    BY <1>6
  <2>3. /\ ToSet(e) = {i \in (n + 1)..m : Visible(i)}
        /\ \A i, j \in DOMAIN e : i < j => e[i] < e[j]
    BY <1>7, <2>1
  <2>4. Carries(Append(s, e), m)
    BY <1>5, <1>8, <2>2, <2>3, CarriesMore
  <2> QED
    BY <2>1, <2>2, <2>4
<1>10. Carries(Sent, m)'
  BY <1>1, <1>6, <1>9, CarriesStill
<1> QED
  BY <1>1, <1>2, <1>4, <1>10 DEF InOrder

LEMMA OrderStep ==
  ASSUME StreamInv, InOrder, [Next]_vars
  PROVE  InOrder'
<1> USE DEF At
<1>1. CASE DecodeEvent \/ WaitFails \/ FaultInSequence \/ ReadRecord
  BY <1>1, OrderDecoded
<1>2. CASE Send \/ Inject
  BY <1>2, OrderSend, OrderInject
<1>3. CASE Receive
  <2>1. Sent' = Sent
    BY <1>3, ReceiveKeepsSent DEF StreamInv, PumpInv
  <2> QED
    BY <1>3, <2>1, OrderKept DEF Receive, terminal, reading, pump, SentUpto
<1>4. CASE LoopClosed \/ ReadEOF \/ Cancelled \/ RetryClosed \/ SendClosed \/ Fault
  <2>1. /\ pc # "exited" /\ UNCHANGED <<input, used, ev, queue, received>>
        /\ pc' = "exited" \/ (pc' \in {"retry", "loop"} /\ pc # "send")
    BY <1>4 DEF LoopClosed, ReadEOF, Cancelled, RetryClosed, SendClosed, Fault, Exit,
           terminal, reading, channel
  <2> QED
    BY <2>1, OrderKept DEF Sent, SentUpto
<1>5. CASE InjectClosed \/ (\E c \in Closers : CloseDone(c) \/ CloseChan(c))
           \/ Arrive \/ HangUp \/ Leave \/ Crashed \/ UNCHANGED vars
           \/ (\E c \in Closers : Enter(c) \/ platformClose(c))
  <2>1. UNCHANGED <<input, used, pc, ev, queue, received>>
    BY <1>5 DEF InjectClosed, CloseDone, CloseChan, Arrive, HangUp, Leave, Crashed, Enter,
           platformClose, vars, terminal, reading, pump, channel
  <2> QED
    BY <2>1, OrderKept DEF Sent, SentUpto
<1>6. CASE GetEventChan \/ StartRead \/ ReadBytes \/ RetryTimer
  <2>1. /\ pc \notin {"send", "exited"} /\ pc' \notin {"send", "exited"}
        /\ UNCHANGED <<input, used, queue, received>>
    BY <1>6 DEF GetEventChan, StartRead, ReadBytes, RetryTimer, terminal, reading, channel
  <2> QED
    BY <2>1, OrderKept DEF Sent, SentUpto
<1> QED
  BY <1>1, <1>2, <1>3, <1>4, <1>5, <1>6 DEF Next, Pump

\* The pump comes to an end that nobody asked for only where the terminal
\* hung up and everything that arrived was read, decoded and sent.
LEMMA LostStep ==
  ASSUME StreamInv, InOrder, NothingLostAtEOF, [Next]_vars
  PROVE  NothingLostAtEOF'
<1> USE Numbers DEF StreamInv, PumpInv, At
<1>1. SUFFICES ASSUME pc' = "exited", ~done', streak' <= MaxRetries
               PROVE  hangup' /\ Carries(Sent, arrived)'
  BY DEF NothingLostAtEOF
<1>2. ~done /\ ~stopped
  <2>1. done => done'
    BY ConstantFrame
  <2> QED
    BY <1>1, <2>1 DEF StopDone
<1>3. CASE pc = "exited"
  <2>1. UNCHANGED <<input, streak, hangup, arrived>> /\ Sent' = Sent
    <3>1. CASE Receive
      BY <1>3, <3>1, ReceiveKeepsSent DEF Receive, terminal, pump
    <3>2. CASE Leave
      BY <3>2 DEF Leave, terminal, pump, Sent
    <3>3. CASE ~Receive /\ ~Leave
      <4>1. UNCHANGED <<input, streak, queue, received>>
        BY <1>3, <3>3 DEF Next, Pump, Arrive, HangUp, GetEventChan, LoopClosed, DecodeEvent,
           StartRead, ReadBytes, WaitFails, ReadEOF, ReadRecord, Cancelled, Fault,
           FaultInSequence, RetryTimer, RetryClosed, Send, SendClosed, Inject, Idle,
           InjectClosed, Enter, CloseDone, CloseChan, platformClose, Crashed, vars,
           terminal, pump, channel
      <4>2. hangup
        BY <1>1, <1>2, <1>3, <4>1 DEF NothingLostAtEOF
      <4>3. UNCHANGED <<hangup, arrived>>
        BY <1>3, <3>3, <4>2 DEF Next, Pump, Arrive, HangUp, GetEventChan, LoopClosed,
           DecodeEvent, StartRead, ReadBytes, WaitFails, ReadEOF, ReadRecord, Cancelled,
           Fault, FaultInSequence, RetryTimer, RetryClosed, Send, SendClosed, Inject, Idle,
           InjectClosed, Enter, CloseDone, CloseChan, platformClose, Crashed, vars, terminal
      <4> QED
        BY <4>1, <4>3 DEF Sent
    <3> QED
      BY <3>1, <3>2, <3>3
  <2>2. hangup /\ Carries(Sent, arrived)
    BY <1>1, <1>2, <1>3, <2>1 DEF NothingLostAtEOF
  <2>3. PICK n : n = arrived
    OBVIOUS
  <2>4. Carries(Sent, n)'
    BY <2>1, <2>2, <2>3, CarriesStill
  <2> QED
    BY <2>1, <2>2, <2>3, <2>4
<1>4. CASE pc # "exited"
  <2>1. ReadEOF \/ Fault
    BY <1>1, <1>2, <1>4, OthersFrame DEF Next, Pump, GetEventChan, LoopClosed, DecodeEvent,
         StartRead, ReadBytes, WaitFails, ReadRecord, Cancelled, FaultInSequence, RetryTimer,
         RetryClosed, Send, SendClosed, Inject, Return, pump
  <2>2. ~Fault
    <3>1. ASSUME Fault
          PROVE  FALSE
      <4>1. /\ pc = "read" /\ streak' = streak + 1 /\ ~Half
            /\ ~(retries < MaxRetries)
        BY <1>1, <3>1 DEF Fault
      <4>2. Buffered = 0
        BY <4>1 DEF ReadsEmpty, Buffered
      <4>3. streak = retries
        BY <1>4, <4>2 DEF Retrying
      <4> QED
        BY <1>1, <4>1, <4>3
    <3> QED
      BY <3>1
  <2>3. /\ pc = "read" /\ hangup /\ arrived = taken /\ ~Half
        /\ UNCHANGED <<input, hangup, arrived, queue, received>>
    BY <1>1, <1>2, <2>1, <2>2 DEF ReadEOF, Interrupted, AtEOF, Exit, terminal
  <2>4. PICK n : n = arrived
    OBVIOUS
  <2>5. Carries(Sent, n)
    BY <2>3, <2>4 DEF InOrder, SentUpto, ReadsEmpty
  <2>6. Carries(Sent, n)'
    <3>1. Sent' = Sent
      BY <2>3 DEF Sent
    <3> QED
      BY <2>3, <2>5, <3>1, CarriesStill
  <2> QED
    BY <2>3, <2>4, <2>6
<1> QED
  BY <1>3, <1>4

LEMMA OrderInvInit == Init => OrderInv
<1> SUFFICES ASSUME Init
             PROVE  OrderInv
  OBVIOUS
<1>1. Sent = <<>> /\ SentUpto = {0} /\ pc = "none"
  BY DEF Init, Sent, SentUpto
<1>2. Carries(<<>>, 0)
  <2>1. DOMAIN <<>> = {} /\ 1..0 = {}
    OBVIOUS
  <2> QED
    BY <2>1 DEF Carries
<1> QED
  BY <1>1, <1>2, StreamInvInit DEF OrderInv, InOrder, NothingLostAtEOF

LEMMA OrderInvHolds == Spec => []OrderInv
<1>1. OrderInv /\ [Next]_vars => OrderInv'
  BY StreamInvStep, OrderStep, LostStep DEF OrderInv
<1> QED
  BY OrderInvInit, <1>1, PTL DEF Spec

\* The channel carries the items of the input in order, none twice and none
\* left out, whatever the platform, the capacity and the number of closers.
THEOREM ItemsInOrder == Spec => []InOrder
<1>1. OrderInv => InOrder
  BY DEF OrderInv
<1> QED
  BY <1>1, OrderInvHolds, PTL

\* A pump that ends by itself has sent all that arrived, unless it met
\* MaxRetries + 1 errors in a row: also an ESC that was still in the buffer.
THEOREM NothingLost == Spec => []NothingLostAtEOF
<1>1. OrderInv => NothingLostAtEOF
  BY DEF OrderInv
<1> QED
  BY <1>1, OrderInvHolds, PTL
=============================================================================
