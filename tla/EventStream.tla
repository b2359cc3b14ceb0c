----------------------------- MODULE EventStream -----------------------------
(***************************************************************************)
(* What EventChan promises the program that receives from it: the events   *)
(* of the input in order, each of the one to three items that follow the   *)
(* last event, none after the channel is closed, and everything that was   *)
(* put into it as long as it receives.  Closing may cost the one event     *)
(* that was about to be put.                                               *)
(***************************************************************************)
EXTENDS Integers, Sequences

CONSTANT QueueCap     \* capacity of EventChan

VARIABLES
  input,              \* the items, as in EventPump
  upto,               \* items accounted for
  queue, received,    \* events in the channel, events the program has
  gone,               \* the program has stopped receiving
  closed,             \* the channel is closed
  crashed             \* the program has panicked

vars == <<input, upto, queue, received, gone, closed, crashed>>

Init ==
  /\ input \in Seq({"key", "esc", "half", "rest", "other"})
  /\ upto = 0
  /\ queue = <<>> /\ received = <<>>
  /\ gone = FALSE /\ closed = FALSE /\ crashed = FALSE

\* An item by itself, an ESC or half a character with what it needs after it,
\* or the nil of a record that is no input event.
PutItems(n) ==
  /\ n > 1 => input[upto + 1] \in {"esc", "half"}
  /\ queue' = Append(queue, IF input[upto + 1] = "other"
                              THEN <<>> ELSE [k \in 1..n |-> upto + k])
  /\ upto' = upto + n

Put ==
  /\ ~closed /\ ~crashed /\ Len(queue) < QueueCap
  /\ \E n \in 1..3 : upto + n <= Len(input) /\ PutItems(n)
  /\ UNCHANGED <<input, received, gone, closed, crashed>>

\* The channel is drained also after it was closed.
Deliver ==
  /\ ~crashed /\ ~gone /\ queue # <<>>
  /\ received' = Append(received, Head(queue))
  /\ queue' = Tail(queue)
  /\ UNCHANGED <<input, upto, gone, closed, crashed>>

Leave ==
  /\ ~crashed /\ ~gone
  /\ gone' = TRUE
  /\ UNCHANGED <<input, upto, queue, received, closed, crashed>>

Shut ==
  /\ ~closed /\ ~crashed
  /\ closed' = TRUE
  /\ upto' \in upto..(upto + 3)
  /\ UNCHANGED <<input, queue, received, gone, crashed>>

Crash ==
  /\ ~crashed
  /\ crashed' = TRUE
  /\ UNCHANGED <<input, upto, queue, received, gone, closed>>

Next == Put \/ Deliver \/ Leave \/ Shut \/ Crash

SafeSpec == Init /\ [][Next]_vars
Spec     == SafeSpec /\ WF_vars(Deliver)
=============================================================================
