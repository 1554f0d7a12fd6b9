-------------------------------- MODULE Fifo --------------------------------
(***************************************************************************)
(* What a one-way shared-memory channel promises its two ends: a bounded   *)
(* first-in first-out queue whose reader handles the oldest message in     *)
(* place and releases it afterwards.                                       *)
(*                                                                         *)
(* A message leaves the queue only when the reader has finished with it.   *)
(* A reader that dies with a message in its hand leaves it in the queue,   *)
(* so it will be handled again: delivery is in order, without loss, and    *)
(* at least once.                                                          *)
(***************************************************************************)
EXTENDS Naturals, Sequences

CONSTANTS
  Messages,   \* what can be sent
  Capacity,   \* how many messages the queue holds
  Nothing     \* the reader's hand is empty

VARIABLES
  queue,      \* the messages sent and not yet released, oldest first
  hand        \* the message the reader is handling, or Nothing

vars == <<queue, hand>>

TypeOK ==
  /\ queue \in Seq(Messages)
  /\ Len(queue) <= Capacity
  /\ hand \in Messages \cup {Nothing}

Init ==
  /\ queue = <<>>
  /\ hand = Nothing

Send(m) ==
  /\ Len(queue) < Capacity
  /\ queue' = Append(queue, m)
  /\ UNCHANGED hand

Take ==
  /\ hand = Nothing
  /\ queue # <<>>
  /\ hand' = Head(queue)
  /\ UNCHANGED queue

Release ==
  /\ hand # Nothing
  /\ queue' = Tail(queue)
  /\ hand' = Nothing

\* The reader dies, or gives the message up, before it has released it.
Abandon ==
  /\ hand # Nothing
  /\ hand' = Nothing
  /\ UNCHANGED queue

Next ==
  \/ \E m \in Messages : Send(m)
  \/ Take
  \/ Release
  \/ Abandon

Spec == Init /\ [][Next]_vars
=============================================================================
