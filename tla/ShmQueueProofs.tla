--------------------------- MODULE ShmQueueProofs ---------------------------
(***************************************************************************)
(* Proofs about ShmQueue for every size of the ring and every set of       *)
(* messages.                                                               *)
(***************************************************************************)
EXTENDS ShmQueue, SequenceTheorems, TLAPS

(* The next index stays in the ring and wraps at its end only              *)
(* (shm_queue.c, the update of head and of tail).                          *)
LEMMA AdvanceWraps ==
  ASSUME NEW i \in Slots
  PROVE  /\ Advance(i) \in Slots
         /\ Advance(i) = IF i + 1 = Size THEN 0 ELSE i + 1
<1>1. CASE i + 1 = Size
  <2>1. Size % Size = 0
    BY SizeAssumption
  <2>2. QED
    BY <1>1, <2>1, SizeAssumption DEF Advance, Slots
<1>2. CASE i + 1 # Size
  <2>1. i + 1 \in 0 .. Size - 1
    BY <1>2, SizeAssumption DEF Slots
  <2>2. (i + 1) % Size = i + 1
    BY <2>1, SizeAssumption
  <2>3. QED
    BY <1>2, <2>1, <2>2, SizeAssumption DEF Advance, Slots
<1>3. QED
  BY <1>1, <1>2

(* Every variable keeps its type: in particular head and tail stay indices *)
(* of slots.                                                               *)
THEOREM TypeCorrect == Spec => []TypeOK
<1>1. Init => TypeOK
  BY SizeAssumption DEF Init, TypeOK, Slots, Cells, CellBytes, Blank
<1>2. TypeOK /\ [Next]_vars => TypeOK'
  <2> SUFFICES ASSUME TypeOK, [Next]_vars
               PROVE  TypeOK'
    OBVIOUS
  <2> USE DEF TypeOK, writer, reader
  <2>1. ASSUME NEW m \in Messages, PushCheck(m)
        PROVE  TypeOK'
    BY <2>1 DEF PushCheck
  <2>2. CASE WriteHeader
    BY <2>2 DEF WriteHeader, Header, CellBytes
  <2>3. CASE WritePayload
    <3>1. head + 1 \in Cells
      BY SizeAssumption DEF Slots, Cells
    <3>2. hdr' \in [Cells -> CellBytes]
      BY <2>3, <3>1 DEF WritePayload, Spill, CellBytes
    <3>3. body' \in [Slots -> Messages \cup {Nothing}]
      BY <2>3 DEF WritePayload
    <3>4. QED
      BY <2>3, <3>2, <3>3 DEF WritePayload
  <2>4. CASE PushEnd
    <3>1. head' \in Slots
      BY <2>4, AdvanceWraps DEF PushEnd
    <3>2. QED
      BY <2>4, <3>1 DEF PushEnd
  <2>5. CASE WriterCrash
    BY <2>5 DEF WriterCrash
  <2>6. CASE PopZc
    BY <2>6 DEF PopZc
  <2>7. CASE PopCheck
    BY <2>7 DEF PopCheck
  <2>8. CASE PopTooSmall
    BY <2>8 DEF PopTooSmall
  <2>9. CASE PopCopy
    BY <2>9 DEF PopCopy, Content
  <2>10. CASE PopEnd
    <3>1. tail' \in Slots
      BY <2>10, AdvanceWraps DEF PopEnd
    <3>2. QED
      BY <2>10, <3>1 DEF PopEnd
  <2>11. CASE ReaderCrash
    BY <2>11 DEF ReaderCrash
  <2>12. CASE UNCHANGED vars
    BY <2>12 DEF vars
  <2>13. QED
    BY <2>1, <2>2, <2>3, <2>4, <2>5, <2>6, <2>7, <2>8, <2>9, <2>10, <2>11, <2>12
    DEF Next, Write, Read
<1>3. QED
  BY <1>1, <1>2, PTL DEF Spec

-----------------------------------------------------------------------------
(* A claim outlives the other side's steps: the writer only shortens the   *)
(* free part of the ring, by its own slot, and the reader only the used    *)
(* part.  So the full check of push_alloc is still good at push_alloc_end, *)
(* and the empty check of pop_zc at pop_zc_end.                            *)
LEMMA ClaimsHoldStep == TypeOK /\ ClaimsHold /\ [Next]_vars => ClaimsHold'
<1> SUFFICES ASSUME TypeOK, ClaimsHold, [Next]_vars
             PROVE  ClaimsHold'
  OBVIOUS
<1> USE DEF TypeOK, ClaimsHold, writer, reader, IsFull, IsEmpty, Accepted
<1>1. ASSUME NEW m \in Messages, PushCheck(m)
      PROVE  ClaimsHold'
  BY <1>1 DEF PushCheck, Advance
<1>2. CASE WriteHeader
  BY <1>2 DEF WriteHeader, Advance
<1>3. CASE WritePayload
  BY <1>3 DEF WritePayload, Advance
<1>4. CASE PushEnd
  <2>1. head' # tail'
    BY <1>4 DEF PushEnd
  <2>2. QED
    BY <1>4, <2>1 DEF PushEnd
<1>5. CASE WriterCrash
  BY <1>5 DEF WriterCrash
<1>6. CASE PopZc
  BY <1>6 DEF PopZc, Advance
<1>7. CASE PopCheck
  BY <1>7 DEF PopCheck, Advance
<1>8. CASE PopTooSmall
  BY <1>8 DEF PopTooSmall, Advance
<1>9. CASE PopCopy
  BY <1>9 DEF PopCopy, Advance
<1>10. CASE PopEnd
  <2>1. head # tail
    BY <1>10 DEF PopEnd
  <2>2. Advance(head) # Advance(tail)
    BY <2>1, AdvanceWraps, SizeAssumption DEF Slots
  <2>3. Advance(head)' = Advance(head) /\ tail' = Advance(tail)
    BY <1>10 DEF PopEnd, Advance
  <2>4. QED
    BY <1>10, <2>2, <2>3 DEF PopEnd
<1>11. CASE ReaderCrash
  BY <1>11 DEF ReaderCrash, Advance
<1>12. CASE UNCHANGED vars
  BY <1>12 DEF vars, Advance
<1>13. QED
  BY <1>1, <1>2, <1>3, <1>4, <1>5, <1>6, <1>7, <1>8, <1>9, <1>10, <1>11, <1>12
  DEF Next, Write, Read

\* Together: what writer and reader rely on holds in every reachable state.
THEOREM ClaimsCorrect == Spec => [](TypeOK /\ ClaimsHold)
<1>1. Init => ClaimsHold
  BY DEF Init, ClaimsHold
<1>2. QED
  BY <1>1, ClaimsHoldStep, TypeCorrect, PTL DEF Spec

(* Room the writer found at the full check is still there when it          *)
(* publishes, so head never meets tail from behind, for every ring of at   *)
(* least two slots and wherever the processes die (shm_queue_push).        *)
THEOREM WriterSlotOwned == Spec => []WriterOwnsItsSlot
<1>1. TypeOK /\ ClaimsHold => WriterOwnsItsSlot
  <2> SUFFICES ASSUME TypeOK, ClaimsHold, wpc # "idle"
               PROVE  Count + 2 <= Size
    BY DEF WriterOwnsItsSlot
  <2>1. /\ head \in Slots /\ tail \in Slots
        /\ Advance(head) = IF head + 1 = Size THEN 0 ELSE head + 1
        /\ Advance(head) # tail
    BY AdvanceWraps DEF TypeOK, ClaimsHold, IsFull
  <2>2. QED
    BY <2>1, SizeAssumption DEF Count, Slots
<1>2. QED
  BY <1>1, ClaimsCorrect, PTL

(* The slot a reader looks at without a lock stays a published one until   *)
(* it releases it (shm_queue_pop, shm_queue_pop_zc).                       *)
THEOREM ReaderSlotOwned == Spec => []ReaderOwnsItsSlot
<1>1. TypeOK /\ ClaimsHold => ReaderOwnsItsSlot
  BY SizeAssumption
  DEF TypeOK, ClaimsHold, ReaderOwnsItsSlot, Unread, IsEmpty, Slots
<1>2. QED
  BY <1>1, ClaimsCorrect, PTL

-----------------------------------------------------------------------------
\* No message the size check lets through is longer than what the slot has
\* left behind its header.
AllFit == \A m \in Messages : Accepted(m) => Fits(m)

(* A published slot stays whole until it is released, and nothing is       *)
(* written behind the last one, when no payload exceeds the slot.          *)
LEMMA SlotsWholeStep ==
  ASSUME AllFit, TypeOK, ClaimsHold, SlotsWhole, [Next]_vars
  PROVE  SlotsWhole'
<1> USE AllFit, TypeOK, ClaimsHold, SlotsWhole, SizeAssumption, MessageAssumption
<1> USE DEF writer, reader
<1>a. /\ head \in Slots /\ tail \in Slots
      /\ Advance(head) \in Slots /\ Advance(tail) \in Slots
      /\ Advance(head) = IF head + 1 = Size THEN 0 ELSE head + 1
      /\ Advance(tail) = IF tail + 1 = Size THEN 0 ELSE tail + 1
  BY AdvanceWraps DEF TypeOK
<1>b. Unread \subseteq Slots /\ head \notin Unread
  BY <1>a DEF Unread, Slots
<1>1. ASSUME NEW m \in Messages, PushCheck(m)
      PROVE  SlotsWhole'
  BY <1>1 DEF PushCheck, SlotsWhole, Unread, Whole
<1>2. CASE WriteHeader
  <2>1. hdr'[head] = Header(wmsg) /\ hdr'[Size] = Blank
    BY <1>2, <1>a DEF WriteHeader, TypeOK, Slots, Cells, SlotsWhole
  <2>2. Unread' = Unread
    BY <1>2 DEF WriteHeader, Unread
  <2>3. \A i \in Unread : Whole(i)'
    BY <1>2, <1>a, <1>b DEF WriteHeader, TypeOK, Slots, Cells, SlotsWhole, Whole
  <2>4. QED
    BY <1>2, <2>1, <2>2, <2>3 DEF WriteHeader, SlotsWhole
<1>3. CASE WritePayload
  <2>1. Fits(wmsg) /\ hdr' = hdr
    BY <1>3 DEF WritePayload, ClaimsHold, AllFit
  <2>2. body'[head] = wmsg /\ \A i \in Unread : body'[i] = body[i]
    BY <1>3, <1>a, <1>b DEF WritePayload, TypeOK
  <2>3. Unread' = Unread
    BY <1>3 DEF WritePayload, Unread
  <2>4. \A i \in Unread : Whole(i)'
    BY <2>1, <2>2 DEF SlotsWhole, Whole
  <2>5. rpc = "copied" => tail \in Unread
    BY <1>a DEF ClaimsHold, IsEmpty, Unread, Slots
  <2>6. QED
    BY <1>3, <2>1, <2>2, <2>3, <2>4, <2>5 DEF WritePayload, SlotsWhole
<1>4. CASE PushEnd
  <2>1. Unread' \subseteq Unread \cup {head}
    BY <1>4, <1>a DEF PushEnd, Unread, Slots
  <2>2. Whole(head)
    BY <1>4 DEF PushEnd, SlotsWhole, Whole, ClaimsHold, AllFit
  <2>3. \A i \in Unread' : Whole(i)'
    BY <1>4, <2>1, <2>2 DEF PushEnd, SlotsWhole, Whole
  <2>4. QED
    BY <1>4, <2>3 DEF PushEnd, SlotsWhole
<1>5. CASE WriterCrash
  BY <1>5 DEF WriterCrash, SlotsWhole, Unread, Whole
<1>6. CASE PopZc
  BY <1>6 DEF PopZc, SlotsWhole, Unread, Whole
<1>7. CASE PopCheck
  BY <1>7 DEF PopCheck, SlotsWhole, Unread, Whole
<1>8. CASE PopTooSmall
  BY <1>8 DEF PopTooSmall, SlotsWhole, Unread, Whole
<1>9. CASE PopCopy
  <2>1. tail \in Unread
    BY <1>9, <1>a DEF PopCopy, ClaimsHold, IsEmpty, Unread, Slots
  <2>2. Content(tail) = body[tail]
    BY <2>1 DEF SlotsWhole, Whole, Content
  <2>3. QED
    BY <1>9, <2>2 DEF PopCopy, SlotsWhole, Unread, Whole
<1>10. CASE PopEnd
  <2>1. Unread' \subseteq Unread
    BY <1>10, <1>a DEF PopEnd, Unread, Slots, ClaimsHold, IsEmpty
  <2>2. \A i \in Unread' : Whole(i)'
    BY <1>10, <2>1 DEF PopEnd, SlotsWhole, Whole
  <2>3. QED
    BY <1>10, <2>2 DEF PopEnd, SlotsWhole
<1>11. CASE ReaderCrash
  BY <1>11 DEF ReaderCrash, SlotsWhole, Unread, Whole
<1>12. CASE UNCHANGED vars
  BY <1>12 DEF vars, SlotsWhole, Unread, Whole
<1>13. QED
  BY <1>1, <1>2, <1>3, <1>4, <1>5, <1>6, <1>7, <1>8, <1>9, <1>10, <1>11, <1>12
  DEF Next, Write, Read

RingInv == TypeOK /\ ClaimsHold /\ SlotsWhole

\* The published slots are whole in every reachable state.
LEMMA RingInvariant ==
  ASSUME AllFit
  PROVE  Spec => []RingInv
<1>1. Init => SlotsWhole
  BY SizeAssumption DEF Init, SlotsWhole, Unread, Slots, Cells
<1>2. TypeOK /\ ClaimsHold /\ SlotsWhole /\ [Next]_vars => SlotsWhole'
  BY AllFit, SlotsWholeStep
<1>3. QED
  BY <1>1, <1>2, ClaimsCorrect, PTL DEF Spec, RingInv

(* If no accepted payload is longer than the slot, whatever is published   *)
(* is found whole.  The assumption is needed: push and push_alloc do not   *)
(* count the header.                                                       *)
THEOREM MessagesStayIntact ==
  ASSUME AllFit
  PROVE  Spec => []MessagesIntact
<1>1. RingInv => MessagesIntact
  BY MessageAssumption
  DEF RingInv, SlotsWhole, Whole, MessagesIntact, Content
<1>2. QED
  BY <1>1, RingInvariant, AllFit, PTL

(* Under the same assumption no write reaches the queue of the endpoint    *)
(* that lies behind this one.                                              *)
THEOREM NeighbourStaysIntact ==
  ASSUME AllFit
  PROVE  Spec => []NeighbourIntact
<1>1. RingInv => NeighbourIntact
  BY MessageAssumption
  DEF RingInv, SlotsWhole, Whole, NeighbourIntact, Content
<1>2. QED
  BY <1>1, RingInvariant, AllFit, PTL

-----------------------------------------------------------------------------
\* The ring implements the channel.

QueueOK ==
  /\ Count \in 0 .. Size - 1
  /\ \A k \in 1 .. Count : SlotAt(k) \in Unread
  /\ \A i \in Unread : Content(i) = body[i] /\ body[i] \in Messages
  /\ Queue \in Seq(Messages)
  /\ Len(Queue) = Count
  /\ \A k \in 1 .. Count : Queue[k] = body[SlotAt(k)]
  /\ Count > 0 => Head(Queue) = body[tail]

\* What the invariant says of the queue as the channel sees it, now ...
LEMMA QueueType == RingInv => QueueOK
<1> SUFFICES ASSUME RingInv
             PROVE  QueueOK
  OBVIOUS
<1> USE SizeAssumption, MessageAssumption
<1>1. Count \in 0 .. Size - 1
  BY DEF RingInv, TypeOK, Slots, Count
<1>2. \A k \in 1 .. Count : SlotAt(k) \in Unread
  BY DEF RingInv, TypeOK, Slots, Count, SlotAt, Unread
<1>3. \A i \in Unread : Content(i) = body[i] /\ body[i] \in Messages
  BY DEF RingInv, SlotsWhole, Whole, Content
<1>4. Queue = [k \in 1 .. Count |-> body[SlotAt(k)]]
  BY <1>2, <1>3 DEF Queue
<1>5. Queue \in Seq(Messages) /\ Len(Queue) = Count
  BY <1>1, <1>2, <1>3, <1>4
<1>6. Count > 0 => SlotAt(1) = tail
  BY DEF RingInv, TypeOK, Slots, SlotAt
<1>7. Count > 0 => Head(Queue) = body[tail]
  BY <1>1, <1>4, <1>5, <1>6
<1>8. QED
  BY <1>1, <1>2, <1>3, <1>4, <1>5, <1>7 DEF QueueOK

\* ... and after a step.
LEMMA QueueTypeNext == RingInv' => QueueOK'
BY QueueType, PTL

HandOK ==
  Hand = IF rpc \in {"holding", "copied"} THEN body[tail] ELSE Nothing

\* What the reader has in its hand is what the front slot was filled with, now ...
LEMMA HandType == RingInv => HandOK
<1> SUFFICES ASSUME RingInv
             PROVE  HandOK
  OBVIOUS
<1>1. rpc \in {"holding", "copied"} => tail \in Unread
  BY SizeAssumption DEF RingInv, TypeOK, ClaimsHold, IsEmpty, Unread, Slots
<1>2. rpc = "holding" => Content(tail) = body[tail]
  BY <1>1, QueueType DEF QueueOK
<1>3. rpc = "copied" => rbuf = body[tail]
  BY DEF RingInv, SlotsWhole
<1>4. QED
  BY <1>2, <1>3 DEF Hand, HandOK

\* ... and after a step.
LEMMA HandTypeNext == RingInv' => HandOK'
BY HandType, PTL

\* A step that publishes nothing, releases nothing and moves no published
\* byte leaves the channel's queue as it is.
LEMMA QueueUnchanged ==
  ASSUME RingInv, RingInv', UNCHANGED <<head, tail>>,
         \A i \in Unread : body'[i] = body[i]
  PROVE  Queue' = Queue
<1>1. Count' = Count /\ \A k \in 1 .. Count : SlotAt(k)' = SlotAt(k)
  BY DEF Count, SlotAt
<1>2. QueueOK /\ QueueOK'
  BY QueueType, QueueTypeNext
<1>3. \A k \in 1 .. Count : Queue'[k] = Queue[k]
  BY <1>1, <1>2 DEF QueueOK
<1>4. Len(Queue') = Len(Queue) /\ \A k \in 1 .. Len(Queue) : Queue'[k] = Queue[k]
  BY <1>1, <1>2, <1>3 DEF QueueOK
<1>5. Queue \in Seq(Messages) /\ Queue' \in Seq(Messages)
  BY <1>2 DEF QueueOK
<1>6. QED
  BY <1>4, <1>5, SeqEqual

\* push and push_alloc_end append the writer's message.
LEMMA PushEndSends ==
  ASSUME RingInv, RingInv', PushEnd
  PROVE  \E m \in Messages : Channel!Send(m)
<1> USE SizeAssumption DEF writer, reader
<1>1. /\ head \in Slots /\ tail \in Slots
      /\ Advance(head) = IF head + 1 = Size THEN 0 ELSE head + 1
      /\ Advance(head) # tail
      /\ wmsg \in Messages /\ body[head] = wmsg
  BY AdvanceWraps
  DEF PushEnd, RingInv, TypeOK, ClaimsHold, IsFull, SlotsWhole
<1>2. QueueOK /\ QueueOK'
  BY QueueType, QueueTypeNext
<1>3. /\ Count < Size - 1 /\ Count' = Count + 1
      /\ SlotAt(Count + 1) = head
      /\ \A k \in 1 .. Count + 1 : SlotAt(k)' = SlotAt(k)
  BY <1>1 DEF PushEnd, Slots, Count, SlotAt
<1>4. body' = body /\ Count \in Nat
  BY <1>2 DEF PushEnd, QueueOK
<1> DEFINE appended == Append(Queue, wmsg)
<1>5. /\ appended \in Seq(Messages) /\ Len(appended) = Count + 1
      /\ \A k \in 1 .. Count : appended[k] = Queue[k]
      /\ appended[Count + 1] = wmsg
  BY <1>1, <1>2, AppendProperties DEF QueueOK
<1>6. \A k \in 1 .. Count + 1 : Queue'[k] = body[SlotAt(k)]
  BY <1>2, <1>3, <1>4 DEF QueueOK
<1>7. \A k \in 1 .. Count + 1 : Queue'[k] = appended[k]
  <2>1. \A k \in 1 .. Count : Queue'[k] = appended[k]
    BY <1>2, <1>4, <1>5, <1>6 DEF QueueOK
  <2>2. Queue'[Count + 1] = appended[Count + 1]
    BY <1>1, <1>3, <1>4, <1>5, <1>6
  <2>3. \A k \in 1 .. Count + 1 : k \in 1 .. Count \/ k = Count + 1
    BY <1>4
  <2> HIDE DEF appended
  <2>4. QED
    BY <2>1, <2>2, <2>3
<1>8. Queue' = appended
  <2>1. Queue' \in Seq(Messages) /\ Len(Queue') = Len(appended)
    BY <1>2, <1>3, <1>5 DEF QueueOK
  <2>2. \A k \in 1 .. Len(Queue') : Queue'[k] = appended[k]
    BY <2>1, <1>5, <1>7
  <2>3. QED
    BY <2>1, <2>2, <1>5, SeqEqual
<1>9. Hand' = Hand
  <2>1. HandOK /\ HandOK'
    BY HandType, HandTypeNext
  <2>2. QED
    BY <2>1 DEF HandOK, PushEnd
<1>10. Channel!Send(wmsg)
  BY <1>2, <1>3, <1>8, <1>9 DEF Channel!Send, QueueOK
<1>11. QED
  BY <1>1, <1>10

\* The end of pop and pop_zc_end remove the message in the reader's hand.
LEMMA PopEndReleases ==
  ASSUME RingInv, RingInv', PopEnd
  PROVE  Channel!Release
<1> USE SizeAssumption DEF writer, reader
<1>1. /\ head \in Slots /\ tail \in Slots /\ head # tail
      /\ Advance(tail) = IF tail + 1 = Size THEN 0 ELSE tail + 1
  BY AdvanceWraps DEF PopEnd, RingInv, TypeOK, ClaimsHold, IsEmpty
<1>2. QueueOK /\ QueueOK'
  BY QueueType, QueueTypeNext
<1>3. /\ Count \in Nat /\ Count > 0 /\ Count' = Count - 1
      /\ \A k \in 1 .. Count - 1 : SlotAt(k)' = SlotAt(k + 1)
  BY <1>1 DEF PopEnd, Slots, Count, SlotAt
<1>4. body' = body
  BY DEF PopEnd
<1>5. Queue # <<>> /\ Queue \in Seq(Messages) /\ Len(Queue) = Count
  BY <1>2, <1>3 DEF QueueOK
<1>6. /\ Tail(Queue) \in Seq(Messages) /\ Len(Tail(Queue)) = Count - 1
      /\ \A k \in 1 .. Count - 1 : Tail(Queue)[k] = Queue[k + 1]
  BY <1>5, HeadTailProperties
<1>7. \A k \in 1 .. Count - 1 : Queue'[k] = Tail(Queue)[k]
  <2> SUFFICES ASSUME NEW k \in 1 .. Count - 1
               PROVE  Queue'[k] = Tail(Queue)[k]
    OBVIOUS
  <2>1. k \in 1 .. Count' /\ k + 1 \in 1 .. Count
    BY <1>3
  <2>2. Queue'[k] = body'[SlotAt(k)'] /\ Queue[k + 1] = body[SlotAt(k + 1)]
    BY <1>2, <2>1 DEF QueueOK
  <2>3. QED
    BY <1>3, <1>4, <1>6, <2>2
<1>8. Queue' = Tail(Queue)
  <2>1. Queue' \in Seq(Messages) /\ Len(Queue') = Count - 1
    BY <1>2, <1>3 DEF QueueOK
  <2>2. QED
    BY <1>6, <1>7, <2>1, SeqEqual
<1>9. Hand \in Messages /\ Hand' = Nothing
  <2>1. HandOK /\ HandOK'
    BY HandType, HandTypeNext
  <2>2. tail \in Unread
    BY <1>1 DEF Unread, Slots
  <2>3. body[tail] \in Messages
    BY <1>2, <2>2 DEF QueueOK
  <2>4. QED
    BY <2>1, <2>3 DEF HandOK, PopEnd
<1>10. QED
  BY <1>8, <1>9, MessageAssumption DEF Channel!Release

(* Every behaviour of the ring is a behaviour of the bounded channel, when *)
(* no accepted payload exceeds the slot: in order, nothing lost, nothing   *)
(* torn, at least once, for every ring size and every message set.         *)
THEOREM RingImplementsChannel ==
  ASSUME AllFit
  PROVE  Spec => IsChannel
<1>1. Init => Channel!Init
  BY SizeAssumption DEF Init, Channel!Init, Queue, Hand, Count
<1>2. RingInv /\ RingInv' /\ [Next]_vars => [Channel!Next]_(Channel!vars)
  <2> SUFFICES ASSUME RingInv, RingInv', [Next]_vars
               PROVE  [Channel!Next]_(Channel!vars)
    OBVIOUS
  <2> USE DEF writer, reader
  <2>a. QueueOK /\ QueueOK' /\ HandOK /\ HandOK'
    BY QueueType, QueueTypeNext, HandType, HandTypeNext
  <2>b. ASSUME Queue' = Queue, Hand' = Hand
        PROVE  [Channel!Next]_(Channel!vars)
    BY <2>b DEF Channel!vars
  <2>c. ASSUME Queue' = Queue, Hand = Nothing, Count > 0, Hand' = body[tail]
        PROVE  Channel!Take
    BY <2>a, <2>c DEF Channel!Take, QueueOK
  <2>d. ASSUME Queue' = Queue, rpc' = "idle"
        PROVE  [Channel!Next]_(Channel!vars)
    BY <2>a, <2>d DEF HandOK, Channel!Next, Channel!Abandon, Channel!vars
  <2>e. rpc # "idle" => tail \in Unread /\ Count > 0
    BY SizeAssumption
    DEF RingInv, TypeOK, ClaimsHold, IsEmpty, Unread, Slots, Count
  <2>f. ASSUME UNCHANGED <<head, tail, body>>
        PROVE  Queue' = Queue
    BY <2>f, QueueUnchanged
  <2>1. ASSUME NEW m \in Messages, PushCheck(m)
        PROVE  [Channel!Next]_(Channel!vars)
    BY <2>1, <2>a, <2>b, <2>f DEF PushCheck, HandOK
  <2>2. CASE WriteHeader
    BY <2>2, <2>a, <2>b, <2>f DEF WriteHeader, HandOK
  <2>3. CASE WritePayload
    <3>1. head \notin Unread /\ Unread \subseteq Slots
      BY SizeAssumption DEF RingInv, TypeOK, Unread, Slots
    <3>2. \A i \in Unread : body'[i] = body[i]
      BY <2>3, <3>1 DEF WritePayload, RingInv, TypeOK
    <3>3. Queue' = Queue
      BY <2>3, <3>2, QueueUnchanged DEF WritePayload
    <3>4. Hand' = Hand
      BY <2>3, <2>a, <2>e, <3>2 DEF WritePayload, HandOK
    <3>5. QED
      BY <3>3, <3>4, <2>b
  <2>4. CASE PushEnd
    BY <2>4, PushEndSends DEF Channel!Next
  <2>5. CASE WriterCrash
    BY <2>5, <2>a, <2>b, <2>f DEF WriterCrash, HandOK
  <2>6. CASE PopZc
    <3>1. Queue' = Queue /\ Hand = Nothing /\ Hand' = body[tail]
      BY <2>6, <2>a, <2>f DEF PopZc, HandOK
    <3>2. Count > 0
      BY <2>6, SizeAssumption DEF PopZc, IsEmpty, RingInv, TypeOK, Slots, Count
    <3>3. QED
      BY <3>1, <3>2, <2>c DEF Channel!Next
  <2>7. CASE PopCheck
    BY <2>7, <2>a, <2>b, <2>f DEF PopCheck, HandOK
  <2>8. CASE PopTooSmall
    BY <2>8, <2>d, <2>f DEF PopTooSmall
  <2>9. CASE PopCopy
    <3>1. Queue' = Queue /\ Hand = Nothing /\ Hand' = body[tail]
      BY <2>9, <2>a, <2>f DEF PopCopy, HandOK
    <3>2. QED
      BY <2>9, <3>1, <2>c, <2>e DEF PopCopy, Channel!Next
  <2>10. CASE PopEnd
    BY <2>10, PopEndReleases DEF Channel!Next
  <2>11. CASE ReaderCrash
    BY <2>11, <2>d, <2>f DEF ReaderCrash
  <2>12. CASE UNCHANGED vars
    BY <2>12, <2>a, <2>b, <2>f DEF vars, HandOK
  <2>13. QED
    BY <2>1, <2>2, <2>3, <2>4, <2>5, <2>6, <2>7, <2>8, <2>9, <2>10, <2>11, <2>12
    DEF Next, Write, Read
<1>3. QED
  BY <1>1, <1>2, RingInvariant, AllFit, PTL DEF Spec, IsChannel, Channel!Spec
=============================================================================
