------------------------------ MODULE ShmQueue ------------------------------
(***************************************************************************)
(* The shared-memory ring of extern/amp-shm/src/shm_queue.c: one writing   *)
(* process and one reading process, no lock, a slot per message, one slot  *)
(* always free so that head = tail means empty.                            *)
(*                                                                         *)
(* The two processes interleave between any two of their accesses to the   *)
(* shared memory.  Each may die at any of these points; the memory         *)
(* outlives it and the process that replaces it starts from nothing else.  *)
(*                                                                         *)
(* A slot is data_size bytes: the header of shm_base_msg_t and then the    *)
(* payload.  Slots are contiguous and cell Size is the first one of what   *)
(* lies behind this queue, where the next endpoint's queue begins.  A      *)
(* payload longer than data_size less the header reaches the header of the *)
(* following cell.                                                         *)
(*                                                                         *)
(* A call that is refused (size 0 or larger than data_size, queue full,    *)
(* queue empty) changes nothing and has no action of its own.              *)
(***************************************************************************)
EXTENDS Naturals, Sequences

CONSTANTS
  Messages,   \* the messages a writer may send
  SizeOf,     \* the payload size of each
  Size,       \* queue->size, the number of slots
  DataSize,   \* queue->data_size, the bytes of a slot
  HdrSize,    \* offsetof(shm_base_msg_t, payload)
  BufSize,    \* the buffer a reader gives to shm_queue_pop
  ReadModes,  \* how readers read: "zc" (pop_zc, pop_zc_end), "copy" (pop)
  Nothing,    \* no message
  Garbled     \* bytes that are no message anyone sent

ASSUME SizeAssumption == Size \in Nat /\ Size >= 2
ASSUME MessageAssumption ==
  /\ SizeOf \in [Messages -> Nat]
  /\ DataSize \in Nat
  /\ HdrSize \in Nat
  /\ BufSize \in Nat
  /\ ReadModes \subseteq {"zc", "copy"}
  /\ Nothing \notin Messages
  /\ Garbled \notin Messages
  /\ Garbled # Nothing

VARIABLES
  head,       \* queue->head, advanced by the writer
  tail,       \* queue->tail, advanced by the reader
  hdr,        \* per cell, whose bytes lie where its header is
  body,       \* per slot, whose payload lies behind the header
  wpc, wmsg,  \* the writer: where it is, and the message it is sending
  rpc, rbuf   \* the reader: where it is, and what pop copied out

vars == <<head, tail, hdr, body, wpc, wmsg, rpc, rbuf>>
writer == <<head, hdr, body, wpc, wmsg>>
reader == <<tail, rpc, rbuf>>

Slots == 0 .. Size - 1
Cells == 0 .. Size

Header(m) == [kind |-> "header", msg |-> m]
Spill(m)  == [kind |-> "spill", msg |-> m]
Blank     == [kind |-> "blank", msg |-> Nothing]
CellBytes == [kind : {"header", "spill", "blank"}, msg : Messages \cup {Nothing}]

TypeOK ==
  /\ head \in Slots
  /\ tail \in Slots
  /\ hdr \in [Cells -> CellBytes]
  /\ body \in [Slots -> Messages \cup {Nothing}]
  /\ wpc \in {"idle", "claimed", "filling", "filled"}
  /\ wmsg \in Messages \cup {Nothing}
  /\ rpc \in {"idle", "sizing", "copied", "holding"}
  /\ rbuf \in Messages \cup {Nothing, Garbled}

-----------------------------------------------------------------------------
\* A definition whose name ends in an underscore and a word is a plausible bug
\* of the definition below it; PROJECT.json says which property notices it.
Advance_NoWrap(i) == i + 1
Advance(i) == (i + 1) % Size

IsEmpty_OneLeft == Advance(tail) = head
IsEmpty == head = tail

IsFull_NoWrap == head + 1 = tail
IsFull == Advance(head) = tail

Accepted_AnySize(m) == SizeOf[m] # 0
Accepted(m) == SizeOf[m] # 0 /\ SizeOf[m] <= DataSize

FitsBuffer_Strictly(m) == SizeOf[m] < BufSize
FitsBuffer(m) == SizeOf[m] <= BufSize

\* Header and payload together stay inside the slot.
Fits(m) == HdrSize + SizeOf[m] <= DataSize

\* What a reader finds in slot i: the message whose header, payload and, when
\* it is longer than the slot, spilled end are all still there.
Content(i) ==
  IF /\ body[i] # Nothing
     /\ hdr[i] = Header(body[i])
     /\ Fits(body[i]) \/ hdr[i + 1] = Spill(body[i])
  THEN body[i]
  ELSE Garbled

Init ==
  /\ head = 0
  /\ tail = 0
  /\ hdr = [c \in Cells |-> Blank]
  /\ body = [i \in Slots |-> Nothing]
  /\ wpc = "idle"
  /\ wmsg = Nothing
  /\ rpc = "idle"
  /\ rbuf = Nothing

-----------------------------------------------------------------------------
\* The writer.  push and push_alloc check first ...
PushCheck(m) ==
  /\ wpc = "idle"
  /\ Accepted(m)
  /\ ~IsFull
  /\ wpc' = "claimed"
  /\ wmsg' = m
  /\ UNCHANGED <<head, hdr, body>>
  /\ UNCHANGED reader

\* ... then write the header of the slot at head ...
WriteHeader ==
  /\ wpc = "claimed"
  /\ hdr' = [hdr EXCEPT ![head] = Header(wmsg)]
  /\ wpc' = "filling"
  /\ UNCHANGED <<head, body, wmsg>>
  /\ UNCHANGED reader

\* ... then push, or the caller of push_alloc, writes the payload ...
WritePayload ==
  /\ wpc = "filling"
  /\ body' = [body EXCEPT ![head] = wmsg]
  /\ hdr' = IF Fits(wmsg) THEN hdr ELSE [hdr EXCEPT ![head + 1] = Spill(wmsg)]
  /\ wpc' = "filled"
  /\ UNCHANGED <<head, wmsg>>
  /\ UNCHANGED reader

PushEnd_BeforePayload ==
  /\ wpc \in {"filling", "filled"}
  /\ head' = Advance(head)
  /\ wpc' = "idle"
  /\ wmsg' = Nothing
  /\ UNCHANGED <<hdr, body>>
  /\ UNCHANGED reader

\* ... and push, or push_alloc_end, publishes the slot without looking again.
PushEnd ==
  /\ wpc = "filled"
  /\ head' = Advance(head)
  /\ wpc' = "idle"
  /\ wmsg' = Nothing
  /\ UNCHANGED <<hdr, body>>
  /\ UNCHANGED reader

\* The writing process dies and is started again.
WriterCrash ==
  /\ wpc # "idle"
  /\ wpc' = "idle"
  /\ wmsg' = Nothing
  /\ UNCHANGED <<head, hdr, body>>
  /\ UNCHANGED reader

-----------------------------------------------------------------------------
PopZc_ReleasesAtOnce ==
  /\ rpc = "idle"
  /\ "zc" \in ReadModes
  /\ ~IsEmpty
  /\ rpc' = "holding"
  /\ tail' = Advance(tail)
  /\ UNCHANGED rbuf
  /\ UNCHANGED writer

\* The reader.  pop_zc hands out a pointer to the slot at tail; the message
\* is handled there until pop_zc_end.
PopZc ==
  /\ rpc = "idle"
  /\ "zc" \in ReadModes
  /\ ~IsEmpty
  /\ rpc' = "holding"
  /\ UNCHANGED <<tail, rbuf>>
  /\ UNCHANGED writer

\* pop has found the queue not empty ...
PopCheck ==
  /\ rpc = "idle"
  /\ "copy" \in ReadModes
  /\ ~IsEmpty
  /\ rpc' = "sizing"
  /\ UNCHANGED <<tail, rbuf>>
  /\ UNCHANGED writer

\* ... refuses a message that does not fit the caller's buffer and leaves it
\* at the front of the queue ...
PopTooSmall ==
  /\ rpc = "sizing"
  /\ ~FitsBuffer(hdr[tail].msg)
  /\ rpc' = "idle"
  /\ UNCHANGED <<tail, rbuf>>
  /\ UNCHANGED writer

\* ... or copies it.
PopCopy ==
  /\ rpc = "sizing"
  /\ FitsBuffer(hdr[tail].msg)
  /\ rbuf' = Content(tail)
  /\ rpc' = "copied"
  /\ UNCHANGED tail
  /\ UNCHANGED writer

\* The end of pop, and pop_zc_end: the slot is free again.
PopEnd ==
  /\ rpc \in {"copied", "holding"}
  /\ tail' = Advance(tail)
  /\ rpc' = "idle"
  /\ rbuf' = Nothing
  /\ UNCHANGED writer

\* The reading process dies and is started again.
ReaderCrash ==
  /\ rpc # "idle"
  /\ rpc' = "idle"
  /\ rbuf' = Nothing
  /\ UNCHANGED tail
  /\ UNCHANGED writer

-----------------------------------------------------------------------------
Write ==
  \/ \E m \in Messages : PushCheck(m)
  \/ WriteHeader
  \/ WritePayload
  \/ PushEnd

Read ==
  \/ PopZc
  \/ PopCheck
  \/ PopTooSmall
  \/ PopCopy
  \/ PopEnd

Next == Write \/ WriterCrash \/ Read \/ ReaderCrash

Spec == Init /\ [][Next]_vars

\* The reading process polls for ever, and does not die each time it handles
\* a message.  The writer owes nothing.
FairSpec == Spec /\ WF_vars(PopZc) /\ WF_vars(PopCheck)
                 /\ SF_vars(PopCopy) /\ SF_vars(PopEnd)

-----------------------------------------------------------------------------
\* The slots from tail up to head, and the k-th oldest of them.
Unread == {i \in Slots : IF tail <= head THEN tail <= i /\ i < head
                                         ELSE tail <= i \/ i < head}
Count == IF tail <= head THEN head - tail ELSE head + Size - tail
SlotAt(k) == IF tail + k <= Size THEN tail + k - 1 ELSE tail + k - 1 - Size

Queue == [k \in 1 .. Count |-> Content(SlotAt(k))]
Hand  == IF rpc = "holding" THEN Content(tail)
         ELSE IF rpc = "copied" THEN rbuf ELSE Nothing

Channel == INSTANCE Fifo WITH
  Messages <- Messages, Capacity <- Size - 1, Nothing <- Nothing,
  queue <- Queue, hand <- Hand

(* The ring is a bounded first-in first-out channel: whatever the two      *)
(* processes' interleaving and whenever they die, no message is lost,      *)
(* reordered, torn or overwritten, none is handled before it is complete,  *)
(* and one is handled twice only after its reader died (push, push_alloc,  *)
(* pop, pop_zc and their ends).                                            *)
IsChannel == Channel!Spec

(* Room that was there at the full check is there at the publication,      *)
(* wherever the reader has moved since: the writer's slot can be published *)
(* and one stays free, else head would meet tail and hide all that is      *)
(* unread (push_alloc ... push_alloc_end).                                 *)
WriterOwnsItsSlot == wpc # "idle" => Count + 2 <= Size

(* The slot a reader looks at has been published and is not rewritten      *)
(* before it is released (pop_zc ... pop_zc_end).                          *)
ReaderOwnsItsSlot == rpc # "idle" => tail \in Unread

(* Every message that is published is found whole (the size check of push  *)
(* and push_alloc against the slot).                                       *)
MessagesIntact == \A i \in Unread : Content(i) # Garbled

(* No write reaches the memory behind the queue, where the queue of the    *)
(* next endpoint begins.                                                   *)
NeighbourIntact == hdr[Size] = Blank

\* What the three invariants above rest on: a claim made at the check holds
\* until the writer or the reader gives it up itself, and a slot once
\* published is whole.  The last part needs every accepted message to fit.
ClaimsHold ==
  /\ wpc # "idle" => ~IsFull /\ wmsg \in Messages /\ Accepted(wmsg)
  /\ rpc # "idle" => ~IsEmpty

Whole(i) == body[i] \in Messages /\ hdr[i] = Header(body[i]) /\ Fits(body[i])

SlotsWhole ==
  /\ wpc \in {"filling", "filled"} => hdr[head] = Header(wmsg)
  /\ wpc = "filled" => body[head] = wmsg
  /\ \A i \in Unread : Whole(i)
  /\ rpc = "copied" => rbuf = body[tail]
  /\ hdr[Size] = Blank

(* A message that the reader's buffer can take does not stay at the front  *)
(* for ever: it is released although the reader may die a few times while  *)
(* handling it (pop, pop_zc_end).                                          *)
FrontIsReleased ==
  \A i \in Slots : (tail = i /\ ~IsEmpty /\ SizeOf[hdr[i].msg] <= BufSize) ~> (tail # i)
=============================================================================
