-------------------------------- MODULE PubSub --------------------------------
(***************************************************************************)
(* The message layer over shared memory: abs_comm_new, abs_comm_sub,       *)
(* abs_comm_delete and pub_msg of shm_registry_center.c, with pub_msg and  *)
(* recv_msg (pubsub.c) and om_publish (om_msg.c) beneath them.             *)
(*                                                                         *)
(* A channel is the ring from one publisher of a topic to one subscriber   *)
(* (its insides are ShmQueue's).  A client has an application thread, which *)
(* publishes, and a receive thread, which polls the client's channels and  *)
(* runs the callbacks under the mutex of the topic; a callback may publish *)
(* too.  abs_comm_delete cancels the receive thread without waiting for    *)
(* it: it goes on until it passes a cancellation point, and one inside a   *)
(* callback leaves the mutex of the topic locked.                          *)
(***************************************************************************)
EXTENDS Naturals, Sequences, FiniteSets, SequencesExt

CONSTANTS
  Channels,     \* sequence of [topic, puber, suber]: for each subscriber that a topic
                \* lists, which may be one again, the publishers it lists
  Again,        \* the places there that name a publisher again for the same subscriber
  Capacity,     \* messages a ring holds
  Messages,     \* bound: the publications, [id, by, thread, topic], ...
  Repeated,     \* ... those that are made again and again, and are not counted, ...
  Workloads,    \* ... and the sets of them that are made in one run
  Settled,      \* bound: the clients that run from the start and are not deleted
  None          \* no thread, no message

Chans == Range(Channels)
Clients == {ch.puber : ch \in Chans} \cup {ch.suber : ch \in Chans}
Receivers == {ch.suber : ch \in Chans}
Threads == {<<m.by, m.thread>> : m \in Messages}
TopicsOf(c) == {ch.topic : ch \in {x \in Chans : x.suber = c}}

\* Where the configuration has the channels that recv_msg looks up for a client,
\* and pub_msg for a publication, once for each time the subscriber is listed;
\* both go through them in order.
Inbox(c) == {i \in DOMAIN Channels : Channels[i].suber = c}
Outbox(m) ==
  {i \in DOMAIN Channels \ Again : Channels[i].puber = m.by /\ Channels[i].topic = m.topic}
Least(places) == CHOOSE i \in places : \A j \in places : i <= j

Destinations(m) == {Channels[i] : i \in Outbox(m)}

ASSUME PubAssumption ==
  /\ Channels \in Seq(Chans)
  /\ \A i, j \in DOMAIN Channels :
       /\ Channels[i].topic = Channels[j].topic
       /\ Channels[i].puber = Channels[j].puber
       /\ Channels[i].suber = Channels[j].suber
       => Channels[i] = Channels[j]
  /\ \A i \in Again : \E j \in DOMAIN Channels \ Again : Channels[j] = Channels[i]
  /\ Capacity \in Nat
  /\ \A m \in Messages : m.by \in Clients
  /\ None \notin Messages /\ None \notin Threads

VARIABLES
  registered,  \* how many of the channels the main process has registered
  ring, slot,  \* per channel: the messages, and what the next slot was filled with
  client,      \* per client: "off", "running", "deleting", "deleted"
  subscribed,  \* per client: the topics it has a callback for
  rx, at,      \* per client: what its receive thread does, and its place in the inbox
  locked,      \* per client: the topic whose mutex the receive thread holds
  mutex,       \* per client: the thread that holds pub_mutex
  pub,         \* per thread: the publication it is at
  told,        \* per message: what pub_msg returned
  taken,       \* per counted message and client: how often it took it out of a ring, ...
  heard        \* ... and how often its callback was given it

pvars == <<registered, ring, slot, client, subscribed, rx, at, locked, mutex, pub,
           told, taken, heard>>
sending == <<slot, mutex, pub, told>>

Idle == [step |-> "idle", msg |-> None, left |-> {}, failed |-> FALSE, sent |-> 0]

PubInit(work) ==
  /\ registered = 0
  /\ ring = [ch \in Chans |-> <<>>]
  /\ slot = [ch \in Chans |-> None]
  /\ client = [c \in Clients |-> IF c \in Settled THEN "running" ELSE "off"]
  /\ subscribed = [c \in Clients |-> IF c \in Settled THEN TopicsOf(c) ELSE {}]
  /\ rx = [c \in Clients |-> IF c \notin Settled THEN "none"
                           ELSE IF c \in Receivers THEN "lookup" ELSE "gone"]
  /\ at = [c \in Clients |-> IF c \in Receivers THEN Least(Inbox(c)) ELSE 0]
  /\ locked = [c \in Clients |-> None]
  /\ mutex = [c \in Clients |-> None]
  /\ pub = [th \in Threads |-> Idle]
  /\ told = [m \in Messages |-> IF m \in work THEN "nothing" ELSE "unasked"]
  /\ taken = [m \in Messages |-> [c \in Clients |-> 0]]
  /\ heard = [m \in Messages |-> [c \in Clients |-> 0]]

PubTypeOK ==
  /\ registered \in 0 .. Len(Channels)
  /\ \A ch \in Chans : Len(ring[ch]) <= Capacity /\ Range(ring[ch]) \subseteq Messages
  /\ \A c \in Clients :
       /\ client[c] \in {"off", "running", "deleting", "deleted"}
       /\ subscribed[c] \subseteq TopicsOf(c)
       /\ rx[c] \in {"none", "lookup", "poll", "callback", "gone"}
       /\ mutex[c] \in {None} \cup Threads
  /\ \A th \in Threads : pub[th].step \in {"idle", "lock", "alloc", "fill"}
  /\ told \in [Messages -> {"unasked", "nothing", "ok", "failed"}]

-----------------------------------------------------------------------------
\* The main process registers the next channel, or passes it over because its
\* name is there; the others may be running.
Register ==
  /\ registered < Len(Channels)
  /\ registered' = registered + 1
  /\ UNCHANGED <<ring, client, subscribed, rx, at, locked, taken, heard, sending>>

Found(ch) == \E i \in 1 .. registered : Channels[i] = ch

\* abs_comm_new: the receive thread is started, nothing is subscribed yet.
New(c) ==
  /\ client[c] = "off"
  /\ client' = [client EXCEPT ![c] = "running"]
  /\ rx' = [rx EXCEPT ![c] = "lookup"]
  /\ UNCHANGED <<registered, ring, subscribed, at, locked, taken, heard, sending>>

\* abs_comm_sub
Subscribe(c, t) ==
  /\ client[c] = "running"
  /\ t \notin subscribed[c]
  /\ subscribed' = [subscribed EXCEPT ![c] = @ \cup {t}]
  /\ UNCHANGED <<registered, ring, client, rx, at, locked, taken, heard, sending>>

Deleted(c) == client[c] \in {"deleting", "deleted"}

\* abs_comm_delete: pthread_cancel, and the configuration is freed ...
BeginDelete(c) ==
  /\ client[c] = "running" /\ c \notin Settled
  /\ \A th \in Threads : th = <<c, "app">> => pub[th].step = "idle"
  /\ client' = [client EXCEPT ![c] = "deleting"]
  /\ UNCHANGED <<registered, ring, subscribed, rx, at, locked, taken, heard, sending>>

\* ... then each subscription, under the mutex of its topic, ...
CanUnsubscribe_NoLock(c, t) == t \in subscribed[c]
CanUnsubscribe(c, t) == t \in subscribed[c] /\ locked[c] # t

Unsubscribe(c, t) ==
  /\ client[c] = "deleting"
  /\ CanUnsubscribe(c, t)
  /\ subscribed' = [subscribed EXCEPT ![c] = @ \ {t}]
  /\ UNCHANGED <<registered, ring, client, rx, at, locked, taken, heard, sending>>

\* ... and the client is freed.
EndDelete(c) ==
  /\ client[c] = "deleting"
  /\ subscribed[c] = {}
  /\ client' = [client EXCEPT ![c] = "deleted"]
  /\ UNCHANGED <<registered, ring, subscribed, rx, at, locked, taken, heard, sending>>

-----------------------------------------------------------------------------
\* recv_msg: the channels are looked up once; one that is missing, or none at
\* all, ends the thread.
LookUp(c) ==
  /\ rx[c] = "lookup"
  /\ rx' = [rx EXCEPT ![c] =
       IF Inbox(c) # {} /\ \A i \in Inbox(c) : Found(Channels[i]) THEN "poll" ELSE "gone"]
  /\ UNCHANGED <<registered, ring, client, subscribed, at, locked, taken, heard, sending>>

NextPlace(c) ==
  LET more == {i \in Inbox(c) : i > at[c]} IN Least(IF more = {} THEN Inbox(c) ELSE more)

\* It takes no second message from a channel before it has been at the others.
AfterMessage_Drains(c) == at[c]
AfterMessage(c) == NextPlace(c)

Here(c) == Channels[at[c]]

OnceMore(times, m, c) == IF m \in Repeated THEN times ELSE [times EXCEPT ![m][c] = @ + 1]

\* pop_zc_end: the message is out of the ring.
Take(c) ==
  /\ ring' = [ring EXCEPT ![Here(c)] = Tail(@)]
  /\ taken' = OnceMore(taken, Head(ring[Here(c)]), c)

\* The next channel has nothing, or something nobody subscribed to.
PollNothing(c) ==
  /\ rx[c] = "poll"
  /\ ring[Here(c)] = <<>>
  /\ at' = [at EXCEPT ![c] = NextPlace(c)]
  /\ UNCHANGED <<registered, ring, client, subscribed, rx, locked, taken, heard, sending>>

Discard(c) ==
  /\ rx[c] = "poll"
  /\ ring[Here(c)] # <<>>
  /\ Here(c).topic \notin subscribed[c]
  /\ Take(c)
  /\ at' = [at EXCEPT ![c] = AfterMessage(c)]
  /\ UNCHANGED <<registered, client, subscribed, rx, locked, heard, sending>>

\* om_publish locks the topic and runs the callback, ...
BeginCallback(c) ==
  /\ rx[c] = "poll"
  /\ ring[Here(c)] # <<>>
  /\ Here(c).topic \in subscribed[c]
  /\ rx' = [rx EXCEPT ![c] = "callback"]
  /\ locked' = [locked EXCEPT ![c] = Here(c).topic]
  /\ heard' = OnceMore(heard, Head(ring[Here(c)]), c)
  /\ UNCHANGED <<registered, ring, client, subscribed, at, taken, sending>>

\* ... which may have published, unlocks it, and the slot is released.
Unlocked_Kept(c) == locked
Unlocked(c) == [locked EXCEPT ![c] = None]

EndCallback(c) ==
  /\ rx[c] = "callback"
  /\ \A th \in Threads : th = <<c, "rx">> => pub[th].step = "idle"
  /\ rx' = [rx EXCEPT ![c] = "poll"]
  /\ locked' = Unlocked(c)
  /\ Take(c)
  /\ at' = [at EXCEPT ![c] = AfterMessage(c)]
  /\ UNCHANGED <<registered, client, subscribed, heard, sending>>

\* A thread that was asked to may end where it logs, in a callback or not.
Cancelled(c) ==
  /\ Deleted(c)
  /\ rx[c] \in {"lookup", "poll", "callback"}
  /\ rx' = [rx EXCEPT ![c] = "gone"]
  /\ UNCHANGED <<registered, ring, client, subscribed, at, locked, taken, heard, sending>>

-----------------------------------------------------------------------------
\* A thread that may go on: the application's, or the receiver's in a callback.
Alive(th) == IF th[2] = "app" THEN client[th[1]] = "running" ELSE rx[th[1]] = "callback"

Unpublished(m) == told[m] = "nothing" /\ \A th \in Threads : pub[th].msg # m

\* registry_send_str_to_micoservice
Publish(th, m) ==
  /\ Alive(th) /\ ~Deleted(th[1])
  /\ pub[th].step = "idle"
  /\ <<m.by, m.thread>> = th
  /\ Unpublished(m)
  /\ pub' = [pub EXCEPT ![th] = [Idle EXCEPT !.step = "lock", !.msg = m, !.left = Outbox(m)]]
  /\ UNCHANGED <<registered, ring, client, subscribed, rx, at, locked, taken, heard,
                 slot, mutex, told>>

CanLock_Unguarded(th) == TRUE
CanLock(th) == mutex[th[1]] = None

LockPub(th) ==
  /\ Alive(th)
  /\ pub[th].step = "lock"
  /\ CanLock(th)
  /\ mutex' = [mutex EXCEPT ![th[1]] = th]
  /\ pub' = [pub EXCEPT ![th].step = "alloc"]
  /\ UNCHANGED <<registered, ring, client, subscribed, rx, at, locked, taken, heard, slot, told>>

NextChan(th) == Channels[Least(pub[th].left)]
MoreToSend(th) == pub[th].left # {}
CanAlloc(ch) == Found(ch) /\ Len(ring[ch]) < Capacity

\* The next subscriber's slot is filled, ...
AllocSlot(th) ==
  /\ Alive(th) /\ ~Deleted(th[1])
  /\ pub[th].step = "alloc" /\ MoreToSend(th)
  /\ CanAlloc(NextChan(th))
  /\ slot' = [slot EXCEPT ![NextChan(th)] = pub[th].msg]
  /\ pub' = [pub EXCEPT ![th].step = "fill"]
  /\ UNCHANGED <<registered, ring, client, subscribed, rx, at, locked, taken, heard, mutex, told>>

\* ... or there is no channel or no room, which is counted, ...
Missed(p) == [p EXCEPT !.left = @ \ {Least(@)}, !.failed = TRUE]

MissSubscriber(th) ==
  /\ Alive(th) /\ ~Deleted(th[1])
  /\ pub[th].step = "alloc" /\ MoreToSend(th)
  /\ ~CanAlloc(NextChan(th))
  /\ pub' = [pub EXCEPT ![th] = Missed(@)]
  /\ UNCHANGED <<registered, ring, client, subscribed, rx, at, locked, taken, heard,
                 slot, mutex, told>>

\* ... and push_alloc_end makes what the slot holds the newest message; the
\* slot after it holds something old.
EndSlot(th) ==
  /\ Alive(th)
  /\ pub[th].step = "fill"
  /\ ring' = [ring EXCEPT ![NextChan(th)] = Append(@, slot[NextChan(th)])]
  /\ slot' = [slot EXCEPT ![NextChan(th)] = None]
  /\ pub' = [pub EXCEPT ![th].step = "alloc", ![th].left = @ \ {Least(@)},
                         ![th].sent = @ + 1]
  /\ UNCHANGED <<registered, client, subscribed, rx, at, locked, taken, heard, mutex, told>>

Answer(p) == IF p.failed \/ p.sent = 0 THEN "failed" ELSE "ok"

FinishWith(th, answer) ==
  /\ told' = [told EXCEPT ![pub[th].msg] = IF pub[th].msg \in Repeated THEN @ ELSE answer]
  /\ pub' = [pub EXCEPT ![th] = Idle]
  /\ mutex' = [mutex EXCEPT ![th[1]] = None]
  /\ UNCHANGED <<registered, ring, client, subscribed, rx, at, locked, taken, heard, slot>>

FinishPub(th) ==
  /\ Alive(th)
  /\ pub[th].step = "alloc" /\ ~MoreToSend(th)
  /\ FinishWith(th, Answer(pub[th]))

\* A callback that publishes while its client is being deleted reads a
\* configuration that was freed: the publication ends early, whatever it says.
CutShort(th) ==
  /\ Alive(th) /\ Deleted(th[1])
  /\ pub[th].step = "alloc" /\ MoreToSend(th)
  /\ \E answer \in {"ok", "failed"} : FinishWith(th, answer)

-----------------------------------------------------------------------------
Receive(c) ==
  LookUp(c) \/ PollNothing(c) \/ Discard(c) \/ BeginCallback(c) \/ EndCallback(c)

Send(th) ==
  \/ LockPub(th) \/ AllocSlot(th) \/ MissSubscriber(th) \/ EndSlot(th)
  \/ FinishPub(th) \/ CutShort(th)

Delete(c) == EndDelete(c) \/ \E t \in TopicsOf(c) : Unsubscribe(c, t)

PubNext ==
  \/ Register
  \/ \E c \in Clients : New(c) \/ BeginDelete(c) \/ Delete(c) \/ Receive(c) \/ Cancelled(c)
  \/ \E c \in Clients : \E t \in TopicsOf(c) : Subscribe(c, t)
  \/ \E th \in Threads : Send(th)
  \/ \E th \in Threads, m \in Messages : Publish(th, m)

-----------------------------------------------------------------------------
Copies(m, ch) == Cardinality({i \in DOMAIN ring[ch] : ring[ch][i] = m})
               + taken[m][ch.suber]
Listed(m, ch) == Cardinality({i \in Outbox(m) : Channels[i] = ch})

\* What pub_msg returns can be relied on, with two threads publishing and
\* rings that are full, missing or drained meanwhile: "ok" means that every
\* subscriber of the topic got the message once for each time the configuration
\* lists it, "failed" that someone got it less often, or nobody was there; nobody
\* gets it more often, and no callback gets it that it did not reach through a
\* ring.  (A client under deletion is told anything.)
ToldTruth ==
  \A m \in Messages \ Repeated :
    LET out == Destinations(m) IN
    /\ \A ch \in out : Copies(m, ch) <= Listed(m, ch)
    /\ told[m] = "ok" /\ ~Deleted(m.by) => \A ch \in out : Copies(m, ch) = Listed(m, ch)
    /\ told[m] = "failed" /\ ~Deleted(m.by) =>
         out = {} \/ \E ch \in out : Copies(m, ch) < Listed(m, ch)
    /\ \A ch \in out : heard[m][ch.suber] <= Copies(m, ch)

\* Once its subscription is gone a client's callback does not run, though the
\* receive thread may: what the callback works on is about to be freed.
NoCallbackAfterDelete ==
  \A c \in Clients : rx[c] = "callback" => Here(c).topic \in subscribed[c]

\* Every message in a ring gets its turn, also when another channel of the
\* same client is filled again whenever it was emptied, unless its reader is
\* gone, ended when it looked up channels too early, or is not there yet.
Served ==
  \A m \in Messages \ Repeated : \A ch \in Destinations(m) :
    (rx[ch.suber] = "poll" /\ m \in Range(ring[ch]))
      ~> (m \notin Range(ring[ch]) \/ rx[ch.suber] = "gone")

\* abs_comm_delete returns, unless the receive thread was cancelled in a
\* callback and took the mutex of the topic with it.
DeleteEnds ==
  \A c \in Clients \ Settled :
    client[c] = "deleting" ~> (client[c] = "deleted" \/ (rx[c] = "gone" /\ locked[c] # None))
===============================================================================
