----------------------------- MODULE PubSubProofs -----------------------------
(***************************************************************************)
(* The lemmas about publication over shared memory that PlatformProofs     *)
(* draws on: what the threads of the clients keep, for any channels,       *)
(* clients and publications and rings of any size.                         *)
(***************************************************************************)
EXTENDS PubSub, SequenceTheorems, FiniteSetTheorems, WellFoundedInduction, TLAPS

Publications ==
  [step : {"idle", "lock", "alloc", "fill"}, msg : Messages \cup {None},
   left : SUBSET DOMAIN Channels, failed : BOOLEAN, sent : Nat]

\* The types, the places of the receive threads, and that one whose client was
\* not created has not been started.
PubTypes ==
  /\ registered \in 0 .. Len(Channels)
  /\ ring \in [Chans -> Seq(Messages)]
  /\ slot \in [Chans -> Messages \cup {None}]
  /\ client \in [Clients -> {"off", "running", "deleting", "deleted"}]
  /\ subscribed \in [Clients -> SUBSET {ch.topic : ch \in Chans}]
  /\ rx \in [Clients -> {"none", "lookup", "poll", "callback", "gone"}]
  /\ at \in [Clients -> Nat]
  /\ mutex \in [Clients -> {None} \cup Threads]
  /\ pub \in [Threads -> Publications]
  /\ told \in [Messages -> {"unasked", "nothing", "ok", "failed"}]
  /\ taken \in [Messages -> [Clients -> Nat]]
  /\ heard \in [Messages -> [Clients -> Nat]]

ReceiverInv ==
  \A c \in Clients :
    /\ subscribed[c] \subseteq TopicsOf(c)
    /\ c \in Receivers => at[c] \in Inbox(c)
    /\ rx[c] \in {"poll", "callback"} => c \in Receivers
    /\ rx[c] = "callback" => ring[Here(c)] # <<>>
    /\ client[c] = "off" => rx[c] = "none"

\* A thread that sends has the mutex of its client, so it fills its slot alone.
SenderIs(th) ==
  /\ pub[th].step = "idle" => pub[th].msg = None
  /\ pub[th].step # "idle" =>
       /\ pub[th].msg \in Messages /\ <<pub[th].msg.by, pub[th].msg.thread>> = th
       /\ told[pub[th].msg] = "nothing"
       /\ pub[th].left \subseteq Outbox(pub[th].msg)
  /\ pub[th].step \in {"alloc", "fill"} => mutex[th[1]] = th
  /\ pub[th].step = "fill" =>
       /\ MoreToSend(th)
       /\ slot[NextChan(th)] = pub[th].msg
       /\ Len(ring[NextChan(th)]) < Capacity

SenderInv == \A th \in Threads : SenderIs(th)

Counted == Messages \ Repeated

\* Whether a message is in a ring, and in how many of its places.
InRing(m, ch) == \E i \in DOMAIN ring[ch] : ring[ch][i] = m
HowMany(s, m) == Cardinality({i \in DOMAIN s : s[i] = m})

\* How often some places name a channel.
Sends(places, ch) == Cardinality({i \in places : Channels[i] = ch})

\* A message reaches its channels only, and none more often than it is listed.
OnceInv ==
  /\ \A ch \in Chans : Len(ring[ch]) <= Capacity
  /\ \A m \in Messages, ch \in Chans : InRing(m, ch) => ch \in Destinations(m)
  /\ \A m \in Counted : \A ch \in Destinations(m) : Copies(m, ch) <= Listed(m, ch)

\* What a publication knows of the places it has been at.
ProgressIs(msg, left, failed, sent) ==
  LET done == Outbox(msg) \ left IN
  /\ \A ch \in Destinations(msg) : Copies(msg, ch) <= Sends(done, ch)
  /\ ~failed => \A ch \in Destinations(msg) : Copies(msg, ch) = Sends(done, ch)
  /\ failed => \E ch \in Destinations(msg) : Copies(msg, ch) < Sends(done, ch)
  /\ sent = 0 /\ done # {} => failed

ProgressOf(th) ==
  pub[th].step # "idle" /\ pub[th].msg \in Counted =>
    ProgressIs(pub[th].msg, pub[th].left, pub[th].failed, pub[th].sent)

ProgressInv ==
  /\ \A m \in Counted : Unpublished(m) => \A ch \in Destinations(m) : Copies(m, ch) = 0
  /\ \A th \in Threads : ProgressOf(th)

\* What it told.
AnswerTrue ==
  \A m \in Counted : ~Deleted(m.by) =>
    /\ told[m] = "ok" => \A ch \in Destinations(m) : Copies(m, ch) = Listed(m, ch)
    /\ told[m] = "failed" =>
         Destinations(m) = {} \/ \E ch \in Destinations(m) : Copies(m, ch) < Listed(m, ch)

\* The message a callback was given that has not been taken out yet.
InCallback(c, m) ==
  /\ c \in Receivers /\ rx[c] \in {"callback", "gone"}
  /\ ring[Here(c)] # <<>> /\ Head(ring[Here(c)]) = m

HeardInv ==
  \A m \in Counted, c \in Clients :
    heard[m][c] <= taken[m][c] + (IF InCallback(c, m) THEN 1 ELSE 0)

-----------------------------------------------------------------------------
\* The least of some places is one of them.
LEMMA LeastIsOne ==
  ASSUME NEW S, S \subseteq Nat, S # {}
  PROVE  Least(S) \in S
<1> DEFINE R == OpToRel(<, Nat)
<1>1. IsWellFoundedOn(R, Nat)
  BY NatLessThanWellFounded
<1>2. \A x, y \in Nat : <<y, x>> \in R <=> y < x
  BY DEF OpToRel
<1> HIDE DEF R
<1>3. PICK x \in S : \A y \in S : ~(<<y, x>> \in R)
  BY <1>1, WFMin
<1>4. ASSUME NEW y \in S
      PROVE  x <= y
  <2>1. x \in Nat /\ y \in Nat
    OBVIOUS
  <2>2. ~(y < x)
    BY <1>2, <1>3, <2>1
  <2> QED
    BY <2>1, <2>2
<1>5. \E i \in S : \A j \in S : i <= j
  BY <1>4
<1> QED
  BY <1>5 DEF Least

\* The places of channels are positions.
LEMMA PlacesAreNumbers ==
  /\ DOMAIN Channels \subseteq Nat
  /\ \A i \in DOMAIN Channels : Channels[i] \in Chans
  /\ \A ch \in Chans : \E i \in DOMAIN Channels : Channels[i] = ch
<1>1. DOMAIN Channels = 1 .. Len(Channels) /\ Len(Channels) \in Nat
  BY PubAssumption
<1> QED
  BY <1>1 DEF Chans, Range

\* A channel is determined by its topic and the clients at its ends.
LEMMA OneChannel ==
  ASSUME NEW ch \in Chans, NEW dh \in Chans,
         ch.topic = dh.topic, ch.puber = dh.puber, ch.suber = dh.suber
  PROVE  ch = dh
  BY PlacesAreNumbers, PubAssumption

\* The destinations of a message are the channels of its topic and its publisher.
LEMMA DestinationsAre ==
  ASSUME NEW m
  PROVE  \A ch : ch \in Destinations(m) <=> ch \in Chans /\ ch.puber = m.by /\ ch.topic = m.topic
<1>1. \A i \in DOMAIN Channels :
        \E j \in DOMAIN Channels : j \notin Again /\ Channels[j] = Channels[i]
  BY PubAssumption
<1>2. \A ch \in Chans : \E j \in DOMAIN Channels : j \notin Again /\ Channels[j] = ch
  BY <1>1, PlacesAreNumbers
<1> QED
  BY <1>2, PlacesAreNumbers DEF Destinations, Outbox

\* Every topic and end of a channel is what its name says.
LEMMA ClientsOfChannels ==
  ASSUME NEW ch \in Chans
  PROVE  ch.puber \in Clients /\ ch.suber \in Clients /\ ch.suber \in Receivers
  BY DEF Clients, Receivers

\* A thread that publishes is one of a client.
LEMMA ThreadsAre ==
  ASSUME NEW th \in Threads
  PROVE  th[1] \in Clients /\ \E m \in Messages : th = <<m.by, m.thread>>
  BY PubAssumption DEF Threads

\* The next channel of a thread that has one.
LEMMA NextIs ==
  ASSUME PubTypes, SenderInv, NEW th \in Threads, pub[th].step # "idle", MoreToSend(th)
  PROVE  /\ Least(pub[th].left) \in pub[th].left
         /\ Least(pub[th].left) \in Outbox(pub[th].msg)
         /\ NextChan(th) \in Destinations(pub[th].msg)
         /\ NextChan(th) \in Chans
         /\ NextChan(th).puber = th[1]
<1>1. pub[th].left \subseteq Outbox(pub[th].msg) /\ pub[th].left # {}
      /\ <<pub[th].msg.by, pub[th].msg.thread>> = th
  BY DEF SenderInv, SenderIs, MoreToSend
<1>2. Outbox(pub[th].msg) \subseteq Nat
  BY PlacesAreNumbers DEF Outbox
<1>3. Least(pub[th].left) \in pub[th].left
  BY <1>1, <1>2, LeastIsOne
<1> QED
  BY <1>1, <1>3, PlacesAreNumbers DEF NextChan, Destinations, Outbox

\* The channel a receive thread is at.
LEMMA HereIs ==
  ASSUME PubTypes, ReceiverInv, NEW c \in Receivers
  PROVE  c \in Clients /\ at[c] \in Inbox(c) /\ Here(c) \in Chans /\ Here(c).suber = c
  BY PlacesAreNumbers DEF ReceiverInv, Receivers, Clients, Here, Inbox

\* Where it goes on.
LEMMA NextPlaceIs ==
  ASSUME PubTypes, ReceiverInv, NEW c \in Receivers
  PROVE  /\ NextPlace(c) \in Inbox(c) /\ NextPlace(c) \in Nat
         /\ AfterMessage(c) = NextPlace(c)
<1>1. at[c] \in Inbox(c) /\ Inbox(c) \subseteq Nat
  BY HereIs, PlacesAreNumbers DEF Inbox
<1> DEFINE more == {i \in Inbox(c) : i > at[c]}
<1>2. CASE more = {}
  <2>1. NextPlace(c) = Least(Inbox(c))
    BY <1>2 DEF NextPlace
  <2> QED
    BY <1>1, <2>1, LeastIsOne DEF AfterMessage
<1>3. CASE more # {}
  <2>1. NextPlace(c) = Least(more)
    BY <1>3 DEF NextPlace
  <2>2. more \subseteq Nat /\ more \subseteq Inbox(c)
    BY <1>1
  <2> HIDE DEF more
  <2> QED
    BY <1>1, <1>3, <2>1, <2>2, LeastIsOne DEF AfterMessage
<1> QED
  BY <1>2, <1>3

-----------------------------------------------------------------------------
\* What a step makes of the publication a thread is at.
Becomes(th, step, msg, left, failed, sent) ==
  /\ pub' \in [Threads -> Publications]
  /\ \A u \in Threads : u # th => pub'[u] = pub[u]
  /\ pub'[th].step = step /\ pub'[th].msg = msg /\ pub'[th].left = left
  /\ pub'[th].failed = failed /\ pub'[th].sent = sent

\* No publication is one.
LEMMA IdleIs ==
  /\ Idle \in Publications
  /\ Idle.step = "idle" /\ Idle.msg = None /\ Idle.left = {}
  /\ Idle.failed = FALSE /\ Idle.sent = 0
  BY DEF Idle, Publications

\* A publication that goes on at another step, ...
LEMMA StepIs ==
  ASSUME NEW p \in Publications, NEW s \in {"idle", "lock", "alloc", "fill"}
  PROVE  LET q == [p EXCEPT !.step = s] IN
         /\ q \in Publications
         /\ q.step = s /\ q.msg = p.msg /\ q.left = p.left
         /\ q.failed = p.failed /\ q.sent = p.sent
  BY DEF Publications

\* ... that begins, ...
LEMMA BegunIs ==
  ASSUME NEW m \in Messages
  PROVE  LET q == [Idle EXCEPT !.step = "lock", !.msg = m, !.left = Outbox(m)] IN
         /\ q \in Publications
         /\ q.step = "lock" /\ q.msg = m /\ q.left = Outbox(m)
         /\ q.failed = FALSE /\ q.sent = 0
<1> DEFINE out == Outbox(m)
<1>1. out \subseteq DOMAIN Channels
  BY DEF Outbox
<1> HIDE DEF out
<1> QED
  BY <1>1 DEF Idle, Publications, out

\* ... that misses a subscriber, and one that has sent.
LEMMA MissedIs ==
  ASSUME NEW p \in Publications
  PROVE  /\ Missed(p) \in Publications
         /\ Missed(p).step = p.step /\ Missed(p).msg = p.msg
         /\ Missed(p).left = p.left \ {Least(p.left)}
         /\ Missed(p).failed = TRUE /\ Missed(p).sent = p.sent
<1> DEFINE l == Least(p.left)
<1> HIDE DEF l
<1> QED
  BY DEF Missed, Publications, l

LEMMA SentIs ==
  ASSUME NEW p \in Publications
  PROVE  LET q == [p EXCEPT !.step = "alloc", !.left = @ \ {Least(@)}, !.sent = @ + 1] IN
         /\ q \in Publications
         /\ q.step = "alloc" /\ q.msg = p.msg /\ q.left = p.left \ {Least(p.left)}
         /\ q.failed = p.failed /\ q.sent = p.sent + 1
<1>1. PICK rest : rest = p.left \ {Least(p.left)}
  OBVIOUS
<1>2. PICK sent : sent = p.sent + 1
  OBVIOUS
<1>3. rest \subseteq DOMAIN Channels /\ sent \in Nat
  BY <1>1, <1>2 DEF Publications
<1> DEFINE q == [p EXCEPT !.step = "alloc", !.left = rest, !.sent = sent]
<1>4. /\ q \in Publications
      /\ q.step = "alloc" /\ q.msg = p.msg /\ q.left = rest
      /\ q.failed = p.failed /\ q.sent = sent
  BY <1>3 DEF Publications
<1>5. [p EXCEPT !.step = "alloc", !.left = @ \ {Least(@)}, !.sent = @ + 1] = q
  BY <1>1, <1>2
<1> HIDE DEF q
<1> QED
  BY <1>1, <1>2, <1>4, <1>5

\* The publication a thread is at, after each step of a sender.
LEMMA SenderShapes ==
  ASSUME PubTypes, NEW th \in Threads
  PROVE  LET p == pub[th] IN
    /\ \A m \in Messages : Publish(th, m) => Becomes(th, "lock", m, Outbox(m), FALSE, 0)
    /\ LockPub(th) => Becomes(th, "alloc", p.msg, p.left, p.failed, p.sent)
    /\ AllocSlot(th) => Becomes(th, "fill", p.msg, p.left, p.failed, p.sent)
    /\ MissSubscriber(th) =>
         Becomes(th, p.step, p.msg, p.left \ {Least(p.left)}, TRUE, p.sent)
    /\ EndSlot(th) =>
         Becomes(th, "alloc", p.msg, p.left \ {Least(p.left)}, p.failed, p.sent + 1)
    /\ (FinishPub(th) \/ CutShort(th)) => Becomes(th, "idle", None, {}, FALSE, 0)
<1> DEFINE p == pub[th]
<1>0. pub \in [Threads -> Publications] /\ p \in Publications
  BY DEF PubTypes
<1>1. ASSUME NEW q \in Publications, pub' = [pub EXCEPT ![th] = q]
      PROVE  Becomes(th, q.step, q.msg, q.left, q.failed, q.sent)
  <2>1. pub' \in [Threads -> Publications] /\ pub'[th] = q
    BY <1>0, <1>1
  <2>2. \A u \in Threads : u # th => pub'[u] = pub[u]
    BY <1>0, <1>1
  <2> QED
    BY <2>1, <2>2 DEF Becomes
<1>2. ASSUME NEW m \in Messages, Publish(th, m)
      PROVE  Becomes(th, "lock", m, Outbox(m), FALSE, 0)
  <2> DEFINE q == [Idle EXCEPT !.step = "lock", !.msg = m, !.left = Outbox(m)]
  <2>1. pub' = [pub EXCEPT ![th] = q]
    BY <1>2 DEF Publish
  <2>2. /\ q \in Publications
        /\ q.step = "lock" /\ q.msg = m /\ q.left = Outbox(m)
        /\ q.failed = FALSE /\ q.sent = 0
    BY BegunIs
  <2> HIDE DEF q
  <2>3. Becomes(th, q.step, q.msg, q.left, q.failed, q.sent)
    BY <1>1, <2>1, <2>2
  <2> QED
    BY <2>2, <2>3
<1>3. ASSUME NEW s \in {"idle", "lock", "alloc", "fill"}, pub' = [pub EXCEPT ![th].step = s]
      PROVE  Becomes(th, s, p.msg, p.left, p.failed, p.sent)
  <2> DEFINE q == [p EXCEPT !.step = s]
  <2>1. pub' = [pub EXCEPT ![th] = q]
    BY <1>3
  <2>2. /\ q \in Publications
        /\ q.step = s /\ q.msg = p.msg /\ q.left = p.left
        /\ q.failed = p.failed /\ q.sent = p.sent
    BY <1>0, StepIs
  <2> HIDE DEF q
  <2>3. Becomes(th, q.step, q.msg, q.left, q.failed, q.sent)
    BY <1>1, <2>1, <2>2
  <2> QED
    BY <2>2, <2>3
<1>4. LockPub(th) => Becomes(th, "alloc", p.msg, p.left, p.failed, p.sent)
  <2>1. LockPub(th) => pub' = [pub EXCEPT ![th].step = "alloc"]
    BY DEF LockPub
  <2> QED
    BY <1>3, <2>1
<1>5. AllocSlot(th) => Becomes(th, "fill", p.msg, p.left, p.failed, p.sent)
  <2>1. AllocSlot(th) => pub' = [pub EXCEPT ![th].step = "fill"]
    BY DEF AllocSlot
  <2> QED
    BY <1>3, <2>1
<1>6. ASSUME MissSubscriber(th)
      PROVE  Becomes(th, p.step, p.msg, p.left \ {Least(p.left)}, TRUE, p.sent)
  <2>1. pub' = [pub EXCEPT ![th] = Missed(p)]
    BY <1>6 DEF MissSubscriber
  <2>2. Missed(p) \in Publications
    BY <1>0, MissedIs
  <2>3. Becomes(th, Missed(p).step, Missed(p).msg, Missed(p).left, Missed(p).failed,
                Missed(p).sent)
    BY <1>1, <2>1, <2>2
  <2> QED
    BY <1>0, <2>3, MissedIs
<1>7. ASSUME EndSlot(th)
      PROVE  Becomes(th, "alloc", p.msg, p.left \ {Least(p.left)}, p.failed, p.sent + 1)
  <2> DEFINE q == [p EXCEPT !.step = "alloc", !.left = @ \ {Least(@)}, !.sent = @ + 1]
  <2>1. pub' = [pub EXCEPT ![th] = q]
    BY <1>0, <1>7 DEF EndSlot
  <2>2. /\ q \in Publications
        /\ q.step = "alloc" /\ q.msg = p.msg /\ q.left = p.left \ {Least(p.left)}
        /\ q.failed = p.failed /\ q.sent = p.sent + 1
    BY <1>0, SentIs
  <2> HIDE DEF q
  <2>3. Becomes(th, q.step, q.msg, q.left, q.failed, q.sent)
    BY <1>1, <2>1, <2>2
  <2> QED
    BY <2>2, <2>3
<1>8. ASSUME FinishPub(th) \/ CutShort(th)
      PROVE  Becomes(th, "idle", None, {}, FALSE, 0)
  <2>1. pub' = [pub EXCEPT ![th] = Idle]
    BY <1>8 DEF FinishPub, CutShort, FinishWith
  <2>2. Becomes(th, Idle.step, Idle.msg, Idle.left, Idle.failed, Idle.sent)
    BY <1>1, <2>1, IdleIs
  <2> QED
    BY <2>2, IdleIs
<1> QED
  BY <1>2, <1>4, <1>5, <1>6, <1>7, <1>8

-----------------------------------------------------------------------------
\* How often places name a channel, and that one more names its own.
LEMMA SendsIs ==
  ASSUME NEW S, S \subseteq DOMAIN Channels, NEW ch
  PROVE  /\ Sends(S, ch) \in Nat
         /\ S = {} => Sends(S, ch) = 0
         /\ \A l \in DOMAIN Channels \ S :
              Sends(S \cup {l}, ch) = Sends(S, ch) + (IF Channels[l] = ch THEN 1 ELSE 0)
         /\ \A T \in SUBSET S : Sends(T, ch) <= Sends(S, ch)
<1> DEFINE here(T) == {i \in T : Channels[i] = ch}
<1>1. IsFiniteSet(DOMAIN Channels)
  <2>1. DOMAIN Channels = 1 .. Len(Channels) /\ Len(Channels) \in Nat
    BY PubAssumption
  <2> QED
    BY <2>1, FS_Interval
<1>2. \A T \in SUBSET S : here(T) \in SUBSET here(S) /\ here(T) \in SUBSET DOMAIN Channels
  OBVIOUS
<1>3. here(S) \in SUBSET DOMAIN Channels /\ (S = {} => here(S) = {})
  OBVIOUS
<1>4. \A T : Sends(T, ch) = Cardinality(here(T))
  BY DEF Sends
<1>5. ASSUME NEW l \in DOMAIN Channels \ S
      PROVE  /\ Channels[l] = ch => here(S \cup {l}) = here(S) \cup {l} /\ l \notin here(S)
             /\ Channels[l] # ch => here(S \cup {l}) = here(S)
  OBVIOUS
<1> HIDE DEF here
<1>6. IsFiniteSet(here(S))
  BY <1>1, <1>3, FS_Subset
<1>7. Cardinality(here(S)) \in Nat /\ (S = {} => Cardinality(here(S)) = 0)
  BY <1>3, <1>6, FS_CardinalityType, FS_EmptySet
<1>8. ASSUME NEW l \in DOMAIN Channels \ S
      PROVE  Cardinality(here(S \cup {l})) =
               Cardinality(here(S)) + (IF Channels[l] = ch THEN 1 ELSE 0)
  <2>1. l \notin here(S) => Cardinality(here(S) \cup {l}) = Cardinality(here(S)) + 1
    BY <1>6, FS_AddElement
  <2>2. CASE Channels[l] = ch
    BY <1>5, <2>1, <2>2
  <2>3. CASE Channels[l] # ch
    <3>1. here(S \cup {l}) = here(S)
      BY <1>5, <2>3
    <3> QED
      BY <1>7, <2>3, <3>1
  <2> QED
    BY <2>2, <2>3
<1>9. ASSUME NEW T \in SUBSET S
      PROVE  Cardinality(here(T)) <= Cardinality(here(S))
  BY <1>2, <1>6, FS_Subset
<1> QED
  BY <1>4, <1>7, <1>8, <1>9

\* The front of what is left of a ring, and its places.
LEMMA RestIs ==
  ASSUME NEW s \in Seq(Messages), s # <<>>
  PROVE  /\ Len(s) \in Nat \ {0} /\ DOMAIN s = 1 .. Len(s)
         /\ Len(Tail(s)) = Len(s) - 1 /\ DOMAIN Tail(s) = 1 .. Len(s) - 1
         /\ \A i \in 1 .. Len(s) - 1 : Tail(s)[i] = s[i + 1]
         /\ Head(s) = s[1]
         /\ \A i \in DOMAIN Tail(s) :
              i \in Nat /\ i + 1 \in DOMAIN s \ {1} /\ Tail(s)[i] = s[i + 1]
<1>1. /\ Len(s) \in Nat \ {0} /\ DOMAIN s = 1 .. Len(s)
      /\ Len(Tail(s)) = Len(s) - 1 /\ DOMAIN Tail(s) = 1 .. Len(s) - 1
      /\ \A i \in 1 .. Len(s) - 1 : Tail(s)[i] = s[i + 1]
      /\ Head(s) = s[1]
  BY HeadTailProperties, LenProperties, EmptySeq
<1>2. \A n \in Nat \ {0} : \A i \in 1 .. n - 1 : i \in Nat /\ i + 1 \in 1 .. n /\ i + 1 # 1
  OBVIOUS
<1>3. ASSUME NEW i \in DOMAIN Tail(s)
      PROVE  i \in Nat /\ i + 1 \in DOMAIN s \ {1} /\ Tail(s)[i] = s[i + 1]
  BY <1>1, <1>2
<1> QED
  BY <1>1, <1>3

\* In how many places of a sequence a message is, ...
LEMMA HowManyIs ==
  ASSUME NEW s \in Seq(Messages), NEW m
  PROVE  /\ {i \in DOMAIN s : s[i] = m} \in SUBSET (1 .. Len(s))
         /\ IsFiniteSet({i \in DOMAIN s : s[i] = m})
         /\ HowMany(s, m) \in Nat
         /\ (\E i \in DOMAIN s : s[i] = m) => HowMany(s, m) >= 1
<1> DEFINE there == {i \in DOMAIN s : s[i] = m}
<1>1. DOMAIN s = 1 .. Len(s) /\ Len(s) \in Nat
  BY LenProperties
<1>2. there \in SUBSET (1 .. Len(s))
  BY <1>1
<1>3. HowMany(s, m) = Cardinality(there)
  BY DEF HowMany
<1>4. (\E i \in DOMAIN s : s[i] = m) => there # {}
  OBVIOUS
<1> HIDE DEF there
<1>5. IsFiniteSet(there)
  <2>1. IsFiniteSet(1 .. Len(s))
    BY <1>1, FS_Interval
  <2> QED
    BY <1>2, <2>1, FS_Subset
<1>6. Cardinality(there) \in Nat /\ (there # {} => Cardinality(there) # 0)
  BY <1>5, FS_CardinalityType, FS_EmptySet
<1>7. there # {} => Cardinality(there) >= 1
  BY <1>6
<1> QED
  BY <1>2, <1>3, <1>4, <1>5, <1>6, <1>7 DEF there

\* ... when one is appended, ...
LEMMA HowManyThen ==
  ASSUME NEW s \in Seq(Messages), NEW m0 \in Messages, NEW m
  PROVE  HowMany(Append(s, m0), m) = HowMany(s, m) + (IF m = m0 THEN 1 ELSE 0)
<1> DEFINE there(q) == {i \in DOMAIN q : q[i] = m}
           n == Len(s) + 1
<1>1. PICK more : more = Append(s, m0)
  OBVIOUS
<1>2. /\ Len(s) \in Nat /\ DOMAIN s = 1 .. Len(s) /\ DOMAIN more = 1 .. Len(s) + 1
      /\ \A i \in 1 .. Len(s) : more[i] = s[i]
      /\ more[Len(s) + 1] = m0
  BY <1>1, AppendProperties, LenProperties
<1>3. /\ n \in DOMAIN more /\ more[n] = m0 /\ n \notin DOMAIN s
      /\ \A i : (i \in DOMAIN more) <=> (i \in DOMAIN s \/ i = n)
      /\ \A i \in DOMAIN s : more[i] = s[i]
  BY <1>2
<1>4. IsFiniteSet(there(s)) /\ Cardinality(there(s)) \in Nat
  BY HowManyIs DEF HowMany
<1> HIDE DEF n
<1>5. n \notin there(s)
      /\ (m = m0 => there(more) = there(s) \cup {n}) /\ (m # m0 => there(more) = there(s))
  BY ONLY <1>3
<1>6. HowMany(more, m) = Cardinality(there(more)) /\ HowMany(s, m) = Cardinality(there(s))
  BY DEF HowMany
<1> HIDE DEF there
<1>7. n \notin there(s) => Cardinality(there(s) \cup {n}) = Cardinality(there(s)) + 1
  BY ONLY <1>4, FS_AddElement
<1>8. HowMany(more, m) = HowMany(s, m) + (IF m = m0 THEN 1 ELSE 0)
  <2>1. CASE m = m0
    BY ONLY <1>4, <1>5, <1>6, <1>7, <2>1
  <2>2. CASE m # m0
    <3>1. Cardinality(there(more)) = Cardinality(there(s))
      BY ONLY <1>5, <2>2
    <3> QED
      BY ONLY <1>4, <1>6, <2>2, <3>1
  <2> QED
    BY <2>1, <2>2
<1> QED
  BY <1>1, <1>8

\* ... and when the first is taken out.
LEMMA HowManyRest ==
  ASSUME NEW s \in Seq(Messages), s # <<>>, NEW m
  PROVE  HowMany(s, m) = HowMany(Tail(s), m) + (IF m = Head(s) THEN 1 ELSE 0)
<1> DEFINE there(q) == {i \in DOMAIN q : q[i] = m}
<1>1. PICK rest : rest = Tail(s)
  OBVIOUS
<1>2. rest \in Seq(Messages)
  BY <1>1, HeadTailProperties
<1>3. PICK n : n = Len(s)
  OBVIOUS
<1>4. /\ n \in Nat \ {0} /\ DOMAIN s = 1 .. n /\ DOMAIN rest = 1 .. n - 1
      /\ \A i \in 1 .. n - 1 : rest[i] = s[i + 1]
      /\ Head(s) = s[1]
  BY <1>1, <1>3, RestIs
<1>5. \A i \in there(rest) : i \in Nat /\ i + 1 \in there(s) \ {1}
  BY ONLY <1>4
<1>6. \A j \in there(s) \ {1} : j - 1 \in there(rest) /\ (j - 1) + 1 = j
  <2>1. \A j \in 1 .. n : j # 1 => j - 1 \in 1 .. n - 1 /\ (j - 1) + 1 = j
    BY ONLY <1>4
  <2> QED
    BY ONLY <1>4, <2>1
<1>7. 1 \in there(s) <=> m = Head(s)
  BY ONLY <1>4
<1>8. /\ IsFiniteSet(there(s)) /\ IsFiniteSet(there(rest))
      /\ Cardinality(there(s)) \in Nat /\ Cardinality(there(rest)) \in Nat
  BY <1>2, HowManyIs DEF HowMany
<1>9. HowMany(rest, m) = Cardinality(there(rest)) /\ HowMany(s, m) = Cardinality(there(s))
  BY DEF HowMany
<1> HIDE DEF there
<1>10. Cardinality(there(s) \ {1}) = Cardinality(there(rest))
  <2> DEFINE f == [i \in there(rest) |-> i + 1]
  <2>1. f \in Bijection(there(rest), there(s) \ {1})
    <3>1. f \in [there(rest) -> there(s) \ {1}]
      BY ONLY <1>5
    <3>2. \A i, j \in there(rest) : f[i] = f[j] => i = j
      BY ONLY <1>5
    <3>3. \A j \in there(s) \ {1} : \E i \in there(rest) : f[i] = j
      BY ONLY <1>6
    <3> HIDE DEF f
    <3>4. f \in Injection(there(rest), there(s) \ {1})
      BY ONLY <3>1, <3>2 DEF Injection, IsInjective
    <3>5. f \in Surjection(there(rest), there(s) \ {1})
      BY ONLY <3>1, <3>3 DEF Surjection
    <3> QED
      BY ONLY <3>4, <3>5 DEF Bijection
  <2>2. ExistsBijection(there(rest), there(s) \ {1})
    BY ONLY <2>1 DEF ExistsBijection
  <2> QED
    BY ONLY <1>8, <2>2, FS_Bijection
<1>11. Cardinality(there(s) \ {1}) =
         IF 1 \in there(s) THEN Cardinality(there(s)) - 1 ELSE Cardinality(there(s))
  BY ONLY <1>8, FS_RemoveElement
<1>12. HowMany(s, m) = HowMany(rest, m) + (IF m = Head(s) THEN 1 ELSE 0)
  BY ONLY <1>7, <1>8, <1>9, <1>10, <1>11
<1> QED
  BY <1>1, <1>12

-----------------------------------------------------------------------------
\* Nothing has been published at first.
LEMMA PubTypesInit ==
  ASSUME NEW work, PubInit(work)
  PROVE  PubTypes
<1>1. at \in [Clients -> Nat]
  <2>1. ASSUME NEW c \in Receivers
        PROVE  Least(Inbox(c)) \in Nat
    <3>1. Inbox(c) \subseteq Nat
      BY PlacesAreNumbers DEF Inbox
    <3>2. Inbox(c) # {}
      BY PlacesAreNumbers DEF Inbox, Receivers
    <3> QED
      BY <3>1, <3>2, LeastIsOne
  <2>2. \A c \in Clients : (IF c \in Receivers THEN Least(Inbox(c)) ELSE 0) \in Nat
    BY <2>1
  <2> QED
    BY <2>2 DEF PubInit
<1>2. subscribed \in [Clients -> SUBSET {ch.topic : ch \in Chans}]
  BY DEF PubInit, TopicsOf
<1>3. Len(Channels) \in Nat
  BY PubAssumption
<1>4. pub \in [Threads -> Publications]
  BY IdleIs DEF PubInit
<1>5. ring \in [Chans -> Seq(Messages)] /\ slot \in [Chans -> Messages \cup {None}]
  BY DEF PubInit
<1>6. /\ client \in [Clients -> {"off", "running", "deleting", "deleted"}]
      /\ rx \in [Clients -> {"none", "lookup", "poll", "callback", "gone"}]
  BY DEF PubInit
<1>7. /\ mutex \in [Clients -> {None} \cup Threads]
      /\ told \in [Messages -> {"unasked", "nothing", "ok", "failed"}]
      /\ taken \in [Messages -> [Clients -> Nat]]
      /\ heard \in [Messages -> [Clients -> Nat]]
      /\ registered = 0
  BY DEF PubInit
<1> QED
  BY <1>1, <1>2, <1>3, <1>4, <1>5, <1>6, <1>7 DEF PubTypes

\* A receive thread is at the first place of its inbox.
LEMMA ReceiverInit ==
  ASSUME NEW work, PubInit(work)
  PROVE  ReceiverInv
<1> SUFFICES ASSUME NEW c \in Clients
             PROVE  /\ subscribed[c] \subseteq TopicsOf(c)
                    /\ c \in Receivers => at[c] \in Inbox(c)
                    /\ rx[c] \in {"poll", "callback"} => c \in Receivers
                    /\ rx[c] = "callback" => ring[Here(c)] # <<>>
                    /\ client[c] = "off" => rx[c] = "none"
  BY DEF ReceiverInv
<1>1. c \in Receivers => at[c] \in Inbox(c)
  <2>1. Inbox(c) \subseteq Nat /\ (c \in Receivers => Inbox(c) # {})
    BY PlacesAreNumbers DEF Inbox, Receivers
  <2> QED
    BY <2>1, LeastIsOne DEF PubInit
<1> QED
  BY <1>1 DEF PubInit

\* No thread sends, no ring holds anything, and nothing was told.
LEMMA SenderInit ==
  ASSUME NEW work, PubInit(work)
  PROVE  SenderInv
  BY IdleIs DEF PubInit, SenderInv, SenderIs

LEMMA NothingThere ==
  ASSUME NEW work, PubInit(work)
  PROVE  /\ \A ch \in Chans : Len(ring[ch]) = 0 /\ DOMAIN ring[ch] = {}
         /\ \A m \in Messages : \A ch \in Destinations(m) : Copies(m, ch) = 0
<1>1. \A ch \in Chans : ring[ch] = <<>> /\ Len(ring[ch]) = 0 /\ DOMAIN ring[ch] = {}
  BY DEF PubInit
<1>2. ASSUME NEW m \in Messages, NEW ch \in Destinations(m)
      PROVE  Copies(m, ch) = 0
  <2>1. ch \in Chans /\ ch.suber \in Clients
    BY DestinationsAre, ClientsOfChannels
  <2>2. taken[m][ch.suber] = 0
    BY <2>1 DEF PubInit
  <2>3. {i \in DOMAIN ring[ch] : ring[ch][i] = m} = {}
    BY <1>1, <2>1
  <2> QED
    BY <2>2, <2>3, FS_EmptySet DEF Copies
<1> QED
  BY <1>1, <1>2

LEMMA OnceInit ==
  ASSUME NEW work, PubInit(work)
  PROVE  OnceInv
<1>1. \A m \in Counted : \A ch \in Destinations(m) : Copies(m, ch) = 0 /\ Listed(m, ch) \in Nat
  <2>1. \A m : Outbox(m) \subseteq DOMAIN Channels
    BY DEF Outbox
  <2> QED
    BY <2>1, NothingThere, SendsIs DEF Listed, Sends, Counted
<1> QED
  BY <1>1, NothingThere, PubAssumption DEF OnceInv, InRing

LEMMA ProgressInit ==
  ASSUME NEW work, PubInit(work)
  PROVE  ProgressInv
<1>1. \A th \in Threads : pub[th].step = "idle"
  BY IdleIs DEF PubInit
<1> QED
  BY <1>1, NothingThere DEF ProgressInv, ProgressOf, Counted

LEMMA AnswerInit ==
  ASSUME NEW work, PubInit(work)
  PROVE  AnswerTrue
  BY DEF PubInit, AnswerTrue, Counted

LEMMA HeardInit ==
  ASSUME NEW work, PubInit(work)
  PROVE  HeardInv
  BY DEF PubInit, HeardInv, Counted

-----------------------------------------------------------------------------
\* The steps that move a message or belong to a publication.
LEMMA PubSteps ==
  ASSUME [PubNext]_pvars
  PROVE  \/ UNCHANGED <<ring, taken, sending>>
         \/ \E c \in Clients : Discard(c) \/ EndCallback(c)
         \/ \E th \in Threads, m \in Messages : Publish(th, m)
         \/ \E th \in Threads : Send(th)
  BY DEF PubNext, pvars, sending, Delete, Receive, Register, New, BeginDelete, EndDelete,
         Unsubscribe, Subscribe, LookUp, PollNothing, BeginCallback, Cancelled

\* What counting a message once more makes of the count.
LEMMA OnceMoreIs ==
  ASSUME NEW times \in [Messages -> [Clients -> Nat]], NEW m0 \in Messages, NEW c \in Clients,
         NEW then, then = OnceMore(times, m0, c)
  PROVE  /\ then \in [Messages -> [Clients -> Nat]]
         /\ \A m \in Counted, d \in Clients :
              then[m][d] = times[m][d] + (IF m = m0 /\ d = c THEN 1 ELSE 0)
<1>1. PICK row : row = [times[m0] EXCEPT ![c] = @ + 1]
  OBVIOUS
<1>2. /\ row \in [Clients -> Nat] /\ row[c] = times[m0][c] + 1
      /\ \A d \in Clients : d # c => row[d] = times[m0][d]
  BY <1>1
<1>3. \A m \in Messages, d \in Clients : times[m][d] \in Nat
  OBVIOUS
<1>4. CASE m0 \in Repeated
  BY <1>3, <1>4 DEF OnceMore, Counted
<1>5. CASE m0 \notin Repeated
  <2>1. OnceMore(times, m0, c) = [times EXCEPT ![m0] = row]
    BY <1>1, <1>5 DEF OnceMore
  <2>2. \A m \in Messages : OnceMore(times, m0, c)[m] = IF m = m0 THEN row ELSE times[m]
    BY <2>1
  <2>3. OnceMore(times, m0, c) \in [Messages -> [Clients -> Nat]]
    BY <1>2, <2>1
  <2>4. ASSUME NEW m \in Messages, NEW d \in Clients
        PROVE  OnceMore(times, m0, c)[m][d] = times[m][d] + (IF m = m0 /\ d = c THEN 1 ELSE 0)
    BY <1>2, <1>3, <2>2
  <2> QED
    BY <2>3, <2>4 DEF Counted
<1> QED
  BY <1>4, <1>5

\* What taking a message out of a ring changes.
LEMMA TakeIs ==
  ASSUME PubTypes, ReceiverInv, NEW c \in Clients, Discard(c) \/ EndCallback(c)
  PROVE  LET h == Here(c)
             m0 == Head(ring[h])
         IN  /\ c \in Receivers /\ h \in Chans /\ h.suber = c
             /\ ring[h] # <<>> /\ m0 \in Messages
             /\ ring' \in [Chans -> Seq(Messages)] /\ ring'[h] = Tail(ring[h])
             /\ \A ch \in Chans : ch # h => ring'[ch] = ring[ch]
             /\ taken' \in [Messages -> [Clients -> Nat]]
             /\ \A m \in Counted, d \in Clients :
                  taken'[m][d] = taken[m][d] + (IF m = m0 /\ d = c THEN 1 ELSE 0)
             /\ UNCHANGED sending
<1> DEFINE h == Here(c)
           m0 == Head(ring[h])
<1>1. /\ c \in Receivers /\ ring[h] # <<>> /\ Take(c)
      /\ UNCHANGED sending
  BY DEF ReceiverInv, Discard, EndCallback
<1>2. h \in Chans /\ h.suber = c
  BY <1>1, HereIs
<1> HIDE DEF h
<1>3. ring[h] \in Seq(Messages) /\ m0 \in Messages /\ Tail(ring[h]) \in Seq(Messages)
  BY <1>1, <1>2, HeadTailProperties DEF PubTypes
<1>4. /\ ring' = [ring EXCEPT ![h] = Tail(@)]
      /\ taken' = OnceMore(taken, m0, c)
  BY <1>1 DEF Take, h
<1>5. /\ ring' \in [Chans -> Seq(Messages)] /\ ring'[h] = Tail(ring[h])
      /\ \A ch \in Chans : ch # h => ring'[ch] = ring[ch]
  BY <1>2, <1>3, <1>4 DEF PubTypes
<1> HIDE DEF m0
<1>6. taken \in [Messages -> [Clients -> Nat]]
  BY DEF PubTypes
<1>8. PICK times, one, then : times = taken /\ one = m0 /\ then = taken'
  OBVIOUS
<1>9. times \in [Messages -> [Clients -> Nat]] /\ one \in Messages
      /\ then = OnceMore(times, one, c)
  BY <1>3, <1>4, <1>6, <1>8
<1>10. /\ then \in [Messages -> [Clients -> Nat]]
       /\ \A m \in Counted, d \in Clients :
            then[m][d] = times[m][d] + (IF m = one /\ d = c THEN 1 ELSE 0)
  BY ONLY c \in Clients, <1>9, OnceMoreIs
<1>7. /\ taken' \in [Messages -> [Clients -> Nat]]
      /\ \A m \in Counted, d \in Clients :
           taken'[m][d] = taken[m][d] + (IF m = m0 /\ d = c THEN 1 ELSE 0)
  BY <1>8, <1>10
<1> QED
  BY <1>1, <1>2, <1>3, <1>5, <1>7 DEF h, m0

\* What the end of a slot changes.
LEMMA EndIs ==
  ASSUME PubTypes, SenderInv, NEW th \in Threads, EndSlot(th)
  PROVE  LET d == NextChan(th)
             m0 == pub[th].msg
         IN  /\ m0 \in Messages /\ d \in Destinations(m0) /\ d \in Chans
             /\ ring' \in [Chans -> Seq(Messages)] /\ ring'[d] = Append(ring[d], m0)
             /\ \A ch \in Chans : ch # d => ring'[ch] = ring[ch]
             /\ Len(ring[d]) < Capacity
             /\ UNCHANGED taken
<1> DEFINE d == NextChan(th)
           m0 == pub[th].msg
<1>1. pub[th].step = "fill"
  BY DEF EndSlot
<1>2. m0 \in Messages /\ MoreToSend(th) /\ slot[d] = m0 /\ Len(ring[d]) < Capacity
  BY <1>1 DEF SenderInv, SenderIs
<1>3. d \in Destinations(m0) /\ d \in Chans
  BY <1>1, <1>2, NextIs
<1> HIDE DEF d, m0
<1>4. ring' = [ring EXCEPT ![d] = Append(@, m0)] /\ UNCHANGED taken
  BY <1>2 DEF EndSlot, d
<1>5. ring[d] \in Seq(Messages) /\ Append(ring[d], m0) \in Seq(Messages)
  BY <1>2, <1>3, AppendProperties DEF PubTypes
<1>6. /\ ring' \in [Chans -> Seq(Messages)] /\ ring'[d] = Append(ring[d], m0)
      /\ \A ch \in Chans : ch # d => ring'[ch] = ring[ch]
  BY <1>3, <1>4, <1>5 DEF PubTypes
<1> QED
  BY <1>2, <1>3, <1>4, <1>6 DEF d, m0

-----------------------------------------------------------------------------
\* Every step keeps the types, ...
LEMMA PubTypesStep ==
  ASSUME PubTypes, ReceiverInv, SenderInv, [PubNext]_pvars
  PROVE  PubTypes'
<1> USE DEF PubTypes
<1>1. CASE Register
  BY <1>1, PubAssumption DEF Register, sending
<1>2. ASSUME NEW c \in Clients, New(c) \/ BeginDelete(c) \/ EndDelete(c)
      PROVE  PubTypes'
  <2>1. /\ client' \in [Clients -> {"off", "running", "deleting", "deleted"}]
        /\ rx' \in [Clients -> {"none", "lookup", "poll", "callback", "gone"}]
    BY <1>2 DEF New, BeginDelete, EndDelete
  <2> QED
    BY <1>2, <2>1 DEF New, BeginDelete, EndDelete, sending
<1>3. ASSUME NEW c \in Clients, NEW t \in TopicsOf(c), Unsubscribe(c, t) \/ Subscribe(c, t)
      PROVE  PubTypes'
  <2> DEFINE T == {ch.topic : ch \in Chans}
  <2>1. t \in T
    BY DEF TopicsOf
  <2> HIDE DEF T
  <2>2. PICK S : S = subscribed[c]
    OBVIOUS
  <2>3. subscribed \in [Clients -> SUBSET T]
    BY DEF T
  <2>4. S \cup {t} \in SUBSET T /\ S \ {t} \in SUBSET T
    <3>1. S \in SUBSET T
      BY <2>2, <2>3
    <3> QED
      BY <2>1, <3>1
  <2>5. \/ subscribed' = [subscribed EXCEPT ![c] = S \cup {t}]
        \/ subscribed' = [subscribed EXCEPT ![c] = S \ {t}]
    BY <1>3, <2>2 DEF Subscribe, Unsubscribe
  <2>6. subscribed' \in [Clients -> SUBSET T]
    BY <2>3, <2>4, <2>5
  <2> QED
    BY <1>3, <2>6 DEF Subscribe, Unsubscribe, sending, T
<1>4. ASSUME NEW c \in Clients, LookUp(c) \/ Cancelled(c)
      PROVE  PubTypes'
  <2>1. rx' \in [Clients -> {"none", "lookup", "poll", "callback", "gone"}]
    BY <1>4 DEF LookUp, Cancelled
  <2> QED
    BY <1>4, <2>1 DEF LookUp, Cancelled, sending
<1>5. ASSUME NEW c \in Clients, PollNothing(c)
      PROVE  PubTypes'
  <2>1. c \in Receivers
    BY <1>5 DEF PollNothing, ReceiverInv
  <2>2. at' \in [Clients -> Nat]
    BY <1>5, <2>1, NextPlaceIs DEF PollNothing
  <2> QED
    BY <1>5, <2>2 DEF PollNothing, sending
<1>6. ASSUME NEW c \in Clients, BeginCallback(c)
      PROVE  PubTypes'
  <2> DEFINE m0 == Head(ring[Here(c)])
  <2>1. c \in Receivers /\ ring[Here(c)] # <<>>
    BY <1>6 DEF BeginCallback, ReceiverInv
  <2>2. m0 \in Messages
    BY <2>1, HereIs, HeadTailProperties
  <2>3. heard' = OnceMore(heard, m0, c)
    BY <1>6 DEF BeginCallback
  <2> HIDE DEF m0
  <2>4. heard' \in [Messages -> [Clients -> Nat]]
    BY <2>2, <2>3, OnceMoreIs
  <2>5. rx' \in [Clients -> {"none", "lookup", "poll", "callback", "gone"}]
    BY <1>6 DEF BeginCallback
  <2> QED
    BY <1>6, <2>4, <2>5 DEF BeginCallback, sending
<1>7. ASSUME NEW c \in Clients, Discard(c) \/ EndCallback(c)
      PROVE  PubTypes'
  <2>1. /\ ring' \in [Chans -> Seq(Messages)] /\ taken' \in [Messages -> [Clients -> Nat]]
        /\ c \in Receivers
    BY <1>7, TakeIs
  <2>2. NextPlace(c) \in Nat /\ at' = [at EXCEPT ![c] = NextPlace(c)]
    BY <1>7, <2>1, NextPlaceIs DEF Discard, EndCallback
  <2>3. at' \in [Clients -> Nat]
    BY <2>2
  <2>4. rx' \in [Clients -> {"none", "lookup", "poll", "callback", "gone"}]
    <3>1. rx' = rx \/ rx' = [rx EXCEPT ![c] = "poll"]
      BY <1>7 DEF Discard, EndCallback
    <3> QED
      BY <3>1
  <2> QED
    BY <1>7, <2>1, <2>3, <2>4 DEF Discard, EndCallback, sending
<1>8. ASSUME NEW th \in Threads, NEW m \in Messages, Publish(th, m)
      PROVE  PubTypes'
  <2>1. pub' \in [Threads -> Publications]
    BY <1>8, SenderShapes DEF Becomes
  <2> QED
    BY <1>8, <2>1 DEF Publish
<1>9. ASSUME NEW th \in Threads, LockPub(th) \/ AllocSlot(th) \/ MissSubscriber(th)
      PROVE  PubTypes'
  <2>1. pub' \in [Threads -> Publications]
    BY <1>9, SenderShapes DEF Becomes
  <2>2. mutex' \in [Clients -> {None} \cup Threads]
    BY <1>9 DEF LockPub, AllocSlot, MissSubscriber
  <2>3. slot' \in [Chans -> Messages \cup {None}]
    <3>1. pub[th].msg \in Messages \cup {None}
      BY DEF Publications
    <3> QED
      BY <1>9, <3>1 DEF LockPub, AllocSlot, MissSubscriber
  <2> QED
    BY <1>9, <2>1, <2>2, <2>3 DEF LockPub, AllocSlot, MissSubscriber
<1>10. ASSUME NEW th \in Threads, EndSlot(th)
       PROVE  PubTypes'
  <2>1. pub' \in [Threads -> Publications] /\ ring' \in [Chans -> Seq(Messages)]
    BY <1>10, SenderShapes, EndIs DEF Becomes
  <2>2. slot' \in [Chans -> Messages \cup {None}]
    BY <1>10 DEF EndSlot
  <2> QED
    BY <1>10, <2>1, <2>2 DEF EndSlot
<1>11. ASSUME NEW th \in Threads, FinishPub(th) \/ CutShort(th)
       PROVE  PubTypes'
  <2>1. pub' \in [Threads -> Publications]
    BY <1>11, SenderShapes DEF Becomes
  <2>2. PICK a \in {"ok", "failed"} : FinishWith(th, a)
    BY <1>11 DEF FinishPub, CutShort, Answer
  <2>3. told' \in [Messages -> {"unasked", "nothing", "ok", "failed"}]
    <3>1. \/ told' = [told EXCEPT ![pub[th].msg] = a]
          \/ told' = [told EXCEPT ![pub[th].msg] = @]
      BY <2>2 DEF FinishWith
    <3> QED
      BY <3>1
  <2>4. mutex' \in [Clients -> {None} \cup Threads]
    BY <2>2 DEF FinishWith
  <2> QED
    BY <2>1, <2>2, <2>3, <2>4 DEF FinishWith
<1>12. CASE UNCHANGED pvars
  BY <1>12 DEF pvars
<1> QED
  BY <1>1, <1>2, <1>3, <1>4, <1>5, <1>6, <1>7, <1>8, <1>9, <1>10, <1>11, <1>12
  DEF PubNext, Delete, Receive, Send

\* ... a receive thread stays at a place of its inbox, and is in a callback only
\* with the message, ...
LEMMA ReceiverStep ==
  ASSUME PubTypes, ReceiverInv, SenderInv, [PubNext]_pvars
  PROVE  ReceiverInv'
<1> USE DEF ReceiverInv, Here
<1>1. CASE UNCHANGED <<client, subscribed, rx, at, ring>>
  BY <1>1
<1>2. ASSUME NEW c \in Clients, New(c) \/ BeginDelete(c) \/ EndDelete(c)
      PROVE  ReceiverInv'
  BY <1>2 DEF New, BeginDelete, EndDelete, PubTypes
<1>3. ASSUME NEW c \in Clients, NEW t \in TopicsOf(c), Unsubscribe(c, t) \/ Subscribe(c, t)
      PROVE  ReceiverInv'
  <2>1. subscribed'[c] \subseteq TopicsOf(c)
        /\ \A d \in Clients : d # c => subscribed'[d] = subscribed[d]
    BY <1>3 DEF Subscribe, Unsubscribe, PubTypes
  <2>2. UNCHANGED <<client, rx, at, ring>>
    BY <1>3 DEF Subscribe, Unsubscribe
  <2> QED
    BY <2>1, <2>2
<1>4. ASSUME NEW c \in Clients, LookUp(c) \/ Cancelled(c)
      PROVE  ReceiverInv'
  <2>1. Inbox(c) # {} => c \in Receivers
    BY PlacesAreNumbers DEF Inbox, Receivers
  <2> QED
    BY <1>4, <2>1 DEF LookUp, Cancelled, PubTypes, Deleted
<1>5. ASSUME NEW c \in Clients, PollNothing(c)
      PROVE  ReceiverInv'
  <2>1. c \in Receivers
    BY <1>5 DEF PollNothing
  <2>2. NextPlace(c) \in Inbox(c)
    BY <2>1, NextPlaceIs
  <2> QED
    BY <1>5, <2>1, <2>2 DEF PollNothing, PubTypes
<1>6. ASSUME NEW c \in Clients, BeginCallback(c)
      PROVE  ReceiverInv'
  BY <1>6 DEF BeginCallback, PubTypes
<1>7. ASSUME NEW c \in Clients, Discard(c) \/ EndCallback(c)
      PROVE  ReceiverInv'
  <2>1. /\ c \in Receivers /\ Here(c) \in Chans /\ Here(c).suber = c
        /\ \A ch \in Chans : ch # Here(c) => ring'[ch] = ring[ch]
    BY <1>7, TakeIs
  <2>2. NextPlace(c) \in Inbox(c)
    BY <2>1, NextPlaceIs
  <2>3. /\ at' = [at EXCEPT ![c] = NextPlace(c)]
        /\ UNCHANGED <<client, subscribed>>
        /\ rx' = [rx EXCEPT ![c] = "poll"]
        /\ client[c] # "off"
    BY <1>7, <2>1, NextPlaceIs DEF Discard, EndCallback, PubTypes
  <2>4. \A d \in Clients : d # c => at'[d] = at[d] /\ rx'[d] = rx[d]
    BY <2>3 DEF PubTypes
  <2>5. at'[c] = NextPlace(c) /\ rx'[c] = "poll"
    BY <2>3 DEF PubTypes
  <2>6. ASSUME NEW d \in Clients, d # c, d \in Receivers
        PROVE  ring'[Channels[at[d]]] = ring[Channels[at[d]]]
    BY <2>1, <2>6, HereIs
  <2> QED
    BY <2>1, <2>2, <2>3, <2>4, <2>5, <2>6
<1>8. ASSUME NEW th \in Threads, EndSlot(th)
      PROVE  ReceiverInv'
  <2> DEFINE d == NextChan(th)
             m0 == pub[th].msg
  <2>1. /\ m0 \in Messages /\ d \in Chans /\ ring'[d] = Append(ring[d], m0)
        /\ \A ch \in Chans : ch # d => ring'[ch] = ring[ch]
    BY <1>8, EndIs
  <2> HIDE DEF d, m0
  <2>2. \A ch \in Chans : ring[ch] # <<>> => ring'[ch] # <<>>
    BY <2>1, AppendProperties DEF PubTypes
  <2>3. \A c \in Receivers : Here(c) \in Chans
    BY HereIs
  <2> QED
    BY <1>8, <2>2, <2>3 DEF EndSlot
<1>9. ASSUME NEW th \in Threads, Send(th), ~EndSlot(th)
      PROVE  UNCHANGED <<client, subscribed, rx, at, ring>>
  BY <1>9 DEF Send, LockPub, AllocSlot, MissSubscriber, FinishPub, CutShort, FinishWith
<1>10. ASSUME NEW th \in Threads, NEW m \in Messages, Publish(th, m)
       PROVE  UNCHANGED <<client, subscribed, rx, at, ring>>
  BY <1>10 DEF Publish
<1>11. Register \/ UNCHANGED pvars => UNCHANGED <<client, subscribed, rx, at, ring>>
  BY DEF Register, pvars
<1> QED
  BY <1>1, <1>2, <1>3, <1>4, <1>5, <1>6, <1>7, <1>8, <1>9, <1>10, <1>11
  DEF PubNext, Delete, Receive

\* The mutex keeps two threads of a client from being at the same channel.
LEMMA SendersApart ==
  ASSUME PubTypes, SenderInv, NEW th \in Threads, NEW u \in Threads, u # th,
         pub[th].step \in {"alloc", "fill"}, pub[u].step \in {"alloc", "fill"}
  PROVE  /\ u[1] # th[1]
         /\ MoreToSend(th) /\ MoreToSend(u) => NextChan(u) # NextChan(th)
<1>1. mutex[th[1]] = th /\ mutex[u[1]] = u
  BY DEF SenderInv, SenderIs
<1>2. /\ MoreToSend(th) => NextChan(th).puber = th[1]
      /\ MoreToSend(u) => NextChan(u).puber = u[1]
  BY NextIs
<1> QED
  BY <1>1, <1>2

\* Two threads are at different publications.
LEMMA MessagesApart ==
  ASSUME SenderInv, NEW th \in Threads, NEW u \in Threads, u # th,
         pub[th].step # "idle", pub[u].step # "idle"
  PROVE  pub[u].msg # pub[th].msg
  BY DEF SenderInv, SenderIs

\* ... a sender fills its slot under the mutex, ...
LEMMA SenderStep ==
  ASSUME PubTypes, ReceiverInv, SenderInv, [PubNext]_pvars
  PROVE  SenderInv'
<1>1. CASE UNCHANGED <<ring, taken, sending>>
  BY <1>1 DEF SenderInv, SenderIs, MoreToSend, NextChan, sending
<1>2. ASSUME NEW c \in Clients, Discard(c) \/ EndCallback(c), NEW u \in Threads
      PROVE  SenderIs(u)'
  <2>1. SenderIs(u)
    BY DEF SenderInv
  <2>2. UNCHANGED sending
    BY <1>2, TakeIs
  <2>3. ASSUME pub[u].step = "fill"
        PROVE  Len(ring'[NextChan(u)]) < Capacity
    <3> DEFINE d == NextChan(u)
               h == Here(c)
    <3>1. d \in Chans /\ Len(ring[d]) < Capacity
      BY <2>1, <2>3, NextIs DEF SenderIs
    <3>2. /\ h \in Chans /\ ring[h] # <<>> /\ ring'[h] = Tail(ring[h])
          /\ \A ch \in Chans : ch # h => ring'[ch] = ring[ch]
      BY <1>2, TakeIs
    <3> HIDE DEF d, h
    <3>3. ring[h] \in Seq(Messages)
      BY <3>2 DEF PubTypes
    <3>4. Len(ring'[h]) = Len(ring[h]) - 1 /\ Len(ring[h]) \in Nat /\ Capacity \in Nat
      BY <3>2, <3>3, RestIs, PubAssumption
    <3>5. d = h => Len(ring'[d]) < Capacity
      <4>1. \A n \in Nat : n < Capacity => n - 1 < Capacity
        BY <3>4
      <4> QED
        BY <3>1, <3>4, <4>1
    <3>6. d # h => Len(ring'[d]) < Capacity
      BY <3>1, <3>2
    <3> QED
      BY <3>5, <3>6 DEF d
  <2> QED
    BY <2>1, <2>2, <2>3 DEF SenderIs, MoreToSend, NextChan, sending
<1>3. ASSUME NEW th \in Threads, NEW u \in Threads, u # th, pub'[u] = pub[u],
             pub[u].step # "idle" => told'[pub[u].msg] = told[pub[u].msg],
             pub[u].step \in {"alloc", "fill"} => mutex'[u[1]] = mutex[u[1]],
             pub[u].step = "fill" =>
               slot'[NextChan(u)] = slot[NextChan(u)] /\ ring'[NextChan(u)] = ring[NextChan(u)]
      PROVE  SenderIs(u)'
  <2>1. SenderIs(u)
    BY DEF SenderInv
  <2>2. NextChan(u)' = NextChan(u) /\ MoreToSend(u)' = MoreToSend(u)
    BY <1>3 DEF NextChan, MoreToSend
  <2>3. pub[u].step = "fill" =>
          /\ MoreToSend(u)'
          /\ slot'[NextChan(u)'] = pub'[u].msg
          /\ Len(ring'[NextChan(u)']) < Capacity
    BY <1>3, <2>1, <2>2 DEF SenderIs
  <2> QED
    BY <1>3, <2>1, <2>3 DEF SenderIs
<1>4. ASSUME NEW th \in Threads, NEW m \in Messages, Publish(th, m), NEW u \in Threads
      PROVE  SenderIs(u)'
  <2>1. Becomes(th, "lock", m, Outbox(m), FALSE, 0)
    BY <1>4, SenderShapes
  <2>2. told[m] = "nothing" /\ <<m.by, m.thread>> = th /\ UNCHANGED <<ring, slot, mutex, told>>
    BY <1>4 DEF Publish, Unpublished
  <2>3. CASE u = th
    BY <2>1, <2>2, <2>3 DEF SenderIs, Becomes
  <2>4. CASE u # th
    BY <1>3, <2>1, <2>2, <2>4 DEF Becomes
  <2> QED
    BY <2>3, <2>4
<1>5. ASSUME NEW th \in Threads, LockPub(th), NEW u \in Threads
      PROVE  SenderIs(u)'
  <2> DEFINE p == pub[th]
  <2>1. Becomes(th, "alloc", p.msg, p.left, p.failed, p.sent)
    BY <1>5, SenderShapes
  <2>2. /\ p.step = "lock" /\ mutex[th[1]] = None /\ th[1] \in Clients
        /\ mutex' = [mutex EXCEPT ![th[1]] = th]
        /\ UNCHANGED <<ring, slot, told>>
    BY <1>5, ThreadsAre DEF LockPub, CanLock
  <2>3. SenderIs(u) /\ SenderIs(th)
    BY DEF SenderInv
  <2>4. CASE u = th
    <3>1. mutex'[th[1]] = th
      BY <2>2 DEF PubTypes
    <3> QED
      BY <2>1, <2>2, <2>3, <2>4, <3>1 DEF SenderIs, Becomes
  <2>5. CASE u # th
    <3>1. pub[u].step \in {"alloc", "fill"} => u[1] # th[1]
      BY <2>2, <2>3, PubAssumption DEF SenderIs
    <3>2. pub[u].step \in {"alloc", "fill"} => mutex'[u[1]] = mutex[u[1]]
      BY <2>2, <3>1, ThreadsAre DEF PubTypes
    <3> QED
      BY <1>3, <2>1, <2>2, <2>5, <3>2 DEF Becomes
  <2> QED
    BY <2>4, <2>5
<1>6. ASSUME NEW th \in Threads, AllocSlot(th), NEW u \in Threads
      PROVE  SenderIs(u)'
  <2> DEFINE p == pub[th]
             d == NextChan(th)
  <2>1. Becomes(th, "fill", p.msg, p.left, p.failed, p.sent)
    BY <1>6, SenderShapes
  <2>2. /\ p.step = "alloc" /\ MoreToSend(th) /\ Len(ring[d]) < Capacity
        /\ slot' = [slot EXCEPT ![d] = p.msg]
        /\ UNCHANGED <<ring, mutex, told>>
    BY <1>6 DEF AllocSlot, CanAlloc
  <2>3. SenderIs(u) /\ SenderIs(th) /\ d \in Chans
    BY <2>2, NextIs DEF SenderInv
  <2>4. d' = d /\ MoreToSend(th)' = MoreToSend(th)
    BY <2>1 DEF Becomes, NextChan, MoreToSend
  <2>5. slot'[d] = p.msg
    BY <2>2, <2>3 DEF PubTypes
  <2>6. CASE u = th
    <3>1. slot'[NextChan(th)'] = pub'[th].msg /\ Len(ring'[NextChan(th)']) < Capacity
      BY <2>1, <2>2, <2>4, <2>5 DEF Becomes
    <3> HIDE DEF d
    <3> QED
      BY <2>1, <2>2, <2>3, <2>4, <2>6, <3>1 DEF SenderIs, Becomes
  <2>7. CASE u # th
    <3>1. pub[u].step = "fill" => NextChan(u) # d /\ NextChan(u) \in Chans
      BY <2>2, <2>3, <2>7, SendersApart, NextIs DEF SenderIs
    <3>2. pub[u].step = "fill" => slot'[NextChan(u)] = slot[NextChan(u)]
      BY <2>2, <3>1 DEF PubTypes
    <3> QED
      BY <1>3, <2>1, <2>2, <2>7, <3>2 DEF Becomes
  <2> QED
    BY <2>6, <2>7
<1>7. ASSUME NEW th \in Threads, MissSubscriber(th), NEW u \in Threads
      PROVE  SenderIs(u)'
  <2> DEFINE p == pub[th]
  <2>1. Becomes(th, p.step, p.msg, p.left \ {Least(p.left)}, TRUE, p.sent)
    BY <1>7, SenderShapes
  <2>2. p.step = "alloc" /\ UNCHANGED <<ring, slot, mutex, told>>
    BY <1>7 DEF MissSubscriber
  <2>3. SenderIs(th)
    BY DEF SenderInv
  <2>4. CASE u = th
    BY <2>1, <2>2, <2>3, <2>4 DEF SenderIs, Becomes
  <2>5. CASE u # th
    BY <1>3, <2>1, <2>2, <2>5 DEF Becomes
  <2> QED
    BY <2>4, <2>5
<1>8. ASSUME NEW th \in Threads, EndSlot(th), NEW u \in Threads
      PROVE  SenderIs(u)'
  <2> DEFINE p == pub[th]
             d == NextChan(th)
  <2>1. Becomes(th, "alloc", p.msg, p.left \ {Least(p.left)}, p.failed, p.sent + 1)
    BY <1>8, SenderShapes
  <2>2. /\ p.step = "fill" /\ slot' = [slot EXCEPT ![d] = None]
        /\ UNCHANGED <<mutex, told>>
    BY <1>8 DEF EndSlot
  <2>3. SenderIs(th) /\ SenderIs(u) /\ d \in Chans
    BY <2>2, NextIs DEF SenderInv, SenderIs
  <2>4. \A ch \in Chans : ch # d => ring'[ch] = ring[ch]
    BY <1>8, EndIs
  <2>5. CASE u = th
    BY <2>1, <2>2, <2>3, <2>5 DEF SenderIs, Becomes
  <2>6. CASE u # th
    <3>1. pub[u].step = "fill" => NextChan(u) # d /\ NextChan(u) \in Chans
      BY <2>2, <2>3, <2>6, SendersApart, NextIs DEF SenderIs
    <3>2. pub[u].step = "fill" => slot'[NextChan(u)] = slot[NextChan(u)]
      BY <2>2, <3>1 DEF PubTypes
    <3>3. pub[u].step = "fill" => ring'[NextChan(u)] = ring[NextChan(u)]
      BY <2>4, <3>1
    <3> QED
      BY <1>3, <2>1, <2>2, <2>6, <3>2, <3>3 DEF Becomes
  <2> QED
    BY <2>5, <2>6
<1>9. ASSUME NEW th \in Threads, FinishPub(th) \/ CutShort(th), NEW u \in Threads
      PROVE  SenderIs(u)'
  <2>1. Becomes(th, "idle", None, {}, FALSE, 0)
    BY <1>9, SenderShapes
  <2>2. PICK a : FinishWith(th, a)
    BY <1>9 DEF FinishPub, CutShort
  <2>3. /\ told' = [told EXCEPT ![pub[th].msg] = IF pub[th].msg \in Repeated THEN @ ELSE a]
        /\ mutex' = [mutex EXCEPT ![th[1]] = None]
        /\ UNCHANGED <<ring, slot>>
    BY <2>2 DEF FinishWith
  <2>4. pub[th].step = "alloc"
    BY <1>9 DEF FinishPub, CutShort
  <2>5. CASE u = th
    BY <2>1, <2>5 DEF SenderIs, Becomes
  <2>6. CASE u # th
    <3>1. pub[u].step # "idle" => told'[pub[u].msg] = told[pub[u].msg]
      <4>1. pub[u].step # "idle" => pub[u].msg # pub[th].msg /\ pub[u].msg \in Messages
        BY <2>4, <2>6, MessagesApart DEF SenderInv, SenderIs
      <4> QED
        BY <2>3, <4>1 DEF PubTypes
    <3>2. pub[u].step \in {"alloc", "fill"} => mutex'[u[1]] = mutex[u[1]]
      <4>1. pub[u].step \in {"alloc", "fill"} => u[1] # th[1]
        BY <2>4, <2>6, SendersApart
      <4> QED
        BY <2>3, <4>1, ThreadsAre DEF PubTypes
    <3> QED
      BY <1>3, <2>1, <2>3, <2>6, <3>1, <3>2 DEF Becomes
  <2> QED
    BY <2>5, <2>6
<1> QED
  BY <1>1, <1>2, <1>4, <1>5, <1>6, <1>7, <1>8, <1>9, PubSteps DEF SenderInv, Send

-----------------------------------------------------------------------------
\* Taking a message out of a ring moves it: a client has it as often as before, ...
LEMMA TakeMoves ==
  ASSUME PubTypes, ReceiverInv, OnceInv, NEW c \in Clients, Discard(c) \/ EndCallback(c)
  PROVE  /\ \A m \in Messages, ch \in Chans : InRing(m, ch)' => InRing(m, ch)
         /\ \A m \in Counted : \A ch \in Destinations(m) : Copies(m, ch)' = Copies(m, ch)
<1> DEFINE h == Here(c)
           m0 == Head(ring[h])
<1>1. /\ c \in Receivers /\ h \in Chans /\ h.suber = c
      /\ ring[h] # <<>> /\ m0 \in Messages
      /\ ring'[h] = Tail(ring[h])
      /\ \A ch \in Chans : ch # h => ring'[ch] = ring[ch]
      /\ \A m \in Counted, d \in Clients :
           taken'[m][d] = taken[m][d] + (IF m = m0 /\ d = c THEN 1 ELSE 0)
  BY TakeIs
<1>2. ring[h] \in Seq(Messages)
  BY <1>1 DEF PubTypes
<1> HIDE DEF h
<1>3. /\ 1 \in DOMAIN ring[h] /\ m0 = ring[h][1]
      /\ \A i \in DOMAIN ring'[h] : i + 1 \in DOMAIN ring[h] /\ ring'[h][i] = ring[h][i + 1]
  BY <1>1, <1>2, RestIs DEF m0
<1>4. ASSUME NEW m
      PROVE  /\ HowMany(ring[h], m) = HowMany(ring'[h], m) + (IF m = m0 THEN 1 ELSE 0)
             /\ HowMany(ring'[h], m) \in Nat
  <2>1. ring'[h] \in Seq(Messages) /\ m0 = Head(ring[h])
    BY <1>1, <1>2, HeadTailProperties DEF m0
  <2>2. HowMany(ring'[h], m) \in Nat
    BY <2>1, HowManyIs
  <2>3. HowMany(ring[h], m) = HowMany(Tail(ring[h]), m) + (IF m = Head(ring[h]) THEN 1 ELSE 0)
    BY <1>1, <1>2, HowManyRest
  <2> QED
    BY <1>1, <2>1, <2>2, <2>3
<1> HIDE DEF m0
<1>5. h \in Destinations(m0)
  <2>1. InRing(m0, h)
    BY <1>3 DEF InRing
  <2> QED
    BY <1>1, <2>1 DEF OnceInv
<1>6. ASSUME NEW m \in Messages, NEW ch \in Chans, InRing(m, ch)'
      PROVE  InRing(m, ch)
  <2>1. CASE ch # h
    BY <1>1, <1>6, <2>1 DEF InRing
  <2>2. CASE ch = h
    <3>1. PICK i \in DOMAIN ring'[h] : ring'[h][i] = m
      BY <1>6, <2>2 DEF InRing
    <3> QED
      BY <1>3, <2>2, <3>1 DEF InRing
  <2> QED
    BY <2>1, <2>2
<1>7. ASSUME NEW m \in Counted, NEW ch \in Destinations(m)
      PROVE  Copies(m, ch)' = Copies(m, ch)
  <2>1. m \in Messages /\ ch \in Chans /\ ch.suber \in Clients
    BY DestinationsAre, ClientsOfChannels DEF Counted
  <2>2. m = m0 /\ ch.suber = c => ch = h
    BY <1>1, <1>5, <2>1, DestinationsAre, OneChannel
  <2>3. /\ Copies(m, ch) = HowMany(ring[ch], m) + taken[m][ch.suber]
        /\ Copies(m, ch)' = HowMany(ring'[ch], m) + taken'[m][ch.suber]
    BY DEF Copies, HowMany
  <2>4. /\ taken[m][ch.suber] \in Nat
        /\ taken'[m][ch.suber] =
             taken[m][ch.suber] + (IF m = m0 /\ ch.suber = c THEN 1 ELSE 0)
    BY <1>1, <2>1 DEF PubTypes
  <2>5. CASE ch = h
    <3>1. ch.suber = c /\ HowMany(ring'[ch], m) \in Nat
          /\ HowMany(ring[ch], m) = HowMany(ring'[ch], m) + (IF m = m0 THEN 1 ELSE 0)
      BY <1>1, <1>4, <2>5
    <3> QED
      BY ONLY <2>3, <2>4, <3>1
  <2>6. CASE ch # h
    <3>1. ring'[ch] = ring[ch] /\ ~(m = m0 /\ ch.suber = c)
      BY <1>1, <2>1, <2>2, <2>6
    <3> QED
      BY <2>3, <2>4, <3>1
  <2> QED
    BY <2>5, <2>6
<1> QED
  BY <1>6, <1>7

\* ... and the end of a slot puts one more there.
LEMMA EndMoves ==
  ASSUME PubTypes, SenderInv, NEW th \in Threads, EndSlot(th)
  PROVE  LET d == NextChan(th)
             m0 == pub[th].msg
         IN  /\ \A m \in Messages, ch \in Chans :
                  InRing(m, ch)' => InRing(m, ch) \/ (m = m0 /\ ch = d)
             /\ \A m \in Counted : \A ch \in Destinations(m) :
                  Copies(m, ch)' = Copies(m, ch) + (IF m = m0 /\ ch = d THEN 1 ELSE 0)
<1> DEFINE d == NextChan(th)
           m0 == pub[th].msg
<1>1. /\ m0 \in Messages /\ d \in Chans
      /\ ring'[d] = Append(ring[d], m0)
      /\ \A ch \in Chans : ch # d => ring'[ch] = ring[ch]
      /\ UNCHANGED taken
  BY EndIs
<1>2. ring[d] \in Seq(Messages)
  BY <1>1 DEF PubTypes
<1> HIDE DEF d, m0
<1>3. /\ Len(ring[d]) \in Nat /\ DOMAIN ring[d] = 1 .. Len(ring[d])
      /\ DOMAIN ring'[d] = 1 .. Len(ring[d]) + 1
      /\ \A i \in 1 .. Len(ring[d]) : ring'[d][i] = ring[d][i]
      /\ ring'[d][Len(ring[d]) + 1] = m0
  BY <1>1, <1>2, AppendProperties, LenProperties
<1>4. ASSUME NEW m \in Messages, NEW ch \in Chans, InRing(m, ch)'
      PROVE  InRing(m, ch) \/ (m = m0 /\ ch = d)
  <2>1. CASE ch # d
    BY <1>1, <1>4, <2>1 DEF InRing
  <2>2. CASE ch = d
    <3>1. PICK i \in DOMAIN ring'[d] : ring'[d][i] = m
      BY <1>4, <2>2 DEF InRing
    <3>2. i \in DOMAIN ring[d] \/ i = Len(ring[d]) + 1
      BY <1>3
    <3> QED
      BY <1>3, <2>2, <3>1, <3>2 DEF InRing
  <2> QED
    BY <2>1, <2>2
<1>5. ASSUME NEW m
      PROVE  HowMany(ring'[d], m) = HowMany(ring[d], m) + (IF m = m0 THEN 1 ELSE 0)
  BY <1>1, <1>2, HowManyThen
<1>6. ASSUME NEW m \in Counted, NEW ch \in Destinations(m)
      PROVE  Copies(m, ch)' = Copies(m, ch) + (IF m = m0 /\ ch = d THEN 1 ELSE 0)
  <2>1. ch \in Chans /\ taken[m][ch.suber] \in Nat /\ ring[ch] \in Seq(Messages)
    BY DestinationsAre, ClientsOfChannels DEF Counted, PubTypes
  <2>2. /\ Copies(m, ch) = HowMany(ring[ch], m) + taken[m][ch.suber]
        /\ Copies(m, ch)' = HowMany(ring'[ch], m) + taken[m][ch.suber]
    BY <1>1 DEF Copies, HowMany
  <2>3. HowMany(ring[ch], m) \in Nat
    BY <2>1, HowManyIs
  <2>4. CASE ch = d
    <3>1. HowMany(ring'[ch], m) = HowMany(ring[ch], m) + (IF m = m0 THEN 1 ELSE 0)
      BY <1>5, <2>4
    <3> QED
      BY ONLY <2>1, <2>2, <2>3, <2>4, <3>1
  <2>5. CASE ch # d
    <3>1. ring'[ch] = ring[ch]
      BY <1>1, <2>1, <2>5
    <3> QED
      BY <2>1, <2>2, <2>3, <2>5, <3>1
  <2> QED
    BY <2>4, <2>5
<1> QED
  BY <1>4, <1>6 DEF d, m0

\* Only the end of a slot changes how often a client has a message.
LEMMA CopiesStay ==
  ASSUME PubTypes, ReceiverInv, OnceInv, SenderInv, [PubNext]_pvars,
         \A th \in Threads : ~EndSlot(th)
  PROVE  \A m \in Counted : \A ch \in Destinations(m) : Copies(m, ch)' = Copies(m, ch)
<1>1. CASE UNCHANGED <<ring, taken>>
  BY <1>1 DEF Copies
<1>2. ASSUME NEW c \in Clients, Discard(c) \/ EndCallback(c)
      PROVE  \A m \in Counted : \A ch \in Destinations(m) : Copies(m, ch)' = Copies(m, ch)
  BY <1>2, TakeMoves
<1>3. ASSUME NEW th \in Threads, NEW m \in Messages, Publish(th, m)
      PROVE  UNCHANGED <<ring, taken>>
  BY <1>3 DEF Publish
<1>4. ASSUME NEW th \in Threads, Send(th)
      PROVE  UNCHANGED <<ring, taken>>
  BY <1>4 DEF Send, LockPub, AllocSlot, MissSubscriber, FinishPub, CutShort, FinishWith
<1> QED
  BY <1>1, <1>2, <1>3, <1>4, PubSteps

\* What is counted are numbers.
LEMMA CountsAre ==
  ASSUME PubTypes, NEW m \in Counted, NEW ch \in Destinations(m)
  PROVE  /\ Copies(m, ch) \in Nat /\ Listed(m, ch) \in Nat
         /\ Listed(m, ch) = Sends(Outbox(m), ch)
         /\ \A left : Sends(Outbox(m) \ left, ch) \in Nat
         /\ \A left : Sends(Outbox(m) \ left, ch) <= Listed(m, ch)
<1>1. ch \in Chans /\ taken[m][ch.suber] \in Nat /\ ring[ch] \in Seq(Messages)
  BY DestinationsAre, ClientsOfChannels DEF Counted, PubTypes
<1>2. Copies(m, ch) = HowMany(ring[ch], m) + taken[m][ch.suber]
  BY DEF Copies, HowMany
<1>3. HowMany(ring[ch], m) \in Nat
  BY <1>1, HowManyIs
<1>4. PICK out : out = Outbox(m)
  OBVIOUS
<1>5. out \subseteq DOMAIN Channels
  BY <1>4 DEF Outbox
<1>6. Listed(m, ch) = Sends(out, ch)
  BY <1>4 DEF Listed, Sends
<1>7. Sends(out, ch) \in Nat /\ \A T \in SUBSET out : Sends(T, ch) <= Sends(out, ch)
  BY <1>5, SendsIs
<1>8. ASSUME NEW left
      PROVE  Sends(out \ left, ch) \in Nat /\ Sends(out \ left, ch) <= Sends(out, ch)
  <2>1. PICK T : T = out \ left
    OBVIOUS
  <2>2. T \in SUBSET out /\ T \subseteq DOMAIN Channels
    BY <1>5, <2>1
  <2>3. Sends(T, ch) \in Nat
    BY <2>2, SendsIs
  <2> QED
    BY <1>7, <2>1, <2>2, <2>3
<1>9. Copies(m, ch) \in Nat
  BY <1>1, <1>2, <1>3
<1> QED
  BY <1>4, <1>6, <1>7, <1>8, <1>9

\* ... a message is in its channels only, no more often than they are listed, ...
LEMMA OnceStep ==
  ASSUME PubTypes, ReceiverInv, SenderInv, OnceInv, ProgressInv, [PubNext]_pvars
  PROVE  OnceInv'
<1>1. CASE UNCHANGED <<ring, taken>>
  BY <1>1 DEF OnceInv, InRing, Copies, Listed
<1>2. ASSUME NEW c \in Clients, Discard(c) \/ EndCallback(c)
      PROVE  OnceInv'
  <2> DEFINE h == Here(c)
  <2>1. /\ h \in Chans /\ ring[h] # <<>> /\ ring'[h] = Tail(ring[h])
        /\ \A ch \in Chans : ch # h => ring'[ch] = ring[ch]
        /\ ring[h] \in Seq(Messages)
    BY <1>2, TakeIs DEF PubTypes
  <2>2. /\ \A m \in Messages, ch \in Chans : InRing(m, ch)' => InRing(m, ch)
        /\ \A m \in Counted : \A ch \in Destinations(m) : Copies(m, ch)' = Copies(m, ch)
    BY <1>2, TakeMoves
  <2> HIDE DEF h
  <2>3. Len(ring[h]) \in Nat \ {0} /\ Len(ring'[h]) = Len(ring[h]) - 1
    BY <2>1, RestIs
  <2>4. \A ch \in Chans : Len(ring'[ch]) <= Capacity
    <3>1. \A ch \in Chans : Len(ring[ch]) <= Capacity
      BY DEF OnceInv
    <3>2. \A n \in Nat \ {0} : n <= Capacity => n - 1 <= Capacity
      BY PubAssumption
    <3>3. Len(ring'[h]) <= Capacity
      BY <2>1, <2>3, <3>1, <3>2
    <3> QED
      BY <2>1, <3>1, <3>3
  <2> QED
    BY <2>2, <2>4 DEF OnceInv, Listed
<1>3. ASSUME NEW th \in Threads, EndSlot(th)
      PROVE  OnceInv'
  <2> DEFINE d == NextChan(th)
             m0 == pub[th].msg
  <2>1. /\ m0 \in Messages /\ d \in Destinations(m0) /\ d \in Chans
        /\ ring'[d] = Append(ring[d], m0)
        /\ \A ch \in Chans : ch # d => ring'[ch] = ring[ch]
        /\ Len(ring[d]) < Capacity
        /\ ring[d] \in Seq(Messages)
    BY <1>3, EndIs DEF PubTypes
  <2>2. /\ \A m \in Messages, ch \in Chans :
             InRing(m, ch)' => InRing(m, ch) \/ (m = m0 /\ ch = d)
        /\ \A m \in Counted : \A ch \in Destinations(m) :
             Copies(m, ch)' = Copies(m, ch) + (IF m = m0 /\ ch = d THEN 1 ELSE 0)
    BY <1>3, EndMoves
  <2>3. m0 \in Counted => Copies(m0, d) + 1 <= Listed(m0, d)
    <3> SUFFICES ASSUME m0 \in Counted
                 PROVE  Copies(m0, d) + 1 <= Listed(m0, d)
      OBVIOUS
    <3>1. PICK l : l = Least(pub[th].left)
      OBVIOUS
    <3>2. pub[th].step = "fill" /\ MoreToSend(th)
      BY <1>3 DEF EndSlot, SenderInv, SenderIs
    <3>3. /\ l \in pub[th].left /\ l \in Outbox(m0) /\ d = Channels[l]
          /\ pub[th].left \subseteq Outbox(m0)
      BY <3>1, <3>2, NextIs DEF NextChan, SenderInv, SenderIs
    <3>4. PICK done : done = Outbox(m0) \ pub[th].left
      OBVIOUS
    <3>5. Copies(m0, d) <= Sends(done, d)
      BY <2>1, <3>2, <3>4 DEF ProgressInv, ProgressOf, ProgressIs
    <3>6. done \subseteq DOMAIN Channels /\ l \in DOMAIN Channels \ done
          /\ done \cup {l} = Outbox(m0) \ (pub[th].left \ {l})
      BY <3>3, <3>4 DEF Outbox
    <3>7. Sends(done \cup {l}, d) = Sends(done, d) + 1 /\ Sends(done, d) \in Nat
      BY <3>3, <3>6, SendsIs
    <3>8. Sends(done \cup {l}, d) <= Listed(m0, d) /\ Copies(m0, d) \in Nat
          /\ Listed(m0, d) \in Nat
      BY <2>1, <3>6, CountsAre
    <3> HIDE DEF d, m0
    <3> QED
      BY ONLY <3>5, <3>7, <3>8
  <2> HIDE DEF d, m0
  <2>4. Len(ring[d]) \in Nat /\ Len(ring'[d]) = Len(ring[d]) + 1
    BY <2>1, AppendProperties, LenProperties
  <2>5. \A ch \in Chans : Len(ring'[ch]) <= Capacity
    <3>1. \A ch \in Chans : Len(ring[ch]) <= Capacity
      BY DEF OnceInv
    <3>2. \A n \in Nat : n < Capacity => n + 1 <= Capacity
      BY PubAssumption
    <3>3. Len(ring'[d]) <= Capacity
      BY <2>1, <2>4, <3>2
    <3> QED
      BY <2>1, <3>1, <3>3
  <2>6. \A m \in Messages, ch \in Chans : InRing(m, ch)' => ch \in Destinations(m)
    BY <2>1, <2>2 DEF OnceInv
  <2>7. ASSUME NEW m \in Counted, NEW ch \in Destinations(m)
        PROVE  Copies(m, ch)' <= Listed(m, ch)
    <3>1. /\ Copies(m, ch) <= Listed(m, ch) /\ Copies(m, ch) \in Nat
          /\ Copies(m, ch)' = Copies(m, ch) + (IF m = m0 /\ ch = d THEN 1 ELSE 0)
      BY <2>2, CountsAre DEF OnceInv
    <3>2. CASE m = m0 /\ ch = d
      BY <2>3, <3>1, <3>2
    <3>3. CASE ~(m = m0 /\ ch = d)
      BY <3>1, <3>3
    <3> QED
      BY <3>2, <3>3
  <2> QED
    BY <2>5, <2>6, <2>7 DEF OnceInv, Listed
<1>4. ASSUME NEW th \in Threads, Send(th), ~EndSlot(th)
      PROVE  UNCHANGED <<ring, taken>>
  BY <1>4 DEF Send, LockPub, AllocSlot, MissSubscriber, FinishPub, CutShort, FinishWith
<1>5. ASSUME NEW th \in Threads, NEW m \in Messages, Publish(th, m)
      PROVE  UNCHANGED <<ring, taken>>
  BY <1>5 DEF Publish
<1> QED
  BY <1>1, <1>2, <1>3, <1>4, <1>5, PubSteps

-----------------------------------------------------------------------------
\* The channels of a publication's places are its destinations.
LEMMA OutboxIs ==
  ASSUME NEW m, NEW i \in Outbox(m)
  PROVE  i \in DOMAIN Channels /\ Channels[i] \in Destinations(m)
  BY DEF Outbox, Destinations

\* A message that nothing was told of and that no thread is at was so before.
LEMMA NotYet ==
  ASSUME PubTypes, ReceiverInv, SenderInv, [PubNext]_pvars, NEW m \in Counted, Unpublished(m)'
  PROVE  Unpublished(m)
<1>1. CASE UNCHANGED sending
  BY <1>1 DEF Unpublished, sending
<1>2. ASSUME NEW c \in Clients, Discard(c) \/ EndCallback(c)
      PROVE  UNCHANGED sending
  BY <1>2, TakeIs
<1>3. ASSUME NEW th \in Threads, NEW k \in Messages, Publish(th, k)
      PROVE  Unpublished(m)
  <2>1. Becomes(th, "lock", k, Outbox(k), FALSE, 0) /\ UNCHANGED told
    BY <1>3, SenderShapes DEF Publish
  <2>2. pub[th].msg # m
    BY <1>3, PubAssumption DEF Publish, SenderInv, SenderIs, Counted
  <2> QED
    BY <2>1, <2>2 DEF Unpublished, Becomes
<1>4. ASSUME NEW th \in Threads, UNCHANGED told,
             pub'[th].msg = pub[th].msg, \A u \in Threads : u # th => pub'[u] = pub[u]
      PROVE  Unpublished(m)
  BY <1>4 DEF Unpublished
<1>5. ASSUME NEW th \in Threads, LockPub(th) \/ AllocSlot(th) \/ MissSubscriber(th) \/ EndSlot(th)
      PROVE  Unpublished(m)
  <2>1. pub'[th].msg = pub[th].msg /\ \A u \in Threads : u # th => pub'[u] = pub[u]
    BY <1>5, SenderShapes DEF Becomes
  <2>2. UNCHANGED told
    BY <1>5 DEF LockPub, AllocSlot, MissSubscriber, EndSlot
  <2> QED
    BY <1>4, <2>1, <2>2
<1>6. ASSUME NEW th \in Threads, FinishPub(th) \/ CutShort(th)
      PROVE  Unpublished(m)
  <2>1. \A u \in Threads : u # th => pub'[u] = pub[u]
    BY <1>6, SenderShapes DEF Becomes
  <2>2. PICK a \in {"ok", "failed"} : FinishWith(th, a)
    BY <1>6 DEF FinishPub, CutShort, Answer
  <2>3. told' = [told EXCEPT ![pub[th].msg] = IF pub[th].msg \in Repeated THEN @ ELSE a]
    BY <2>2 DEF FinishWith
  <2>4. told'[m] = "nothing"
    BY DEF Unpublished
  <2>5. pub[th].msg # m /\ told[m] = "nothing"
    BY <2>3, <2>4 DEF PubTypes, Counted
  <2> QED
    BY <2>1, <2>5 DEF Unpublished
<1> QED
  BY <1>1, <1>2, <1>3, <1>5, <1>6, PubSteps DEF Send, sending

\* What a publication knows stays true while the copies of its message do, ...
LEMMA ProgressStays ==
  ASSUME NEW m, \A ch \in Destinations(m) : Copies(m, ch)' = Copies(m, ch),
         NEW left, NEW failed, NEW sent, ProgressIs(m, left, failed, sent)
  PROVE  ProgressIs(m, left, failed, sent)'
<1>1. PICK done : done = Outbox(m) \ left
  OBVIOUS
<1>2. /\ \A ch \in Destinations(m) : Copies(m, ch) <= Sends(done, ch)
      /\ ~failed => \A ch \in Destinations(m) : Copies(m, ch) = Sends(done, ch)
      /\ failed => \E ch \in Destinations(m) : Copies(m, ch) < Sends(done, ch)
      /\ sent = 0 /\ done # {} => failed
  BY <1>1 DEF ProgressIs
<1>3. /\ \A ch \in Destinations(m) : Copies(m, ch)' <= Sends(done, ch)
      /\ ~failed => \A ch \in Destinations(m) : Copies(m, ch)' = Sends(done, ch)
      /\ failed => \E ch \in Destinations(m) : Copies(m, ch)' < Sends(done, ch)
      /\ sent = 0 /\ done # {} => failed
  BY <1>2
<1> QED
  BY <1>1, <1>3 DEF ProgressIs, Sends

\* ... and at the next place it misses the channel there, ...
LEMMA ProgressMissed ==
  ASSUME PubTypes, NEW m \in Counted, NEW left, left \subseteq Outbox(m), NEW l \in left,
         NEW failed \in BOOLEAN, NEW sent \in Nat, ProgressIs(m, left, failed, sent),
         NEW d, d = Channels[l], NEW rest, rest = left \ {l}
  PROVE  ProgressIs(m, rest, TRUE, sent)
<1>1. PICK done, more : done = Outbox(m) \ left /\ more = Outbox(m) \ rest
  OBVIOUS
<1>2. /\ \A ch \in Destinations(m) : Copies(m, ch) <= Sends(done, ch)
      /\ ~failed => \A ch \in Destinations(m) : Copies(m, ch) = Sends(done, ch)
      /\ failed => \E ch \in Destinations(m) : Copies(m, ch) < Sends(done, ch)
      /\ sent = 0 /\ done # {} => failed
  BY <1>1 DEF ProgressIs
<1>3. more = done \cup {l} /\ done \subseteq DOMAIN Channels /\ l \in DOMAIN Channels \ done
  BY <1>1 DEF Outbox
<1>4. ASSUME NEW ch \in Destinations(m)
      PROVE  /\ Copies(m, ch) \in Nat /\ Sends(done, ch) \in Nat
             /\ Sends(more, ch) = Sends(done, ch) + (IF ch = d THEN 1 ELSE 0)
  <2>1. Copies(m, ch) \in Nat
    BY CountsAre
  <2>2. /\ Sends(done, ch) \in Nat
        /\ Sends(done \cup {l}, ch) = Sends(done, ch) + (IF Channels[l] = ch THEN 1 ELSE 0)
    BY <1>3, SendsIs
  <2> QED
    BY <1>3, <2>1, <2>2
<1>5. d \in Destinations(m)
  BY OutboxIs
<1>6. \A ch \in Destinations(m) : Copies(m, ch) <= Sends(more, ch)
  BY <1>2, <1>4
<1>7. Copies(m, d) < Sends(more, d)
  BY <1>2, <1>4, <1>5
<1> QED
  BY <1>1, <1>5, <1>6, <1>7 DEF ProgressIs

\* ... or sends once more to it.
LEMMA ProgressSent ==
  ASSUME PubTypes, NEW m \in Counted, NEW left, left \subseteq Outbox(m), NEW l \in left,
         NEW failed \in BOOLEAN, NEW sent \in Nat, ProgressIs(m, left, failed, sent),
         NEW d, d = Channels[l], NEW rest, rest = left \ {l},
         NEW then, then = sent + 1,
         \A ch \in Destinations(m) :
           Copies(m, ch)' = Copies(m, ch) + (IF ch = d THEN 1 ELSE 0)
  PROVE  ProgressIs(m, rest, failed, then)'
<1>1. PICK done, more : done = Outbox(m) \ left /\ more = Outbox(m) \ rest
  OBVIOUS
<1>2. /\ \A ch \in Destinations(m) : Copies(m, ch) <= Sends(done, ch)
      /\ ~failed => \A ch \in Destinations(m) : Copies(m, ch) = Sends(done, ch)
      /\ failed => \E ch \in Destinations(m) : Copies(m, ch) < Sends(done, ch)
      /\ sent = 0 /\ done # {} => failed
  BY <1>1 DEF ProgressIs
<1>3. more = done \cup {l} /\ done \subseteq DOMAIN Channels /\ l \in DOMAIN Channels \ done
  BY <1>1 DEF Outbox
<1>4. ASSUME NEW ch \in Destinations(m)
      PROVE  /\ Copies(m, ch) \in Nat /\ Sends(done, ch) \in Nat
             /\ Sends(more, ch) = Sends(done, ch) + (IF ch = d THEN 1 ELSE 0)
  <2>1. Copies(m, ch) \in Nat
    BY CountsAre
  <2>2. /\ Sends(done, ch) \in Nat
        /\ Sends(done \cup {l}, ch) = Sends(done, ch) + (IF Channels[l] = ch THEN 1 ELSE 0)
    BY <1>3, SendsIs
  <2> QED
    BY <1>3, <2>1, <2>2
<1>5. ASSUME NEW ch \in Destinations(m)
      PROVE  /\ Copies(m, ch)' <= Sends(more, ch)
             /\ ~failed => Copies(m, ch)' = Sends(more, ch)
             /\ Copies(m, ch) < Sends(done, ch) => Copies(m, ch)' < Sends(more, ch)
  <2>1. /\ Copies(m, ch) <= Sends(done, ch)
        /\ ~failed => Copies(m, ch) = Sends(done, ch)
    BY <1>2
  <2>2. CASE ch = d
    <3>1. Copies(m, ch)' = Copies(m, ch) + 1 /\ Sends(more, ch) = Sends(done, ch) + 1
      BY <1>4, <2>2
    <3> QED
      BY <1>4, <2>1, <3>1
  <2>3. CASE ch # d
    <3>1. Copies(m, ch)' = Copies(m, ch) /\ Sends(more, ch) = Sends(done, ch)
      BY <1>4, <2>3
    <3> QED
      BY <2>1, <3>1
  <2> QED
    BY <2>2, <2>3
<1>6. failed => \E ch \in Destinations(m) : Copies(m, ch)' < Sends(more, ch)
  BY <1>2, <1>5
<1>7. then # 0
  OBVIOUS
<1> QED
  BY <1>1, <1>5, <1>6, <1>7 DEF ProgressIs, Sends

\* ... what a publication has behind it and before it is what it counts, ...
LEMMA ProgressStep ==
  ASSUME PubTypes, ReceiverInv, SenderInv, OnceInv, ProgressInv, [PubNext]_pvars
  PROVE  ProgressInv'
<1>1. ASSUME NEW u \in Threads, pub[u].step # "idle", pub[u].msg \in Counted
      PROVE  /\ pub[u].left \subseteq Outbox(pub[u].msg)
             /\ ProgressIs(pub[u].msg, pub[u].left, pub[u].failed, pub[u].sent)
  BY <1>1 DEF ProgressInv, ProgressOf, SenderInv, SenderIs
<1>2. ASSUME NEW u \in Threads, pub'[u] = pub[u],
             pub[u].step # "idle" /\ pub[u].msg \in Counted =>
               \A ch \in Destinations(pub[u].msg) :
                 Copies(pub[u].msg, ch)' = Copies(pub[u].msg, ch)
      PROVE  ProgressOf(u)'
  <2>1. PICK p : p = pub[u]
    OBVIOUS
  <2>2. p.step # "idle" /\ p.msg \in Counted => ProgressIs(p.msg, p.left, p.failed, p.sent)'
    BY <1>1, <1>2, <2>1, ProgressStays
  <2>3. pub'[u] = p
    BY <1>2, <2>1
  <2> QED
    BY <2>2, <2>3 DEF ProgressOf, Counted
<1>3. ASSUME \A th \in Threads : ~EndSlot(th)
      PROVE  ProgressInv'
  <2>1. \A m \in Counted : \A ch \in Destinations(m) : Copies(m, ch)' = Copies(m, ch)
    BY <1>3, CopiesStay
  <2>2. \A m \in Counted : Unpublished(m)' => \A ch \in Destinations(m) : Copies(m, ch)' = 0
    BY <2>1, NotYet DEF ProgressInv
  <2>3. ASSUME NEW u \in Threads, pub'[u] = pub[u]
        PROVE  ProgressOf(u)'
    BY <1>2, <2>1, <2>3
  <2>4. ASSUME NEW th \in Threads, NEW m, NEW left, NEW failed, NEW sent, NEW s,
               Becomes(th, s, m, left, failed, sent),
               m \in Counted => ProgressIs(m, left, failed, sent), NEW u \in Threads
        PROVE  ProgressOf(u)'
    <3>1. CASE u = th
      <4>1. m \in Counted => ProgressIs(m, left, failed, sent)'
        BY <2>1, <2>4, ProgressStays
      <4>2. /\ pub'[u].msg = m /\ pub'[u].left = left
            /\ pub'[u].failed = failed /\ pub'[u].sent = sent
        BY <2>4, <3>1 DEF Becomes
      <4> QED
        BY <4>1, <4>2 DEF ProgressOf, Counted
    <3>2. CASE u # th
      BY <2>3, <2>4, <3>2 DEF Becomes
    <3> QED
      BY <3>1, <3>2
  <2>5. ASSUME NEW th \in Threads, NEW m \in Messages, Publish(th, m), NEW u \in Threads
        PROVE  ProgressOf(u)'
    <3>1. Becomes(th, "lock", m, Outbox(m), FALSE, 0)
      BY <2>5, SenderShapes
    <3>2. m \in Counted => \A ch \in Destinations(m) : Copies(m, ch) = 0
      BY <2>5 DEF Publish, ProgressInv
    <3>3. Outbox(m) \ Outbox(m) = {} /\ \A ch : Sends({}, ch) = 0
      BY SendsIs
    <3>4. m \in Counted => ProgressIs(m, Outbox(m), FALSE, 0)
      BY <3>2, <3>3 DEF ProgressIs
    <3> QED
      BY <2>4, <3>1, <3>4
  <2>6. ASSUME NEW th \in Threads, LockPub(th) \/ AllocSlot(th), NEW u \in Threads
        PROVE  ProgressOf(u)'
    <3>1. PICK p : p = pub[th]
      OBVIOUS
    <3>2. PICK s : Becomes(th, s, p.msg, p.left, p.failed, p.sent)
      BY <2>6, <3>1, SenderShapes
    <3>3. pub[th].step # "idle"
      BY <2>6 DEF LockPub, AllocSlot
    <3>4. p.msg \in Counted => ProgressIs(p.msg, p.left, p.failed, p.sent)
      BY <1>1, <3>1, <3>3
    <3> QED
      BY <2>4, <3>2, <3>4
  <2>7. ASSUME NEW th \in Threads, MissSubscriber(th), NEW u \in Threads
        PROVE  ProgressOf(u)'
    <3>1. PICK p : p = pub[th]
      OBVIOUS
    <3>2. PICK l, rest : l = Least(p.left) /\ rest = p.left \ {l}
      OBVIOUS
    <3>3. Becomes(th, p.step, p.msg, rest, TRUE, p.sent)
      BY <2>7, <3>1, <3>2, SenderShapes
    <3>4. pub[th].step # "idle" /\ MoreToSend(th)
      BY <2>7 DEF MissSubscriber
    <3>5. l \in p.left /\ p.failed \in BOOLEAN /\ p.sent \in Nat
      BY <3>1, <3>2, <3>4, NextIs DEF PubTypes, Publications
    <3>6. ASSUME p.msg \in Counted
          PROVE  ProgressIs(p.msg, rest, TRUE, p.sent)
      <4>1. /\ p.left \subseteq Outbox(p.msg)
            /\ ProgressIs(p.msg, p.left, p.failed, p.sent)
        BY <1>1, <3>1, <3>4, <3>6
      <4>2. PICK m, left, failed, sent, d :
              /\ m = p.msg /\ left = p.left /\ failed = p.failed /\ sent = p.sent
              /\ d = Channels[l]
        OBVIOUS
      <4>3. ProgressIs(m, rest, TRUE, sent)
        BY <3>2, <3>5, <3>6, <4>1, <4>2, ProgressMissed
      <4> QED
        BY <4>2, <4>3
    <3> QED
      BY <2>4, <3>3, <3>6
  <2>8. ASSUME NEW th \in Threads, FinishPub(th) \/ CutShort(th), NEW u \in Threads
        PROVE  ProgressOf(u)'
    <3>1. Becomes(th, "idle", None, {}, FALSE, 0)
      BY <2>8, SenderShapes
    <3> QED
      BY <2>3, <3>1 DEF Becomes, ProgressOf
  <2>9. ASSUME NEW c \in Clients, Discard(c) \/ EndCallback(c)
        PROVE  UNCHANGED pub
    BY <2>9, TakeIs DEF sending
  <2>10. \A u \in Threads : ProgressOf(u)'
    BY <1>3, <2>3, <2>5, <2>6, <2>7, <2>8, <2>9, PubSteps DEF Send, sending
  <2> QED
    BY <2>2, <2>10 DEF ProgressInv, Counted
<1>4. ASSUME NEW th \in Threads, EndSlot(th)
      PROVE  ProgressInv'
  <2>1. PICK p, d, l : p = pub[th] /\ d = NextChan(th) /\ l = Least(p.left)
    OBVIOUS
  <2>2. PICK rest : rest = p.left \ {l}
    OBVIOUS
  <2>3. /\ Becomes(th, "alloc", p.msg, rest, p.failed, p.sent + 1)
        /\ pub[th].step = "fill" /\ UNCHANGED told
    BY <1>4, <2>1, <2>2, SenderShapes DEF EndSlot
  <2>4. /\ MoreToSend(th) /\ p.sent \in Nat /\ p.failed \in BOOLEAN
    BY <2>1, <2>3 DEF SenderInv, SenderIs, PubTypes, Publications
  <2>5. l \in p.left /\ d = Channels[l]
    BY <2>1, <2>3, <2>4, NextIs DEF NextChan
  <2>6. \A m \in Counted : \A ch \in Destinations(m) :
          Copies(m, ch)' = Copies(m, ch) + (IF m = p.msg /\ ch = d THEN 1 ELSE 0)
    BY <1>4, <2>1, EndMoves
  <2>7. \A m \in Counted : m # p.msg =>
          \A ch \in Destinations(m) : Copies(m, ch)' = Copies(m, ch)
    <3> SUFFICES ASSUME NEW m \in Counted, m # p.msg, NEW ch \in Destinations(m)
                 PROVE  Copies(m, ch)' = Copies(m, ch)
      OBVIOUS
    <3>1. Copies(m, ch) \in Nat
      BY CountsAre
    <3> QED
      BY <2>6, <3>1
  <2>8. ASSUME NEW m \in Counted, Unpublished(m)', NEW ch \in Destinations(m)
        PROVE  Copies(m, ch)' = 0
    <3>1. Unpublished(m)
      BY <2>8, NotYet
    <3>2. m # p.msg
      BY <2>1, <3>1 DEF Unpublished
    <3> QED
      BY <2>7, <3>1, <3>2 DEF ProgressInv
  <2>9. ASSUME p.msg \in Counted
        PROVE  ProgressIs(p.msg, rest, p.failed, p.sent + 1)'
    <3>1. /\ p.left \subseteq Outbox(p.msg)
          /\ ProgressIs(p.msg, p.left, p.failed, p.sent)
      BY <1>1, <2>1, <2>3, <2>9
    <3>2. \A ch \in Destinations(p.msg) :
            Copies(p.msg, ch)' = Copies(p.msg, ch) + (IF ch = d THEN 1 ELSE 0)
      BY <2>6, <2>9
    <3>3. PICK m, left, failed, sent, then :
            /\ m = p.msg /\ left = p.left /\ failed = p.failed /\ sent = p.sent
            /\ then = p.sent + 1
      OBVIOUS
    <3>5. /\ m \in Counted /\ left \subseteq Outbox(m) /\ l \in left
          /\ failed \in BOOLEAN /\ sent \in Nat /\ ProgressIs(m, left, failed, sent)
          /\ d = Channels[l] /\ rest = left \ {l} /\ then = sent + 1
          /\ \A ch \in Destinations(m) :
               Copies(m, ch)' = Copies(m, ch) + (IF ch = d THEN 1 ELSE 0)
      BY <2>2, <2>4, <2>5, <2>9, <3>1, <3>2, <3>3
    <3>6. ProgressIs(m, rest, failed, then)'
      BY ONLY PubTypes, <3>5, ProgressSent
    <3> QED
      BY <3>3, <3>6
  <2>10. ASSUME NEW u \in Threads
         PROVE  ProgressOf(u)'
    <3>1. CASE u = th
      <4>1. /\ pub'[u].msg = p.msg /\ pub'[u].left = rest
            /\ pub'[u].failed = p.failed /\ pub'[u].sent = p.sent + 1
        BY <2>3, <3>1 DEF Becomes
      <4> QED
        BY <2>9, <4>1 DEF ProgressOf, Counted
    <3>2. CASE u # th
      <4>1. pub'[u] = pub[u]
        BY <2>3, <3>2 DEF Becomes
      <4>2. pub[u].step # "idle" => pub[u].msg # p.msg
        BY <2>1, <2>3, <3>2, MessagesApart
      <4> QED
        BY <1>2, <2>7, <4>1, <4>2
    <3> QED
      BY <3>1, <3>2
  <2> QED
    BY <2>8, <2>10 DEF ProgressInv, Counted
<1> QED
  BY <1>3, <1>4

\* A deleted client stays deleted.
LEMMA DeletedStays ==
  ASSUME PubTypes, [PubNext]_pvars, NEW c \in Clients, Deleted(c)
  PROVE  Deleted(c)'
<1>1. CASE UNCHANGED client
  BY <1>1 DEF Deleted
<1>2. ASSUME NEW d \in Clients, New(d) \/ BeginDelete(d) \/ EndDelete(d)
      PROVE  Deleted(c)'
  BY <1>2 DEF Deleted, New, BeginDelete, EndDelete, PubTypes
<1> QED
  BY <1>1, <1>2 DEF PubNext, pvars, sending, Delete, Receive, Register,
     Unsubscribe, Subscribe, LookUp, PollNothing, BeginCallback, Cancelled, Discard,
     EndCallback, Publish, Send, LockPub, AllocSlot, MissSubscriber, EndSlot, FinishPub,
     CutShort, FinishWith

\* ... and what was told is true.
LEMMA AnswerStep ==
  ASSUME PubTypes, ReceiverInv, SenderInv, OnceInv, ProgressInv, AnswerTrue, [PubNext]_pvars
  PROVE  AnswerTrue'
<1> DEFINE Holds(m) ==
      /\ told[m] = "ok" => \A ch \in Destinations(m) : Copies(m, ch) = Listed(m, ch)
      /\ told[m] = "failed" =>
           Destinations(m) = {} \/ \E ch \in Destinations(m) : Copies(m, ch) < Listed(m, ch)
<1> SUFFICES ASSUME NEW m \in Counted, ~Deleted(m.by)'
             PROVE  Holds(m)'
  BY DEF AnswerTrue, Counted
<1>1. ~Deleted(m.by) /\ m \in Messages /\ m \notin Repeated
  BY DeletedStays, PubAssumption DEF Counted
<1>2. Holds(m)
  BY <1>1 DEF AnswerTrue
<1>3. ASSUME told'[m] = told[m],
             \A ch \in Destinations(m) : told[m] = "nothing" \/ Copies(m, ch)' = Copies(m, ch)
      PROVE  Holds(m)'
  BY <1>2, <1>3 DEF Listed
<1>4. ASSUME NEW th \in Threads, EndSlot(th)
      PROVE  Holds(m)'
  <2>1. told' = told /\ told[pub[th].msg] = "nothing"
    BY <1>4 DEF EndSlot, SenderInv, SenderIs
  <2>2. ASSUME NEW ch \in Destinations(m), told[m] # "nothing"
        PROVE  Copies(m, ch)' = Copies(m, ch)
    <3>1. Copies(m, ch)' =
            Copies(m, ch) + (IF m = pub[th].msg /\ ch = NextChan(th) THEN 1 ELSE 0)
      BY <1>4, EndMoves
    <3>2. m # pub[th].msg /\ Copies(m, ch) \in Nat
      BY <2>1, <2>2, CountsAre
    <3> QED
      BY <3>1, <3>2
  <2> QED
    BY <1>3, <2>1, <2>2
<1>5. ASSUME \A th \in Threads : ~EndSlot(th), told'[m] = told[m]
      PROVE  Holds(m)'
  BY <1>3, <1>5, CopiesStay
<1>6. ASSUME NEW th \in Threads, FinishPub(th), pub[th].msg = m
      PROVE  Holds(m)'
  <2>1. /\ told' = [told EXCEPT ![m] = Answer(pub[th])] /\ UNCHANGED <<ring, taken>>
        /\ pub[th].left = {} /\ pub[th].step = "alloc"
    BY <1>1, <1>6 DEF FinishPub, FinishWith, MoreToSend
  <2>2. told'[m] = Answer(pub[th])
    BY <1>1, <2>1 DEF PubTypes
  <2>3. PICK failed, sent : failed = pub[th].failed /\ sent = pub[th].sent
    OBVIOUS
  <2>4. ProgressIs(m, {}, failed, sent) /\ failed \in BOOLEAN
    BY <1>6, <2>1, <2>3 DEF ProgressInv, ProgressOf, PubTypes, Publications
  <2>5. Outbox(m) \ {} = Outbox(m)
    OBVIOUS
  <2>6. \A ch \in Destinations(m) : Sends(Outbox(m), ch) = Listed(m, ch)
    BY CountsAre
  <2>7. /\ ~failed => \A ch \in Destinations(m) : Copies(m, ch) = Listed(m, ch)
        /\ failed => \E ch \in Destinations(m) : Copies(m, ch) < Listed(m, ch)
        /\ sent = 0 /\ Outbox(m) # {} => failed
    BY <2>4, <2>5, <2>6 DEF ProgressIs
  <2>8. Outbox(m) = {} => Destinations(m) = {}
    BY DEF Destinations
  <2>9. /\ told'[m] = "ok" => ~failed
        /\ told'[m] = "failed" => failed \/ sent = 0
    BY <2>2, <2>3, <2>4 DEF Answer
  <2>10. \A ch \in Destinations(m) : Copies(m, ch)' = Copies(m, ch)
    BY <2>1 DEF Copies
  <2> QED
    BY <2>7, <2>8, <2>9, <2>10 DEF Listed
<1>7. ASSUME NEW th \in Threads, CutShort(th), pub[th].msg = m
      PROVE  FALSE
  <2>1. Deleted(th[1]) /\ pub[th].step = "alloc"
    BY <1>7 DEF CutShort
  <2>2. <<m.by, m.thread>> = th
    BY <1>7, <2>1 DEF SenderInv, SenderIs
  <2>3. m.by = th[1]
    BY <2>2
  <2> QED
    BY <1>1, <2>1, <2>3
<1>8. ASSUME NEW th \in Threads, FinishPub(th) \/ CutShort(th), pub[th].msg # m
      PROVE  told'[m] = told[m]
  <2>1. PICK a : FinishWith(th, a)
    BY <1>8 DEF FinishPub, CutShort
  <2> QED
    BY <1>1, <1>8, <2>1 DEF FinishWith, PubTypes
<1>9. ASSUME NEW c \in Clients, Discard(c) \/ EndCallback(c)
      PROVE  told'[m] = told[m]
  BY <1>9, TakeIs DEF sending
<1>10. ASSUME NEW th \in Threads, LockPub(th) \/ AllocSlot(th) \/ MissSubscriber(th)
       PROVE  told'[m] = told[m]
  BY <1>10 DEF LockPub, AllocSlot, MissSubscriber
<1>11. ASSUME NEW th \in Threads, NEW k \in Messages, Publish(th, k)
       PROVE  told'[m] = told[m]
  BY <1>11 DEF Publish
<1> HIDE DEF Holds
<1>12. (\A th \in Threads : ~EndSlot(th)) =>
          \/ told'[m] = told[m]
          \/ \E th \in Threads : FinishPub(th) /\ pub[th].msg = m
  BY <1>7, <1>8, <1>9, <1>10, <1>11, PubSteps DEF Send, sending
<1> QED
  BY <1>4, <1>5, <1>6, <1>12

-----------------------------------------------------------------------------
\* A callback runs with the front of a ring before it is taken out.
LEMMA HeardStep ==
  ASSUME PubTypes, ReceiverInv, SenderInv, OnceInv, HeardInv, [PubNext]_pvars
  PROVE  HeardInv'
<1> DEFINE Bound(m, c) == taken[m][c] + (IF InCallback(c, m) THEN 1 ELSE 0)
<1>1. \A m \in Counted, c \in Clients :
        heard[m][c] \in Nat /\ taken[m][c] \in Nat /\ heard[m][c] <= Bound(m, c)
  BY DEF HeardInv, PubTypes, Counted
<1>2. ASSUME UNCHANGED <<heard, taken>>,
             \A m \in Counted, c \in Clients : InCallback(c, m) => InCallback(c, m)'
      PROVE  HeardInv'
  <2> SUFFICES ASSUME NEW m \in Counted, NEW c \in Clients
               PROVE  heard'[m][c] <= taken'[m][c] + (IF InCallback(c, m)' THEN 1 ELSE 0)
    BY DEF HeardInv, Counted
  <2>1. heard[m][c] \in Nat /\ taken[m][c] \in Nat /\ heard[m][c] <= Bound(m, c)
    BY <1>1
  <2>2. InCallback(c, m) => InCallback(c, m)'
    BY <1>2
  <2> QED
    BY <1>2, <2>1, <2>2
<1>3. CASE UNCHANGED <<heard, taken, rx, at, ring>>
  BY <1>2, <1>3 DEF InCallback, Here
<1>4. ASSUME NEW c \in Clients, New(c) \/ LookUp(c) \/ Cancelled(c)
      PROVE  HeardInv'
  <2>1. /\ UNCHANGED <<heard, taken, at, ring>>
        /\ \A d \in Clients : rx[d] \in {"callback", "gone"} => rx'[d] \in {"callback", "gone"}
    BY <1>4 DEF New, LookUp, Cancelled, PubTypes, ReceiverInv
  <2> QED
    BY <1>2, <2>1 DEF InCallback, Here
<1>5. ASSUME NEW c \in Clients, PollNothing(c)
      PROVE  HeardInv'
  <2>1. /\ UNCHANGED <<heard, taken, rx, ring>> /\ rx[c] = "poll"
        /\ \A d \in Clients : d # c => at'[d] = at[d]
    BY <1>5 DEF PollNothing, PubTypes
  <2> QED
    BY <1>2, <2>1 DEF InCallback, Here
<1>6. ASSUME NEW th \in Threads, EndSlot(th)
      PROVE  HeardInv'
  <2> DEFINE d == NextChan(th)
             m0 == pub[th].msg
  <2>1. /\ m0 \in Messages /\ d \in Chans /\ ring'[d] = Append(ring[d], m0)
        /\ \A ch \in Chans : ch # d => ring'[ch] = ring[ch]
        /\ ring[d] \in Seq(Messages)
    BY <1>6, EndIs DEF PubTypes
  <2>2. UNCHANGED <<heard, taken, rx, at>>
    BY <1>6 DEF EndSlot
  <2> HIDE DEF d, m0
  <2>3. \A ch \in Chans : ring[ch] # <<>> => ring'[ch] # <<>> /\ Head(ring'[ch]) = Head(ring[ch])
    <3>1. ring[d] # <<>> => ring'[d] # <<>> /\ Head(ring'[d]) = Head(ring[d])
      BY <2>1
    <3> QED
      BY <2>1, <3>1
  <2>4. \A c \in Receivers : Here(c) \in Chans /\ Here(c)' = Here(c)
    BY <2>2, HereIs DEF Here
  <2> QED
    BY <1>2, <2>2, <2>3, <2>4 DEF InCallback
<1>7. ASSUME NEW c \in Clients, BeginCallback(c)
      PROVE  HeardInv'
  <2> PICK m0 : m0 = Head(ring[Here(c)])
    OBVIOUS
  <2>1. /\ rx[c] = "poll" /\ rx' = [rx EXCEPT ![c] = "callback"]
        /\ heard' = OnceMore(heard, m0, c)
        /\ UNCHANGED <<ring, at, taken>>
        /\ c \in Receivers /\ ring[Here(c)] # <<>>
    BY <1>7 DEF BeginCallback, ReceiverInv
  <2>2. m0 \in Messages /\ heard \in [Messages -> [Clients -> Nat]]
    BY <2>1, HereIs, HeadTailProperties DEF PubTypes
  <2>3. rx'[c] = "callback" /\ \A d \in Clients : d # c => rx'[d] = rx[d]
    BY <2>1 DEF PubTypes
  <2>4. InCallback(c, m0)' /\ \A m \in Counted : ~InCallback(c, m)
    BY <2>1, <2>3 DEF InCallback, Here
  <2>5. \A m \in Counted, d \in Clients : d # c => (InCallback(d, m)' <=> InCallback(d, m))
    BY <2>1, <2>3 DEF InCallback, Here
  <2>6. PICK times, one, then : times = heard /\ one = m0 /\ then = heard'
    OBVIOUS
  <2>7. times \in [Messages -> [Clients -> Nat]] /\ one \in Messages
        /\ then = OnceMore(times, one, c)
    BY <2>1, <2>2, <2>6
  <2>8. /\ then \in [Messages -> [Clients -> Nat]]
        /\ \A m \in Counted, d \in Clients :
             then[m][d] = times[m][d] + (IF m = one /\ d = c THEN 1 ELSE 0)
    BY ONLY c \in Clients, <2>7, OnceMoreIs
  <2>9. \A m \in Counted, d \in Clients :
          heard'[m][d] = heard[m][d] + (IF m = m0 /\ d = c THEN 1 ELSE 0)
    BY <2>6, <2>8
  <2> SUFFICES ASSUME NEW m \in Counted, NEW d \in Clients
               PROVE  heard'[m][d] <= taken'[m][d] + (IF InCallback(d, m)' THEN 1 ELSE 0)
    BY DEF HeardInv, Counted
  <2>10. heard[m][d] \in Nat /\ taken[m][d] \in Nat /\ heard[m][d] <= Bound(m, d)
    BY <1>1
  <2>11. CASE m = m0 /\ d = c
    <3>1. heard[m][d] <= taken[m][d] /\ InCallback(d, m)'
      <4>1. ~InCallback(d, m) /\ InCallback(d, m)'
        BY <2>2, <2>4, <2>11
      <4> QED
        BY <2>10, <4>1
    <3>2. heard'[m][d] = heard[m][d] + 1 /\ taken'[m][d] = taken[m][d]
      BY <2>1, <2>9, <2>11
    <3> QED
      BY <2>10, <3>1, <3>2
  <2>12. CASE m # m0 /\ d = c
    BY <2>1, <2>4, <2>9, <2>10, <2>12
  <2>13. CASE d # c
    BY <2>1, <2>5, <2>9, <2>10, <2>13
  <2> QED
    BY <2>11, <2>12, <2>13
<1>8. ASSUME NEW c \in Clients, Discard(c) \/ EndCallback(c)
      PROVE  HeardInv'
  <2> DEFINE h == Here(c)
             m0 == Head(ring[h])
  <2>1. /\ c \in Receivers /\ h \in Chans /\ h.suber = c /\ m0 \in Messages
        /\ \A ch \in Chans : ch # h => ring'[ch] = ring[ch]
        /\ \A m \in Counted, d \in Clients :
             taken'[m][d] = taken[m][d] + (IF m = m0 /\ d = c THEN 1 ELSE 0)
    BY <1>8, TakeIs
  <2>2. /\ UNCHANGED heard
        /\ \A d \in Clients : d # c => rx'[d] = rx[d] /\ at'[d] = at[d]
    BY <1>8 DEF Discard, EndCallback, PubTypes
  <2>3. \A m \in Counted : InCallback(c, m) => m = m0
    BY DEF InCallback
  <2>4. ASSUME NEW d \in Clients, d # c, NEW m \in Counted
        PROVE  InCallback(d, m) => InCallback(d, m)'
    <3>1. d \in Receivers => Here(d) \in Chans /\ Here(d) # h /\ Here(d)' = Here(d)
      BY <2>1, <2>2, <2>4, HereIs DEF Here
    <3> HIDE DEF h
    <3> QED
      BY <2>1, <2>2, <2>4, <3>1 DEF InCallback
  <2> HIDE DEF h, m0
  <2> SUFFICES ASSUME NEW m \in Counted, NEW d \in Clients
               PROVE  heard'[m][d] <= taken'[m][d] + (IF InCallback(d, m)' THEN 1 ELSE 0)
    BY DEF HeardInv, Counted
  <2>5. heard[m][d] \in Nat /\ taken[m][d] \in Nat /\ heard[m][d] <= Bound(m, d)
    BY <1>1
  <2>6. CASE m = m0 /\ d = c
    BY <2>1, <2>2, <2>5, <2>6
  <2>7. CASE m # m0 /\ d = c
    BY <2>1, <2>2, <2>3, <2>5, <2>7
  <2>8. CASE d # c
    BY <2>1, <2>2, <2>4, <2>5, <2>8
  <2> QED
    BY <2>6, <2>7, <2>8
<1> QED
  BY <1>3, <1>4, <1>5, <1>6, <1>7, <1>8
  DEF PubNext, pvars, sending, Delete, Receive, Register, BeginDelete, EndDelete,
      Unsubscribe, Subscribe, Publish, Send, LockPub, AllocSlot, MissSubscriber, FinishPub,
      CutShort, FinishWith

\* So every answer can be relied on.
LEMMA TruthIsTold ==
  ASSUME PubTypes, ReceiverInv, OnceInv, AnswerTrue, HeardInv
  PROVE  ToldTruth
<1> SUFFICES ASSUME NEW m \in Counted
             PROVE  LET out == Destinations(m) IN
               /\ \A ch \in out : Copies(m, ch) <= Listed(m, ch)
               /\ told[m] = "ok" /\ ~Deleted(m.by) =>
                    \A ch \in out : Copies(m, ch) = Listed(m, ch)
               /\ told[m] = "failed" /\ ~Deleted(m.by) =>
                    out = {} \/ \E ch \in out : Copies(m, ch) < Listed(m, ch)
               /\ \A ch \in out : heard[m][ch.suber] <= Copies(m, ch)
  BY DEF ToldTruth, Counted
<1>1. ASSUME NEW ch \in Destinations(m)
      PROVE  heard[m][ch.suber] <= Copies(m, ch)
  <2> DEFINE c == ch.suber
  <2>1. /\ ch \in Chans /\ c \in Clients /\ c \in Receivers
        /\ taken[m][c] \in Nat /\ heard[m][c] \in Nat /\ ring[ch] \in Seq(Messages)
    BY DestinationsAre, ClientsOfChannels DEF Counted, PubTypes
  <2>2. heard[m][c] <= taken[m][c] + (IF InCallback(c, m) THEN 1 ELSE 0)
    BY <2>1 DEF HeardInv
  <2>3. InCallback(c, m) => InRing(m, ch)
    <3> SUFFICES ASSUME InCallback(c, m)
                 PROVE  InRing(m, ch)
      OBVIOUS
    <3>1. Here(c) \in Chans /\ Here(c).suber = c
      BY <2>1, HereIs
    <3>2. ring[Here(c)] \in Seq(Messages) /\ ring[Here(c)] # <<>> /\ Head(ring[Here(c)]) = m
      BY <3>1 DEF InCallback, PubTypes
    <3>3. 1 \in DOMAIN ring[Here(c)] /\ ring[Here(c)][1] = m
      <4>1. PICK s : s = ring[Here(c)]
        OBVIOUS
      <4>2. 1 \in DOMAIN s /\ s[1] = m
        BY <3>2, <4>1, RestIs
      <4> QED
        BY <4>1, <4>2
    <3>4. InRing(m, Here(c))
      BY <3>3 DEF InRing
    <3>5. Here(c) \in Destinations(m)
      BY <3>1, <3>4 DEF OnceInv, Counted
    <3>6. Here(c) = ch
      BY <2>1, <3>1, <3>5, DestinationsAre, OneChannel
    <3> QED
      BY <3>4, <3>6
  <2>4. Copies(m, ch) = HowMany(ring[ch], m) + taken[m][c]
    BY DEF Copies, HowMany
  <2>5. HowMany(ring[ch], m) \in Nat /\ (InRing(m, ch) => HowMany(ring[ch], m) >= 1)
    BY <2>1, HowManyIs DEF InRing
  <2> HIDE DEF c
  <2>6. heard[m][c] <= Copies(m, ch)
    BY ONLY <2>1, <2>2, <2>3, <2>4, <2>5
  <2> QED
    BY <2>6 DEF c
<1> QED
  BY <1>1 DEF OnceInv, AnswerTrue
===============================================================================
