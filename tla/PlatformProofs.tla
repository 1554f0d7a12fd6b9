---------------------------- MODULE PlatformProofs ----------------------------
(***************************************************************************)
(* What holds of the endpoint table, of the sending queue over crpc, of    *)
(* what publishers are told, of callbacks under deletion and of the        *)
(* components' threads, for any number of files, messages, clients,        *)
(* channels and components.                                                *)
(***************************************************************************)
EXTENDS Platform, TableProofs, PubSubProofs

\* A step of the platform is a step of a part, or leaves it alone.
LEMMA StepOfAPart ==
  [Next]_vars =>
    [TableNext]_tvars /\ [PubNext]_pvars /\ [CrpcNext]_cvars /\ [ThreadNext]_svars
  BY DEF Next, vars, Startup, Shm, Crpc, Thread

-----------------------------------------------------------------------------
\* What TableProofs shows of the steps of the startup, together.
TableInv == StageInv /\ QueuesInv /\ ChannelsInv /\ RegisterInv /\ MergeInv

\* It holds before any file is read ...
LEMMA TableInvInit == Init => TableInv
<1> SUFFICES ASSUME Init
             PROVE  TableInv
  OBVIOUS
<1>1. PICK fs \in Configurations \cup {<<>>} : TableInit(fs)
  BY DEF Init
<1> QED
  BY <1>1, StageInit, QueuesInit, ChannelsInit, RegisterInit, MergeInit DEF TableInv

\* ... and after every step.
LEMMA TableInvStep == TableInv /\ [Next]_vars => TableInv'
  BY StepOfAPart, StageStep, QueuesStep, ChannelsStep, RegisterStep, MergeStep DEF TableInv

(* QueuesApart: a queue whose size a word can hold keeps to a place of its *)
(* own in the memory that pubsub_cal_mem computed, before that of every    *)
(* later one, for any files, limits, sizes and word, also when other sizes *)
(* or their sums wrap, and whatever ends the registration.                 *)
THEOREM QueuesLieApart == Spec => []QueuesApart
<1>1. TableInv => QueuesApart
  BY DEF TableInv, QueuesInv, QueuesApart, EndOf
<1> QED
  BY <1>1, TableInvInit, TableInvStep, PTL DEF Spec

(* LowPriorityPays: config_pub_sub and shm_comm_load_config leave out only *)
(* topics that no one served has less priority than, at whichever of the   *)
(* limits on channels, endpoints and queues they stop.                     *)
THEOREM OnlyTheLowPay == Spec => []LowPriorityPays
<1>1. TableInv => LowPriorityPays
  BY TheLowPay DEF TableInv
<1> QED
  BY <1>1, TableInvInit, TableInvStep, PTL DEF Spec

(* TableServesConfig: whatever files json_config_merge_files is given, a   *)
(* table that nothing was rejected on the way to has an endpoint for each  *)
(* pair that any of them names, with its queue, and no other.              *)
THEOREM ConfigIsServed == Spec => []TableServesConfig
<1>1. TableInv => TableServesConfig
  BY AllServed DEF TableInv
<1> QED
  BY <1>1, TableInvInit, TableInvStep, PTL DEF Spec

-----------------------------------------------------------------------------
\* What makes the two claims about the queue inductive: the worker has an entry
\* only while it sends, nothing was drained before the end, and the end comes
\* after the worker's.
QueueInv ==
  /\ {queue, inHand, sent, dropped} \subseteq Seq(Posts)
  /\ inHand # <<>> => worker = "send"
  /\ dropped # <<>> => deleter = "freed"
  /\ deleter \in {"draining", "freed"} => worker = "ended"
  /\ AcceptedInOrder

\* The empty queue satisfies it.
LEMMA QueueInit == CrpcInit => QueueInv
  BY DEF CrpcInit, QueueInv, AcceptedInOrder

\* A step that moves no message: whatever the threads do, the end of the worker
\* stays, and nothing else of the invariant can change.
LEMMA MovesNothing ==
  ASSUME QueueInv,
         UNCHANGED <<queue, inHand, sent, dropped, accepted>>,
         inHand # <<>> => worker' = "send",
         dropped # <<>> => deleter' = "freed",
         deleter' \in {"draining", "freed"} => worker' = "ended"
  PROVE  QueueInv'
  BY DEF QueueInv, AcceptedInOrder

\* A message put behind the queue is behind all that was accepted before.
LEMMA AppendLast ==
  ASSUME NEW s \in Seq(Posts), NEW t \in Seq(Posts), NEW x \in Posts
  PROVE  Append(s \o t, x) = s \o Append(t, x)
<1>1. s \o t \in Seq(Posts) /\ <<x>> \in Seq(Posts)
  BY ConcatProperties
<1>2. Append(s \o t, x) = (s \o t) \o <<x>> /\ Append(t, x) = t \o <<x>>
  BY <1>1, AppendIsConcat
<1> QED
  BY <1>1, <1>2, ConcatAssociative

\* Every step of a publisher, the worker or the deleting thread keeps it.
LEMMA QueueStep ==
  ASSUME QueueInv, [CrpcNext]_cvars
  PROVE  QueueInv'
<1> USE DEF QueueInv
<1>1. CASE UNCHANGED cvars
  BY <1>1, MovesNothing DEF cvars
<1>2. CASE Created \/ Stop \/ SignalStop \/ Join
  BY <1>2, MovesNothing DEF Created, Stop, SignalStop, Signalled, Join, MayDrain
<1>3. CASE \/ WorkerStarts \/ WorkerLooks \/ WorkerLocks \/ WorkerTests
           \/ WorkerSleeps \/ WorkerWakesUnasked
  BY <1>3, MovesNothing
  DEF WorkerStarts, WorkerLooks, WorkerLocks, WorkerTests, WorkerSleeps,
      WorkerWakesUnasked, WorkerTo
<1>4. ASSUME NEW p \in Posters, SignalPost(p)
      PROVE  QueueInv'
  BY <1>4, MovesNothing DEF SignalPost, Signalled
<1>5. ASSUME NEW m \in Posts, Post(m)
      PROVE  QueueInv'
  <2>1. dropped = <<>> /\ accepted' = Append(accepted, m) /\ queue' = Append(queue, m)
    BY <1>5 DEF Post, Enqueued
  <2> DEFINE gone == sent \o inHand \o <<>>
  <2>2. gone \in Seq(Posts) /\ queue \in Seq(Posts)
    OBVIOUS
  <2>3. Append(gone \o queue, m) = gone \o Append(queue, m)
    <3>1. m \in Posts
      BY <1>5
    <3> HIDE DEF gone, QueueInv
    <3> QED
      BY <2>2, <3>1, AppendLast
  <2>4. accepted' = sent' \o inHand' \o dropped' \o queue'
    BY <1>5, <2>1, <2>3 DEF Post, AcceptedInOrder
  <2>5. Append(queue, m) \in Seq(Posts)
    OBVIOUS
  <2> QED
    BY <1>5, <2>1, <2>4, <2>5 DEF Post, AcceptedInOrder
<1>6. CASE WorkerPops
  <2>1. dropped = <<>> /\ inHand = <<>> /\ deleter \notin {"draining", "freed"}
    BY <1>6 DEF WorkerPops
  <2>2. CASE queue = <<>>
    BY <1>6, <2>1, <2>2 DEF WorkerPops, WorkerTo, Rest, AcceptedInOrder
  <2>3. CASE queue # <<>>
    <3>1. queue = <<Head(queue)>> \o Tail(queue) /\ Head(queue) \in Posts
          /\ Tail(queue) \in Seq(Posts)
      BY <2>3
    <3>2. inHand' = <<Head(queue)>> /\ queue' = Tail(queue)
      BY <1>6, <2>3 DEF WorkerPops, Rest
    <3>3. sent \o <<>> \o <<>> \o queue = sent \o <<Head(queue)>> \o <<>> \o Tail(queue)
      BY <3>1
    <3>4. accepted' = sent' \o inHand' \o dropped' \o queue'
      BY <1>6, <2>1, <3>2, <3>3 DEF WorkerPops, AcceptedInOrder
    <3>5. inHand' \in Seq(Posts) /\ worker' = "send"
      BY <1>6, <2>3, <3>1, <3>2 DEF WorkerPops, WorkerTo
    <3> QED
      BY <1>6, <2>1, <3>1, <3>2, <3>4, <3>5 DEF WorkerPops, AcceptedInOrder
  <2> QED
    BY <2>2, <2>3
<1>7. CASE WorkerSends
  <2>1. dropped = <<>> /\ sent' = sent \o inHand /\ inHand' = <<>>
    BY <1>7 DEF WorkerSends
  <2>2. sent \o inHand \o <<>> \o queue = (sent \o inHand) \o <<>> \o <<>> \o queue
    OBVIOUS
  <2> QED
    BY <1>7, <2>1, <2>2 DEF WorkerSends, WorkerTo, AcceptedInOrder
<1>8. CASE DrainAndFree
  <2>1. dropped = <<>> /\ inHand = <<>> /\ dropped' = queue /\ queue' = <<>>
    BY <1>8 DEF DrainAndFree
  <2>2. sent \o <<>> \o <<>> \o queue = sent \o <<>> \o queue \o <<>>
    OBVIOUS
  <2> QED
    BY <1>8, <2>1, <2>2 DEF DrainAndFree, AcceptedInOrder
<1> QED
  BY <1>1, <1>2, <1>3, <1>4, <1>5, <1>6, <1>7, <1>8 DEF CrpcNext, Work, DeleteOn

(* AcceptedInOrder: what publishers were told 0 for is sent in that order, *)
(* or is what delete dropped at the end, however the threads interleave    *)
(* and whenever the client is deleted (crpc_registry_center.c).            *)
THEOREM QueueKeepsOrder == Spec => []AcceptedInOrder
<1>1. Init => QueueInv
  BY QueueInit DEF Init
<1>2. QueueInv /\ [Next]_vars => QueueInv'
  BY StepOfAPart, QueueStep
<1>3. QueueInv => AcceptedInOrder
  BY DEF QueueInv
<1> QED
  BY <1>1, <1>2, <1>3, PTL DEF Spec

(* FreedAfterWorker: abs_comm_delete drains and frees the queue only when  *)
(* the worker has ended and has nothing in its hand.                       *)
THEOREM WorkerOutlivesQueue == Spec => []FreedAfterWorker
<1>1. Init => QueueInv
  BY QueueInit DEF Init
<1>2. QueueInv /\ [Next]_vars => QueueInv'
  BY StepOfAPart, QueueStep
<1>3. QueueInv => FreedAfterWorker
  BY DEF QueueInv, FreedAfterWorker
<1> QED
  BY <1>1, <1>2, <1>3, PTL DEF Spec

-----------------------------------------------------------------------------
\* Until main has stopped the thread nobody else says that it was stopped, so
\* the look at the flag in node_center_delete decides rightly.
ThreadInv ==
  /\ main \in {"new", "running"} => flag # "STOPING"
  /\ main \in {"stopped", "freed"} => loop = "ended"
  /\ main = "new" => loop = "none"

\* Neither main nor the thread can break it.
LEMMA ThreadStep ==
  ASSUME ThreadInv, [ThreadNext]_svars
  PROVE  ThreadInv'
<1> USE DEF ThreadInv
<1>1. CASE UNCHANGED svars
  BY <1>1 DEF svars
<1>2. CASE RunThread
  BY <1>2 DEF RunThread
<1>3. CASE Loop
  BY <1>3 DEF Loop, SetFlag, LookAtFlag, GoesOn, Body
<1>4. CASE StopThread
  BY <1>4 DEF StopThread, StopIt
<1>5. CASE DeleteThread
  BY <1>5 DEF DeleteThread, MustStop, StopIt
<1>6. CASE Wait
  BY <1>6 DEF Wait, JoinThread, Free
<1> QED
  BY <1>1, <1>2, <1>3, <1>4, <1>5, <1>6 DEF ThreadNext

(* FreedAfterLoop: no component is freed while its thread may run, whether *)
(* main stopped the thread or node_center_delete decided to.               *)
THEOREM ThreadEndsBeforeFree == Spec => []FreedAfterLoop
<1>1. Init => ThreadInv
  BY DEF Init, ThreadInit, ThreadInv
<1>2. ThreadInv /\ [Next]_vars => ThreadInv'
  BY StepOfAPart, ThreadStep
<1>3. ThreadInv => FreedAfterLoop
  BY DEF ThreadInv, FreedAfterLoop
<1> QED
  BY <1>1, <1>2, <1>3, PTL DEF Spec

-----------------------------------------------------------------------------
\* A receive thread in a callback holds the mutex of the callback's topic, and
\* the subscription is there.
CallbackInv ==
  /\ \A f \in {rx, locked, subscribed, at} : f = [c \in Clients |-> f[c]]
  /\ \A c \in Clients :
       rx[c] = "callback" =>
         locked[c] = Here(c).topic /\ Here(c).topic \in subscribed[c]

\* Nobody is in a callback at first.
LEMMA CallbackInit ==
  ASSUME NEW work, PubInit(work)
  PROVE  CallbackInv
  BY DEF PubInit, CallbackInv

\* Publishing and registering leave the receive threads alone; only they begin
\* and end callbacks, and only deletion takes a subscription away.
LEMMA CallbackStep ==
  ASSUME CallbackInv, [PubNext]_pvars
  PROVE  CallbackInv'
<1> USE DEF CallbackInv, Here
<1>1. CASE UNCHANGED <<rx, locked, subscribed, at>>
  BY <1>1
<1>2. ASSUME NEW c \in Clients, New(c) \/ LookUp(c) \/ Cancelled(c)
      PROVE  CallbackInv'
  BY <1>2 DEF New, LookUp, Cancelled
<1>3. ASSUME NEW c \in Clients, NEW t, Subscribe(c, t)
      PROVE  CallbackInv'
  BY <1>3 DEF Subscribe
<1>4. ASSUME NEW c \in Clients, NEW t, Unsubscribe(c, t)
      PROVE  CallbackInv'
  BY <1>4 DEF Unsubscribe, CanUnsubscribe
<1>5. ASSUME NEW c \in Clients, PollNothing(c) \/ Discard(c)
      PROVE  CallbackInv'
  BY <1>5 DEF PollNothing, Discard
<1>6. ASSUME NEW c \in Clients, BeginCallback(c)
      PROVE  CallbackInv'
  BY <1>6 DEF BeginCallback
<1>7. ASSUME NEW c \in Clients, EndCallback(c)
      PROVE  CallbackInv'
  BY <1>7 DEF EndCallback, Unlocked
<1>8. ASSUME NEW c \in Clients, BeginDelete(c) \/ EndDelete(c)
      PROVE  CallbackInv'
  BY <1>8, <1>1 DEF BeginDelete, EndDelete
<1>9. ASSUME NEW th \in Threads, Send(th) \/ \E m \in Messages : Publish(th, m)
      PROVE  CallbackInv'
  BY <1>9, <1>1 DEF Send, LockPub, AllocSlot, MissSubscriber, EndSlot, FinishPub,
                    CutShort, FinishWith, Publish
<1>10. CASE Register
  BY <1>10, <1>1 DEF Register
<1> QED
  BY <1>1, <1>2, <1>3, <1>4, <1>5, <1>6, <1>7, <1>8, <1>9, <1>10
  DEF PubNext, Receive, Delete, pvars

(* NoCallbackAfterDelete: once abs_comm_delete has taken a subscription    *)
(* away its callback does not run, for any number of clients, channels and *)
(* publications and wherever the receive thread is cancelled.              *)
THEOREM DeleteSilencesCallbacks == Spec => []NoCallbackAfterDelete
<1>1. Init => CallbackInv
  BY CallbackInit DEF Init
<1>2. CallbackInv /\ [Next]_vars => CallbackInv'
  BY StepOfAPart, CallbackStep
<1>3. CallbackInv => NoCallbackAfterDelete
  BY DEF CallbackInv, NoCallbackAfterDelete
<1> QED
  BY <1>1, <1>2, <1>3, PTL DEF Spec

-----------------------------------------------------------------------------
\* What PubSubProofs shows of the steps of the clients, together.
PubInv ==
  /\ PubTypes /\ ReceiverInv /\ SenderInv
  /\ OnceInv /\ ProgressInv /\ AnswerTrue /\ HeardInv

\* It holds before anything is published ...
LEMMA PubInvInit == Init => PubInv
<1> SUFFICES ASSUME Init
             PROVE  PubInv
  OBVIOUS
<1>1. PICK work : PubInit(work)
  BY DEF Init
<1> QED
  BY <1>1, PubTypesInit, ReceiverInit, SenderInit, OnceInit, ProgressInit, AnswerInit, HeardInit
  DEF PubInv

\* ... and after every step.
LEMMA PubInvStep == PubInv /\ [Next]_vars => PubInv'
<1> SUFFICES ASSUME PubInv, [PubNext]_pvars
             PROVE  PubInv'
  BY StepOfAPart
<1> QED
  BY PubTypesStep, ReceiverStep, SenderStep, OnceStep, ProgressStep, AnswerStep, HeardStep
  DEF PubInv

(* ToldTruth: what pub_msg returns is true of every subscriber, and nobody *)
(* gets a message more often than the configuration lists it, which may be *)
(* several times, with any number of threads of any number of clients      *)
(* publishing, some messages again and again, to rings of any size,        *)
(* registered late or never.                                               *)
THEOREM AnswersAreTrue == Spec => []ToldTruth
<1>1. PubInv => ToldTruth
  BY TruthIsTold DEF PubInv
<1> QED
  BY <1>1, PubInvInit, PubInvStep, PTL DEF Spec

-----------------------------------------------------------------------------
\* The worker has one message in its hand or none.
LEMMA AtMostOne ==
  ASSUME NEW x
  PROVE  Len(<<>>) <= 1 /\ Len(<<x>>) <= 1
<1>1. Len(<<>>) = 0
  BY EmptySeq
<1>2. Len(<<x>>) = 1
  OBVIOUS
<1> QED
  BY <1>1, <1>2

\* The types of the queue's threads; those of its messages are QueueInv's.
CrpcTypes ==
  /\ owner \in {Nobody, "worker"}
  /\ worker \in {"started", "loop", "lock", "test", "asleep soon", "asleep", "woken",
                 "pop", "send", "ended"}
  /\ deleter \in {"no", "stopped", "joining", "draining", "freed"}
  /\ Len(inHand) <= 1

\* They hold at first ...
LEMMA CrpcTypesInit == CrpcInit => CrpcTypes
  BY DEF CrpcInit, CrpcTypes

\* ... and after every step.
LEMMA CrpcTypesStep ==
  ASSUME CrpcTypes, [CrpcNext]_cvars
  PROVE  CrpcTypes'
<1> USE DEF CrpcTypes
<1>1. CASE UNCHANGED <<owner, worker, deleter, inHand>>
  BY <1>1
<1>2. CASE WorkerPops
  <2>1. inHand' = <<>> \/ inHand' = <<Head(queue)>>
    BY <1>2 DEF WorkerPops
  <2>2. Len(inHand') <= 1
    BY <2>1, AtMostOne
  <2> QED
    BY <1>2, <2>2 DEF WorkerPops, WorkerTo
<1>3. CASE WorkerSends
  <2>1. inHand' = <<>>
    BY <1>3 DEF WorkerSends
  <2>2. Len(inHand') <= 1
    BY <2>1, AtMostOne
  <2> QED
    BY <1>3, <2>2 DEF WorkerSends, WorkerTo
<1>4. CASE WorkerStarts \/ WorkerLooks \/ WorkerLocks \/ WorkerTests \/ WorkerSleeps
           \/ WorkerWakesUnasked
  BY <1>4 DEF WorkerStarts, WorkerLooks, WorkerLocks, WorkerTests, WorkerSleeps,
              WorkerWakesUnasked, WorkerTo
<1>5. CASE Stop \/ DeleteOn
  BY <1>5 DEF Stop, DeleteOn, SignalStop, Signalled, Join, DrainAndFree
<1>6. ASSUME NEW p \in Posters, SignalPost(p)
      PROVE  CrpcTypes'
  BY <1>6 DEF SignalPost, Signalled
<1>7. ASSUME NEW m \in Posts, Post(m)
      PROVE  CrpcTypes'
  BY <1>1, <1>7 DEF Post
<1> QED
  BY <1>1, <1>2, <1>3, <1>4, <1>5, <1>6, <1>7 DEF CrpcNext, Work, Created, cvars

\* A sequence over a set has its values there.
LEMMA ValuesOf ==
  ASSUME NEW S, NEW s \in Seq(S)
  PROVE  Range(s) \subseteq S
  BY ElementOfSeq, LenProperties DEF Range

\* The publications have their types because the invariants say so.
LEMMA PubTyped == PubInv => PubTypeOK
<1> SUFFICES ASSUME PubInv
             PROVE  PubTypeOK
  OBVIOUS
<1> USE DEF PubInv
<1>1. \A ch \in Chans : Len(ring[ch]) <= Capacity /\ Range(ring[ch]) \subseteq Messages
  BY ValuesOf DEF OnceInv, PubTypes
<1>2. \A c \in Clients :
        /\ client[c] \in {"off", "running", "deleting", "deleted"}
        /\ subscribed[c] \subseteq TopicsOf(c)
        /\ rx[c] \in {"none", "lookup", "poll", "callback", "gone"}
        /\ mutex[c] \in {None} \cup Threads
  BY DEF PubTypes, ReceiverInv
<1>3. \A th \in Threads : pub[th].step \in {"idle", "lock", "alloc", "fill"}
  BY DEF PubTypes, Publications
<1> QED
  BY <1>1, <1>2, <1>3 DEF PubTypes, PubTypeOK

\* And so have the queue's messages.
LEMMA QueueTyped == QueueInv /\ CrpcTypes => CrpcTypeOK
<1> SUFFICES ASSUME QueueInv, CrpcTypes
             PROVE  CrpcTypeOK
  OBVIOUS
<1>1. {queue, inHand, sent, dropped} \subseteq Seq(Posts)
  BY DEF QueueInv
<1>2. accepted \in Seq(Posts)
  <2>1. sent \o inHand \in Seq(Posts)
    BY <1>1, ConcatProperties
  <2>2. sent \o inHand \o dropped \in Seq(Posts)
    BY <1>1, <2>1, ConcatProperties
  <2> QED
    BY <1>1, <2>2, ConcatProperties DEF QueueInv, AcceptedInOrder
<1>3. \A seq \in {queue, accepted, sent, dropped, inHand} : Range(seq) \subseteq Posts
  BY <1>1, <1>2, ValuesOf
<1> QED
  BY <1>3 DEF CrpcTypes, CrpcTypeOK

\* The types of a component's thread are kept by every step.
LEMMA ThreadTypeStep ==
  ASSUME ThreadTypeOK, [ThreadNext]_svars
  PROVE  ThreadTypeOK'
  BY DEF ThreadTypeOK, ThreadNext, svars, RunThread, Loop, SetFlag, LookAtFlag, Body,
         StopThread, StopIt, DeleteThread, Wait, JoinThread, Free

(* TypeOK: the four parts of the platform keep their types; in particular  *)
(* no ring holds more than it has room for, no table more than the limits  *)
(* of config.h, and no receive thread has a callback for another's topic.  *)
THEOREM TypesHold == Spec => []TypeOK
<1> DEFINE Inv == TableInv /\ PubInv /\ QueueInv /\ CrpcTypes /\ ThreadTypeOK
<1>1. Init => Inv
  <2> SUFFICES ASSUME Init
               PROVE  Inv
    OBVIOUS
  <2>1. QueueInv /\ CrpcTypes
    BY QueueInit, CrpcTypesInit DEF Init
  <2>2. ThreadTypeOK
    BY KindsAssumption DEF Init, ThreadInit, ThreadTypeOK
  <2> QED
    BY <2>1, <2>2, TableInvInit, PubInvInit
<1>2. Inv /\ [Next]_vars => Inv'
  BY StepOfAPart, TableInvStep, PubInvStep, QueueStep, CrpcTypesStep, ThreadTypeStep
<1>3. Inv => TypeOK
  BY PubTyped, QueueTyped DEF TableInv, StageInv, TypeOK
<1> QED
  BY <1>1, <1>2, <1>3, PTL DEF Spec
===============================================================================
