------------------------------- MODULE CrpcQueue -------------------------------
(***************************************************************************)
(* The sending side of the message layer over crpc                         *)
(* (crpc_registry_center.c): publishers append to a queue, a worker thread *)
(* sends what it finds there, a mutex and a condition variable between     *)
(* them.  abs_comm_new starts the worker before it has set rc->client, and *)
(* abs_comm_delete clears worker_running and signals without the mutex.    *)
(* That the worker may instead follow whatever rc->client held before it   *)
(* was set, and crash, is left out.                                        *)
(***************************************************************************)
EXTENDS Naturals, Sequences, SequencesExt

CONSTANTS
  Posts,       \* bound: the messages, [id, by]; one publisher deletes the client
  Deleter,     \* the publisher that may
  Nobody       \* nobody holds the mutex, nothing is held

Posters == {p.by : p \in Posts} \cup {Deleter}

VARIABLES
  ready,       \* whether rc->client is set and abs_comm_new has returned
  running,     \* client->worker_running
  queue,       \* the linked list
  owner,       \* who holds queue_mutex: Nobody or "worker", as far as it lasts
  worker,      \* where the worker is
  inHand,      \* the entry the worker has taken out
  poster,      \* per publisher: "idle" or "signal"
  deleter,     \* where abs_comm_delete is
  accepted, sent, dropped  \* what publishers were told 0 for, was sent, was drained

cvars == <<ready, running, queue, owner, worker, inHand, poster, deleter, accepted, sent, dropped>>

CrpcInit ==
  /\ ready = FALSE
  /\ running = TRUE
  /\ queue = <<>>
  /\ owner = Nobody
  /\ worker = "started"
  /\ inHand = <<>>
  /\ poster = [p \in Posters |-> "idle"]
  /\ deleter = "no"
  /\ accepted = <<>> /\ sent = <<>> /\ dropped = <<>>

CrpcTypeOK ==
  /\ owner \in {Nobody, "worker"}
  /\ worker \in {"started", "loop", "lock", "test", "asleep soon", "asleep", "woken",
                 "pop", "send", "ended"}
  /\ deleter \in {"no", "stopped", "joining", "draining", "freed"}
  /\ \A seq \in {queue, accepted, sent, dropped, inHand} : Range(seq) \subseteq Posts
  /\ Len(inHand) <= 1

-----------------------------------------------------------------------------
\* The end of abs_comm_new.
Created ==
  /\ ~ready
  /\ ready' = TRUE
  /\ UNCHANGED <<running, queue, owner, worker, inHand, poster, deleter, accepted, sent, dropped>>

\* The condition variable wakes the worker if it sleeps, and is forgotten if not.
Signalled_Never == worker
Signalled == IF worker = "asleep" THEN "woken" ELSE worker

Enqueued_AtHead(q, m) == <<m>> \o q
Enqueued(q, m) == Append(q, m)

\* registry_send_str_to_micoservice: append under the mutex, ...
Post(m) ==
  /\ ready /\ deleter # "freed"
  /\ poster[m.by] = "idle"
  /\ m.by = Deleter => deleter = "no"
  /\ m \notin Range(accepted)
  /\ owner = Nobody
  /\ queue' = Enqueued(queue, m)
  /\ accepted' = Append(accepted, m)
  /\ poster' = [poster EXCEPT ![m.by] = "signal"]
  /\ UNCHANGED <<ready, running, owner, worker, inHand, deleter, sent, dropped>>

\* ... signal without it.
SignalPost(p) ==
  /\ poster[p] = "signal"
  /\ poster' = [poster EXCEPT ![p] = "idle"]
  /\ worker' = Signalled
  /\ UNCHANGED <<ready, running, queue, owner, inHand, deleter, accepted, sent, dropped>>

-----------------------------------------------------------------------------
WorkerTo(place) == worker' = place

\* A worker that is faster than abs_comm_new may find no client and end.
WorkerStarts ==
  /\ worker = "started"
  /\ \/ ready /\ WorkerTo("loop")
     \/ ~ready /\ WorkerTo("ended")
  /\ UNCHANGED <<ready, running, queue, owner, inHand, poster, deleter, accepted, sent, dropped>>

WorkerLooks ==
  /\ worker = "loop"
  /\ WorkerTo(IF running THEN "lock" ELSE "ended")
  /\ UNCHANGED <<ready, running, queue, owner, inHand, poster, deleter, accepted, sent, dropped>>

\* Both at the first lock and when pthread_cond_wait returns.
WorkerLocks ==
  /\ worker \in {"lock", "woken"}
  /\ owner = Nobody
  /\ owner' = "worker"
  /\ WorkerTo("test")
  /\ UNCHANGED <<ready, running, queue, inHand, poster, deleter, accepted, sent, dropped>>

MustWait_WhileEmpty == queue = <<>>
MustWait == running /\ queue = <<>>

WorkerTests ==
  /\ worker = "test"
  /\ WorkerTo(IF MustWait THEN "asleep soon" ELSE "pop")
  /\ UNCHANGED <<ready, running, queue, owner, inHand, poster, deleter, accepted, sent, dropped>>

\* pthread_cond_wait gives the mutex up and sleeps in one step.
WorkerSleeps ==
  /\ worker = "asleep soon"
  /\ owner' = Nobody
  /\ WorkerTo("asleep")
  /\ UNCHANGED <<ready, running, queue, inHand, poster, deleter, accepted, sent, dropped>>

\* pthread_cond_wait may return unasked.
WorkerWakesUnasked ==
  /\ worker = "asleep"
  /\ WorkerTo("woken")
  /\ UNCHANGED <<ready, running, queue, owner, inHand, poster, deleter, accepted, sent, dropped>>

Rest(q) == IF q = <<>> THEN q ELSE Tail(q)

WorkerPops ==
  /\ worker = "pop"
  /\ inHand' = IF queue = <<>> THEN <<>> ELSE <<Head(queue)>>
  /\ queue' = Rest(queue)
  /\ owner' = Nobody
  /\ WorkerTo(IF queue = <<>> THEN "loop" ELSE "send")
  /\ UNCHANGED <<ready, running, poster, deleter, accepted, sent, dropped>>

WorkerSends ==
  /\ worker = "send"
  /\ sent' = sent \o inHand
  /\ inHand' = <<>>
  /\ WorkerTo("loop")
  /\ UNCHANGED <<ready, running, queue, owner, poster, deleter, accepted, dropped>>

-----------------------------------------------------------------------------
\* abs_comm_delete
Stop ==
  /\ ready /\ deleter = "no" /\ poster[Deleter] = "idle"
  /\ running' = FALSE
  /\ deleter' = "stopped"
  /\ UNCHANGED <<ready, queue, owner, worker, inHand, poster, accepted, sent, dropped>>

SignalStop ==
  /\ deleter = "stopped"
  /\ deleter' = "joining"
  /\ worker' = Signalled
  /\ UNCHANGED <<ready, running, queue, owner, inHand, poster, accepted, sent, dropped>>

MayDrain_AtOnce == TRUE
MayDrain == worker = "ended"

Join ==
  /\ deleter = "joining"
  /\ MayDrain
  /\ deleter' = "draining"
  /\ UNCHANGED <<ready, running, queue, owner, worker, inHand, poster, accepted, sent, dropped>>

\* What is left is dropped under the mutex, and everything is freed.
DrainAndFree ==
  /\ deleter = "draining"
  /\ owner = Nobody
  /\ dropped' = queue
  /\ queue' = <<>>
  /\ deleter' = "freed"
  /\ UNCHANGED <<ready, running, owner, worker, inHand, poster, accepted, sent>>

-----------------------------------------------------------------------------
Work ==
  \/ WorkerStarts \/ WorkerLooks \/ WorkerLocks \/ WorkerTests \/ WorkerSleeps
  \/ WorkerPops \/ WorkerSends

DeleteOn == SignalStop \/ Join \/ DrainAndFree

CrpcNext ==
  \/ Created \/ Work \/ WorkerWakesUnasked \/ Stop \/ DeleteOn
  \/ \E m \in Posts : Post(m)
  \/ \E p \in Posters : SignalPost(p)

-----------------------------------------------------------------------------
\* Whatever publishers were told 0 for is sent, in the order it was accepted;
\* it is in the queue, in the worker's hand or sent until abs_comm_delete drops
\* what is left, which is the newest: an older message is never dropped while
\* a newer one is sent.
AcceptedInOrder == accepted = sent \o inHand \o dropped \o queue

\* Every message that was accepted is sent, without another one having to come
\* and wake the worker, unless the client is deleted or the worker ended as it
\* started.
EverythingSent ==
  \A m \in Posts : m \in Range(accepted) ~> (m \in Range(sent) \/ ~running \/ worker = "ended")

\* abs_comm_delete ends if its signal does not come while the worker, having
\* found worker_running set, is about to sleep: what is left of the time the
\* worker needs does not matter.
CrpcDeleteEnds == (deleter = "stopped" /\ worker # "asleep soon") ~> deleter = "freed"

\* Nothing is dropped or freed while the worker may still use it.
FreedAfterWorker == deleter \in {"draining", "freed"} => worker = "ended" /\ inHand = <<>>
================================================================================
