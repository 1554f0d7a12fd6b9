--------------------------------- MODULE Rpc ---------------------------------
(***************************************************************************)
(* JSON-RPC over the message layer: comm/rpc.c.  A client process with     *)
(* several calling threads, its receive thread and, if Timer, a thread     *)
(* that calls rpc_check_timeouts; a server process that answers.           *)
(*                                                                         *)
(* The two topics are channels as module Fifo states them, with what the   *)
(* publishing side adds: a publication into a full channel fails.  The     *)
(* server may die while it handles a request, which it then meets again.   *)
(*                                                                         *)
(* A synchronous call waits on a context that is a local variable of       *)
(* rpc_call_method_sync.  The pending table holds its address, so there is *)
(* one context per thread: the next call of the same thread finds its own  *)
(* where the last one was.                                                 *)
(***************************************************************************)
EXTENDS Naturals, Sequences, FiniteSets

CONSTANTS
  Threads,      \* the threads that call
  MaxCalls,     \* bound: how many calls a thread makes
  Kinds,        \* which it makes: subset of {"sync", "async"}
  SuppliedId,   \* per call, the id its request already has, or None
  Malformed,    \* the calls whose JSON is no valid request
  Untimed,      \* the calls with timeout_ms <= 0
  ReqCapacity,  \* how many requests and ...
  RespCapacity, \* ... how many responses a channel holds
  MaxCrashes,   \* bound: how often the server dies over one request
  MayTimeOut,   \* whether a synchronous wait can reach its deadline
  MayWakeEarly, \* whether pthread_cond_timedwait can return for no reason
  Timer,        \* whether rpc_check_timeouts is called periodically
  None

Calls == Threads \X (1 .. MaxCalls)
ThreadOf(c) == c[1]

ASSUME CallAssumption ==
  /\ MaxCalls \in Nat
  /\ Kinds \subseteq {"sync", "async"}
  /\ Malformed \subseteq Calls
  /\ Untimed \subseteq Calls
  /\ ReqCapacity \in Nat \ {0}
  /\ RespCapacity \in Nat \ {0}
  /\ MaxCrashes \in Nat
  /\ {MayTimeOut, MayWakeEarly, Timer} \subseteq BOOLEAN
  /\ None \notin Calls
  /\ DOMAIN SuppliedId = Calls

VARIABLES
  pc,        \* per thread: where it is in rpc_call_method(_sync)
  made,      \* per thread: how many calls it has begun
  kind,      \* per call: which kind it is
  pending,   \* ctx->pending_requests: id -> entry
  frame,     \* per thread: the rpc_sync_context on its stack
  returned,  \* per call: what it returned
  called,    \* per asynchronous call: the answers its callback was given
  requests,  \* the channel of the server's request topic
  responses, \* the channel of the client's response topic
  recv,      \* the client's receive thread; it holds ctx->mutex unless idle
  server,    \* the server's receive thread
  executed,  \* per call: how often the method ran
  crashes    \* per call: how often the server died over its request

callers == <<pc, made, kind, returned>>
shared  == <<pending, frame, called>>
remote  == <<server, executed, crashes, requests>>
vars    == <<callers, shared, responses, recv, remote>>

-----------------------------------------------------------------------------
\* generate_correlation_id, unless the request brings its own id.
CorrelationId_PerThread(c) == c[2]
CorrelationId(c) == IF SuppliedId[c] = None THEN c ELSE SuppliedId[c]

Ids == {CorrelationId(c) : c \in Calls}

Entry(c, k) == [call |-> c, kind |-> k, old |-> FALSE]
Entries == [call : Calls, kind : {"sync", "async"}, old : BOOLEAN]

\* What a callback is told: the answer to a call, or that time is up.
Answer(c) == [code |-> "ok", of |-> c]
TimedOut  == [code |-> "timeout", of |-> None]
Failed    == [code |-> "failed", of |-> None]
Silent    == [code |-> "ok", of |-> None]
Outcomes  == [code : {"ok", "timeout", "failed"}, of : Calls \cup {None}]

DeadFrame == [call |-> None, done |-> FALSE, woken |-> FALSE, outcome |-> Silent]
NewFrame(c) == [DeadFrame EXCEPT !.call = c]
Frames == [call : Calls \cup {None}, done : BOOLEAN, woken : BOOLEAN,
           outcome : Outcomes]

Messages == [id : Ids \cup {None}, of : Calls]

ASSUME NoneAssumption == None \notin Entries \cup Outcomes

TypeOK ==
  /\ pc \in [Threads -> {"idle", "publish", "wait", "blocked"}]
  /\ made \in [Threads -> 0 .. MaxCalls]
  /\ kind \in [Calls -> {"sync", "async"}]
  /\ pending \in [Ids -> Entries \cup {None}]
  /\ frame \in [Threads -> Frames]
  /\ returned \in [Calls -> Outcomes \cup {None}]
  /\ called \in [Calls -> Seq(Outcomes)]
  /\ requests \in Seq(Calls) /\ Len(requests) <= ReqCapacity
  /\ responses \in Seq(Messages) /\ Len(responses) <= RespCapacity
  /\ recv \in {"idle", "found", "called"}
  /\ server \in {"idle", "ran", "responded"}
  /\ executed \in [Calls -> Nat]
  /\ crashes \in [Calls -> 0 .. MaxCrashes]

Init ==
  /\ pc = [t \in Threads |-> "idle"]
  /\ made = [t \in Threads |-> 0]
  /\ kind \in [Calls -> Kinds]
  /\ pending = [i \in Ids |-> None]
  /\ frame = [t \in Threads |-> DeadFrame]
  /\ returned = [c \in Calls |-> None]
  /\ called = [c \in Calls |-> <<>>]
  /\ requests = <<>>
  /\ responses = <<>>
  /\ recv = "idle"
  /\ server = "idle"
  /\ executed = [c \in Calls |-> 0]
  /\ crashes = [c \in Calls |-> 0]

Current(t) == <<t, made[t]>>
CtxUnlocked == recv = "idle"

-----------------------------------------------------------------------------
\* A calling thread.  It enters rpc_call_method: the entry is in the table
\* before the request is sent.  A synchronous call has set up its context.
Register(t) ==
  LET c == <<t, made[t] + 1>> IN
  /\ pc[t] = "idle"
  /\ made[t] < MaxCalls
  /\ CtxUnlocked
  /\ pending' = [pending EXCEPT ![CorrelationId(c)] = Entry(c, kind[c])]
  /\ made' = [made EXCEPT ![t] = @ + 1]
  /\ frame' = IF kind[c] = "sync" THEN [frame EXCEPT ![t] = NewFrame(c)] ELSE frame
  /\ pc' = [pc EXCEPT ![t] = "publish"]
  /\ UNCHANGED <<kind, returned, called, responses, recv, remote>>

\* The call is over; a synchronous one takes its context with it.
Return(t, outcome) ==
  /\ returned' = [returned EXCEPT ![Current(t)] = outcome]
  /\ frame' = IF kind[Current(t)] = "sync"
              THEN [frame EXCEPT ![t].call = None] ELSE frame
  /\ pc' = [pc EXCEPT ![t] = "idle"]

Publish(t) ==
  /\ pc[t] = "publish"
  /\ Len(requests) < ReqCapacity
  /\ requests' = Append(requests, Current(t))
  /\ IF kind[Current(t)] = "sync"
     THEN pc' = [pc EXCEPT ![t] = "wait"] /\ UNCHANGED <<returned, frame>>
     ELSE Return(t, Silent)
  /\ UNCHANGED <<made, kind, pending, called, responses, recv, server, executed,
                 crashes>>

\* The channel is full.  The entry stays in the table.
PublishFails(t) ==
  /\ pc[t] = "publish"
  /\ Len(requests) = ReqCapacity
  /\ Return(t, Failed)
  /\ UNCHANGED <<made, kind, pending, called, responses, recv, remote>>

Waiting == <<made, kind, pending, called, responses, recv, remote>>


\* The answer may be there already, else the thread waits to be signalled.
BeginWait(t) ==
  /\ pc[t] = "wait"
  /\ IF frame[t].done
     THEN Return(t, frame[t].outcome)
     ELSE pc' = [pc EXCEPT ![t] = "blocked"] /\ UNCHANGED <<returned, frame>>
  /\ UNCHANGED Waiting

EndWait(t) ==
  /\ pc[t] = "blocked"
  /\ Return(t, frame[t].outcome)
  /\ UNCHANGED Waiting

\* The wait returns; nothing looks again whether there is an answer.
Wake(t) == frame[t].woken /\ EndWait(t)

\* pthread_cond_timedwait may also return when nobody has signalled.
WakeEarly(t) == MayWakeEarly /\ ~frame[t].woken /\ EndWait(t)

\* The deadline; an answer that was stored meanwhile is returned with it.
WaitTimesOut(t) ==
  /\ pc[t] = "blocked"
  /\ MayTimeOut
  /\ Return(t, [frame[t].outcome EXCEPT !.code = "timeout"])
  /\ UNCHANGED Waiting

-----------------------------------------------------------------------------
Stored_NotKept(f, t, o) ==
  [f EXCEPT !.done = TRUE, !.woken = pc[t] = "blocked", !.outcome = [@ EXCEPT !.code = o.code]]

\* The callbacks of a set S of table entries, told outcome(i) for each.
\* rpc_sync_callback writes to the context its entry names and signals it; it
\* leaves the result alone when it is given none.
Stored(f, t, o) ==
  [f EXCEPT !.done = TRUE, !.woken = pc[t] = "blocked",
            !.outcome = [code |-> o.code, of |-> IF o.of = None THEN @.of ELSE o.of]]

RunCallbacks(S, o) ==
  /\ frame' = [t \in Threads |->
       IF \E i \in S : pending[i].kind = "sync" /\ ThreadOf(pending[i].call) = t
       THEN Stored(frame[t], t, o) ELSE frame[t]]
  /\ called' = [c \in Calls |->
       IF \E i \in S : pending[i].kind = "async" /\ pending[i].call = c
       THEN Append(called[c], o) ELSE called[c]]

\* response_handler, first part: lock ctx->mutex, find the entry.
Received == <<callers, pending, frame, called, responses, remote>>

Awaited(m) == m.id \in {i \in Ids : pending[i] # None}

HandleResponse ==
  /\ recv = "idle"
  /\ responses # <<>>
  /\ Awaited(Head(responses))
  /\ recv' = "found"
  /\ UNCHANGED Received

\* No id, or nobody waits for it: the response is dropped.
DropResponse ==
  /\ recv = "idle"
  /\ responses # <<>>
  /\ ~Awaited(Head(responses))
  /\ responses' = Tail(responses)
  /\ UNCHANGED <<callers, pending, frame, called, recv, remote>>

\* The callback runs with ctx->mutex held.
CallBack ==
  /\ recv = "found"
  /\ RunCallbacks({Head(responses).id}, Answer(Head(responses).of))
  /\ recv' = "called"
  /\ UNCHANGED <<callers, pending, responses, remote>>

RemovePending_Forgotten ==
  /\ recv = "called"
  /\ responses' = Tail(responses)
  /\ recv' = "idle"
  /\ UNCHANGED <<callers, pending, frame, called, remote>>

RemovePending ==
  /\ recv = "called"
  /\ pending' = [pending EXCEPT ![Head(responses).id] = None]
  /\ responses' = Tail(responses)
  /\ recv' = "idle"
  /\ UNCHANGED <<callers, frame, called, remote>>

-----------------------------------------------------------------------------
\* A second passes in which an entry grows older than its timeout.
Age(i) ==
  /\ Timer
  /\ pending[i] # None
  /\ ~pending[i].old
  /\ pending' = [pending EXCEPT ![i].old = TRUE]
  /\ UNCHANGED <<callers, frame, called, responses, recv, remote>>

\* What was called with no timeout stays in the table.
Expired == {i \in Ids : pending[i] # None /\ pending[i].old /\ pending[i].call \notin Untimed}


\* rpc_check_timeouts: under ctx->mutex, for every entry that is too old.
CheckTimeouts ==
  /\ Timer
  /\ CtxUnlocked
  /\ Expired # {}
  /\ RunCallbacks(Expired, TimedOut)
  /\ pending' = [i \in Ids |-> IF i \in Expired THEN None ELSE pending[i]]
  /\ UNCHANGED <<callers, responses, recv, remote>>

-----------------------------------------------------------------------------
\* The server's receive thread.  request_handler runs the method ...
Execute ==
  /\ server = "idle"
  /\ requests # <<>>
  /\ executed' = IF Head(requests) \in Malformed THEN executed
                 ELSE [executed EXCEPT ![Head(requests)] = @ + 1]
  /\ server' = "ran"
  /\ UNCHANGED <<callers, shared, responses, recv, requests, crashes>>

Respond_NoCheck ==
  /\ server = "ran"
  /\ LET c == Head(requests) IN
     responses' = Append(responses, [id |-> CorrelationId(c), of |-> c])
  /\ server' = "responded"
  /\ UNCHANGED <<callers, shared, recv, requests, executed, crashes>>

Respond_OrRetry ==
  /\ server = "ran"
  /\ LET c == Head(requests) IN
     IF Len(responses) < RespCapacity
     THEN /\ responses' = Append(responses, [id |-> CorrelationId(c), of |-> c])
          /\ server' = "responded"
     ELSE /\ server' = "idle"
          /\ UNCHANGED responses
  /\ UNCHANGED <<callers, shared, recv, requests, executed, crashes>>

\* ... and publishes the response, which nobody sends again if that fails.
\* An invalid request is answered by an error without id.
Respond ==
  /\ server = "ran"
  /\ LET c == Head(requests)
         m == [id |-> IF c \in Malformed THEN None ELSE CorrelationId(c), of |-> c]
     IN responses' = IF Len(responses) < RespCapacity THEN Append(responses, m)
                     ELSE responses
  /\ server' = "responded"
  /\ UNCHANGED <<callers, shared, recv, requests, executed, crashes>>

\* The message layer releases the request when the handler has returned.
Release ==
  /\ server = "responded"
  /\ requests' = Tail(requests)
  /\ server' = "idle"
  /\ UNCHANGED <<callers, shared, responses, recv, executed, crashes>>

ServerCrash ==
  /\ server # "idle"
  /\ crashes[Head(requests)] < MaxCrashes
  /\ crashes' = [crashes EXCEPT ![Head(requests)] = @ + 1]
  /\ server' = "idle"
  /\ UNCHANGED <<callers, shared, responses, recv, requests, executed>>

-----------------------------------------------------------------------------
CallSteps(t) ==
  \/ Register(t)
  \/ Publish(t)
  \/ PublishFails(t)
  \/ BeginWait(t)
  \/ Wake(t)
  \/ WaitTimesOut(t)

ReceiveSteps == HandleResponse \/ DropResponse \/ CallBack \/ RemovePending
ServerSteps  == Execute \/ Respond \/ Release

Next ==
  \/ \E t \in Threads : CallSteps(t) \/ WakeEarly(t)
  \/ ReceiveSteps
  \/ \E i \in Ids : Age(i)
  \/ CheckTimeouts
  \/ ServerSteps
  \/ ServerCrash

Spec == Init /\ [][Next]_vars

\* Threads run: a call that has begun goes on, but nobody owes it that its wait
\* returns early or that its deadline comes.  Both receive loops poll, a server
\* that died is started again, and time passes.  The timer thread gets ctx->mutex
\* although the receive thread also takes it again and again.
FairSpec ==
  /\ Spec
  /\ \A t \in Threads : WF_vars(Publish(t) \/ PublishFails(t) \/ BeginWait(t) \/ Wake(t))
  /\ WF_vars(ReceiveSteps)
  /\ WF_vars(ServerSteps)
  /\ \A i \in Ids : WF_vars(Age(i))
  /\ SF_vars(CheckTimeouts)

-----------------------------------------------------------------------------
(* An asynchronous call's callback runs at most once: a response that      *)
(* comes twice because the server died, one that comes after the timeout,  *)
(* and the timeout itself exclude each other (response_handler,            *)
(* rpc_check_timeouts).                                                    *)
AtMostOneCallback == \A c \in Calls : Len(called[c]) <= 1

(* Whoever is told an answer is told the answer to its own request.        *)
OwnAnswer ==
  \A c \in Calls :
    /\ \A j \in DOMAIN called[c] : called[c][j].of \in {c, None}
    /\ returned[c] # None => returned[c].of \in {c, None}

(* A callback is told the answer to its own request, and a synchronous     *)
(* call that or one which an earlier call of the same thread has given up  *)
(* waiting for: no answer crosses from one thread to another or is         *)
(* returned twice, whatever is late, repeated or left in the table         *)
(* (rpc_sync_callback, response_handler).                                  *)
AnswersStayInThread ==
  /\ \A c \in Calls : \A j \in DOMAIN called[c] : called[c][j].of \in {c, None}
  /\ \A c \in Calls : returned[c] # None /\ returned[c].of # None =>
       LET d == returned[c].of
       IN  /\ ThreadOf(d) = ThreadOf(c) /\ d[2] <= c[2]
           /\ \A e \in Calls \ {c} : returned[e] # None => returned[e].of # d

(* When a callback can still be run on a context that is gone, its call    *)
(* has come back without its answer: nothing else leaves an entry behind   *)
(* (rpc_call_method_sync, response_handler).                               *)
CallbackDone(i) == recv = "called" /\ Head(responses).id = i

ContextAlive ==
  \A i \in Ids : pending[i] # None /\ pending[i].kind = "sync" /\ ~CallbackDone(i) =>
    LET c == pending[i].call
    IN  frame[ThreadOf(c)].call = c \/ (returned[c] # None /\ returned[c].of # c)

(* A synchronous call comes back with neither an answer nor a reason only  *)
(* when nothing had been told it: not when an answer, a timeout of its     *)
(* entry or both came before, between or after its steps                   *)
(* (rpc_call_method_sync, rpc_sync_callback).                              *)
SilentOnlyUntold ==
  [][\A c \in Calls : kind[c] = "sync" /\ returned[c] # returned'[c] /\ returned'[c] = Silent =>
       ~frame[ThreadOf(c)].done]_vars

(* The method runs again for the same request only when the server died    *)
(* over it: a response that cannot be sent is given up, the request is not *)
(* repeated for it (request_handler, recv_msg).                            *)
RepeatedOnlyAfterCrash == \A c \in Calls : executed[c] <= 1 + crashes[c]

(* Every asynchronous call that has a timeout is called back, with its     *)
(* answer or with the timeout, whatever is lost on the way                 *)
(* (rpc_check_timeouts).                                                   *)
EveryCallIsCalledBack ==
  \A c \in Calls \ Untimed :
    (kind[c] = "async" /\ made[ThreadOf(c)] >= c[2]) ~> (called[c] # <<>>)

=============================================================================
