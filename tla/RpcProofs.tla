------------------------------ MODULE RpcProofs ------------------------------
(***************************************************************************)
(* What JSON-RPC guarantees its callers, for any number of threads and     *)
(* calls, channels of any capacity and any number of deaths of the server. *)
(***************************************************************************)
EXTENDS Rpc, SequenceTheorems, TLAPS

\* A thread in a call has made one; what a receive thread is at is there: the
\* request at the front of its channel, the response and the entry it is for.
ControlInv ==
  /\ \A t \in Threads : pc[t] # "idle" => made[t] > 0
  /\ server # "idle" => requests # <<>>
  /\ recv # "idle" => responses # <<>> /\ Awaited(Head(responses))

TypeInv == TypeOK /\ ControlInv

\* Every call has an id, and None is none of them.
LEMMA IdTypes ==
  /\ \A c \in Calls : CorrelationId(c) \in Ids
  /\ None \notin Ids
  BY CallAssumption DEF Ids, CorrelationId

\* The call a thread is in is one of its own, the last it has made.
LEMMA CurrentType ==
  ASSUME TypeInv, NEW t \in Threads, pc[t] # "idle"
  PROVE  /\ Current(t) \in Calls
         /\ ThreadOf(Current(t)) = t /\ Current(t)[2] = made[t]
  BY CallAssumption DEF TypeInv, TypeOK, ControlInv, Current, Calls, ThreadOf

\* The front of a channel is what was put there, and the rest of a channel is
\* no longer than the channel was.
LEMMA FrontType ==
  ASSUME NEW S, NEW s \in Seq(S), s # <<>>
  PROVE  /\ Head(s) \in S /\ Tail(s) \in Seq(S)
         /\ Len(s) \in Nat \ {0} /\ Len(Tail(s)) = Len(s) - 1
  OBVIOUS

\* The front stays while messages are appended.
LEMMA FrontStays ==
  ASSUME NEW S, NEW s \in Seq(S), s # <<>>, NEW x \in S
  PROVE  /\ Append(s, x) \in Seq(S) /\ Append(s, x) # <<>>
         /\ Head(Append(s, x)) = Head(s)
  OBVIOUS

\* Nothing has happened at first: every part has its type, ...
LEMMA TypeInvInit == Init => TypeInv
<1> SUFFICES ASSUME Init
             PROVE  TypeInv
  OBVIOUS
<1>1. DeadFrame \in Frames
  BY DEF DeadFrame, Frames, Silent, Outcomes
<1>2. kind \in [Calls -> {"sync", "async"}]
  BY CallAssumption DEF Init
<1> QED
  BY <1>1, <1>2, CallAssumption DEF Init, TypeInv, TypeOK, ControlInv

\* What a call returns.
LEMMA ReturnType ==
  ASSUME TypeInv, NEW t \in Threads, pc[t] # "idle", NEW o \in Outcomes, Return(t, o)
  PROVE  /\ returned' \in [Calls -> Outcomes \cup {None}]
         /\ frame' \in [Threads -> Frames]
         /\ pc' \in [Threads -> {"idle", "publish", "wait", "blocked"}]
         /\ \A u \in Threads : pc'[u] # "idle" => pc[u] # "idle"
<1>1. PICK c : c = Current(t)
  OBVIOUS
<1>2. c \in Calls
  BY <1>1, CurrentType
<1>3. returned' \in [Calls -> Outcomes \cup {None}]
  BY <1>1, <1>2 DEF TypeInv, TypeOK, Return
<1>4. frame' \in [Threads -> Frames]
  <2> DEFINE f == frame[t]
  <2>1. f \in Frames
    BY DEF TypeInv, TypeOK
  <2> HIDE DEF f
  <2>2. [f EXCEPT !.call = None] \in Frames
    BY <2>1 DEF Frames
  <2> QED
    BY <2>2 DEF TypeInv, TypeOK, Return, f
<1>5. /\ pc' \in [Threads -> {"idle", "publish", "wait", "blocked"}]
      /\ \A u \in Threads : pc'[u] # "idle" => pc[u] # "idle"
  BY DEF TypeInv, TypeOK, Return
<1> QED
  BY <1>3, <1>4, <1>5

\* What the callbacks of some entries leave behind.
LEMMA CallbackType ==
  ASSUME TypeInv, NEW S \in SUBSET Ids, NEW o \in Outcomes, RunCallbacks(S, o)
  PROVE  /\ frame' \in [Threads -> Frames]
         /\ called' \in [Calls -> Seq(Outcomes)]
<1>1. ASSUME NEW t \in Threads
      PROVE  Stored(frame[t], t, o) \in Frames
  <2> DEFINE f == frame[t]
             w == (pc[t] = "blocked")
             q == [code |-> o.code, of |-> IF o.of = None THEN f.outcome.of ELSE o.of]
  <2>1. f \in Frames /\ q \in Outcomes /\ w \in BOOLEAN
    BY DEF TypeInv, TypeOK, Frames, Outcomes
  <2>2. Stored(f, t, o) = [f EXCEPT !.done = TRUE, !.woken = w, !.outcome = q]
    BY <2>1 DEF Stored, Frames
  <2> HIDE DEF f, w, q
  <2>3. [f EXCEPT !.done = TRUE, !.woken = w, !.outcome = q] \in Frames
    BY <2>1 DEF Frames
  <2> QED
    BY <2>2, <2>3 DEF f
<1>2. frame' \in [Threads -> Frames]
  BY <1>1 DEF TypeInv, TypeOK, RunCallbacks
<1>3. \A c \in Calls : Append(called[c], o) \in Seq(Outcomes)
  BY DEF TypeInv, TypeOK
<1> QED
  BY <1>2, <1>3 DEF TypeInv, TypeOK, RunCallbacks

\* Every step of the client, the server, a channel or the clock keeps it.
LEMMA TypeInvStep ==
  ASSUME TypeInv, [Next]_vars
  PROVE  TypeInv'
<1> USE CallAssumption DEF TypeInv, TypeOK, ControlInv, callers, shared, remote, Awaited
<1>1. ASSUME NEW t \in Threads, Register(t)
      PROVE  TypeInv'
  <2> DEFINE c == <<t, made[t] + 1>>
  <2>1. c \in Calls /\ CorrelationId(c) \in Ids
    <3>1. t \in Threads /\ made[t] \in 0 .. MaxCalls /\ made[t] < MaxCalls
      BY <1>1 DEF Register
    <3>2. c \in Calls
      BY ONLY <3>1, CallAssumption DEF Calls
    <3> QED
      BY ONLY <3>2, IdTypes
  <2>2. Entry(c, kind[c]) \in Entries /\ NewFrame(c) \in Frames
    BY <2>1 DEF Entry, Entries, NewFrame, DeadFrame, Frames, Silent, Outcomes
  <2>3. /\ pending' \in [Ids -> Entries \cup {None}]
        /\ frame' \in [Threads -> Frames]
    BY <1>1, <2>1, <2>2 DEF Register
  <2>4. /\ made' \in [Threads -> 0 .. MaxCalls]
        /\ pc' \in [Threads -> {"idle", "publish", "wait", "blocked"}]
        /\ \A u \in Threads : pc'[u] # "idle" => made'[u] > 0
    <3>1. /\ made \in [Threads -> 0 .. MaxCalls] /\ made[t] < MaxCalls
          /\ made' = [made EXCEPT ![t] = @ + 1]
          /\ pc \in [Threads -> {"idle", "publish", "wait", "blocked"}]
          /\ pc' = [pc EXCEPT ![t] = "publish"]
          /\ \A u \in Threads : pc[u] # "idle" => made[u] > 0
      BY <1>1 DEF Register
    <3> QED
      BY ONLY <3>1, CallAssumption
  <2> QED
    BY <1>1, <2>3, <2>4 DEF Register, CtxUnlocked
<1>2. ASSUME NEW t \in Threads, Publish(t)
      PROVE  TypeInv'
  <2>1. Current(t) \in Calls
    BY <1>2, CurrentType DEF Publish
  <2>2. /\ requests' \in Seq(Calls) /\ Len(requests') <= ReqCapacity
        /\ requests' # <<>>
    <3>1. /\ requests' = Append(requests, Current(t)) /\ Len(requests) < ReqCapacity
          /\ requests \in Seq(Calls)
      BY <1>2 DEF Publish
    <3> QED
      BY ONLY <2>1, <3>1, CallAssumption, AppendProperties, LenProperties, EmptySeq
  <2>3. CASE pc' = [pc EXCEPT ![t] = "wait"] /\ UNCHANGED <<returned, frame>>
    <3>1. /\ pc' \in [Threads -> {"idle", "publish", "wait", "blocked"}]
          /\ \A u \in Threads : pc'[u] # "idle" => pc[u] # "idle"
      BY <1>2, <2>3 DEF Publish
    <3> QED
      BY <1>2, <2>2, <2>3, <3>1 DEF Publish
  <2>4. CASE Return(t, Silent)
    <3>1. Silent \in Outcomes
      BY DEF Silent, Outcomes
    <3> QED
      BY <1>2, <2>2, <2>4, <3>1, ReturnType DEF Publish
  <2> QED
    BY <1>2, <2>3, <2>4 DEF Publish
<1>3. ASSUME NEW t \in Threads, NEW o \in Outcomes, pc[t] # "idle", Return(t, o),
             UNCHANGED Waiting
      PROVE  TypeInv'
  BY <1>3, ReturnType DEF Waiting
<1>4. ASSUME NEW t \in Threads,
             PublishFails(t) \/ BeginWait(t) \/ Wake(t) \/ WakeEarly(t) \/ WaitTimesOut(t)
      PROVE  TypeInv'
  <2>1. /\ Failed \in Outcomes
        /\ frame[t].outcome \in Outcomes
        /\ [frame[t].outcome EXCEPT !.code = "timeout"] \in Outcomes
    <3> DEFINE o == frame[t].outcome
    <3>1. Failed \in Outcomes /\ o \in Outcomes
      BY DEF Failed, Frames, Outcomes
    <3> HIDE DEF o
    <3>2. [o EXCEPT !.code = "timeout"] \in Outcomes
      BY <3>1 DEF Outcomes
    <3> QED
      BY <3>1, <3>2 DEF o
  <2>2. CASE BeginWait(t) /\ ~frame[t].done
    BY <2>2 DEF BeginWait, Waiting
  <2> QED
    BY <1>3, <1>4, <2>1, <2>2
    DEF PublishFails, BeginWait, Wake, WakeEarly, WaitTimesOut, EndWait, Waiting
<1>5. CASE HandleResponse
  BY <1>5 DEF HandleResponse, Received
<1>6. CASE DropResponse
  BY <1>6, FrontType DEF DropResponse
<1>7. CASE CallBack
  <2>1. Head(responses) \in Messages /\ Head(responses).id \in Ids
    BY <1>7, FrontType DEF CallBack
  <2>2. Answer(Head(responses).of) \in Outcomes
    BY <2>1 DEF Messages, Answer, Outcomes
  <2> QED
    BY <1>7, <2>1, <2>2, CallbackType DEF CallBack
<1>8. CASE RemovePending
  <2>1. Tail(responses) \in Seq(Messages) /\ Len(Tail(responses)) <= RespCapacity
    BY <1>8, FrontType DEF RemovePending
  <2> QED
    BY <1>8, <2>1 DEF RemovePending
<1>9. ASSUME NEW i \in Ids, Age(i)
      PROVE  TypeInv'
  <2>1. [pending[i] EXCEPT !.old = TRUE] \in Entries
    <3> DEFINE e == pending[i]
    <3>1. e \in Entries
      BY <1>9 DEF Age
    <3> HIDE DEF e
    <3>2. [e EXCEPT !.old = TRUE] \in Entries
      BY <3>1 DEF Entries
    <3> QED
      BY <3>2 DEF e
  <2>2. [pending[i] EXCEPT !.old = TRUE] # None
    BY <2>1, NoneAssumption
  <2> QED
    BY <1>9, <2>1, <2>2 DEF Age
<1>10. CASE CheckTimeouts
  <2>1. Expired \in SUBSET Ids /\ TimedOut \in Outcomes
    BY DEF Expired, TimedOut, Outcomes
  <2> QED
    BY <1>10, <2>1, CallbackType DEF CheckTimeouts, CtxUnlocked
<1>11. CASE Execute
  <2>1. executed' \in [Calls -> Nat]
    <3>1. executed \in [Calls -> Nat] /\ Head(requests) \in Calls
      BY <1>11, FrontType DEF Execute
    <3>2. \/ executed' = executed
          \/ executed' = [executed EXCEPT ![Head(requests)] = @ + 1]
      BY <1>11 DEF Execute
    <3> QED
      BY ONLY <3>1, <3>2
  <2> QED
    BY <1>11, <2>1 DEF Execute
<1>12. CASE Respond
  <2> DEFINE c == Head(requests)
             m == [id |-> IF c \in Malformed THEN None ELSE CorrelationId(c), of |-> c]
  <2>1. m \in Messages
    BY <1>12, FrontType, IdTypes DEF Respond, Messages
  <2>2. responses' = Append(responses, m) \/ responses' = responses
    BY <1>12 DEF Respond
  <2>3. Len(responses) < RespCapacity \/ responses' = responses
    BY <1>12 DEF Respond
  <2> HIDE DEF m
  <2>4. /\ responses' \in Seq(Messages) /\ Len(responses') <= RespCapacity
        /\ responses # <<>> => responses' # <<>> /\ Head(responses') = Head(responses)
    <3>1. CASE responses' = Append(responses, m) /\ Len(responses) < RespCapacity
      <4>1. responses \in Seq(Messages) /\ RespCapacity \in Nat
        OBVIOUS
      <4>2. responses' \in Seq(Messages) /\ Len(responses') = Len(responses) + 1
        BY <2>1, <3>1, <4>1, AppendProperties
      <4>3. Len(responses') <= RespCapacity
        BY <3>1, <4>1, <4>2
      <4>4. responses # <<>> => responses' # <<>> /\ Head(responses') = Head(responses)
        BY ONLY <2>1, <3>1, <4>1, FrontStays
      <4> QED
        BY ONLY <4>2, <4>3, <4>4
    <3> QED
      BY <2>2, <2>3, <3>1
  <2> QED
    BY <1>12, <2>4 DEF Respond
<1>13. CASE Release
  <2>1. Tail(requests) \in Seq(Calls) /\ Len(Tail(requests)) <= ReqCapacity
    <3>1. requests \in Seq(Calls) /\ requests # <<>> /\ Len(requests) <= ReqCapacity
      BY <1>13 DEF Release
    <3> QED
      BY ONLY <3>1, FrontType, CallAssumption
  <2> QED
    BY <1>13, <2>1 DEF Release
<1>14. CASE ServerCrash
  <2>1. crashes' \in [Calls -> 0 .. MaxCrashes]
    <3>1. /\ crashes \in [Calls -> 0 .. MaxCrashes] /\ crashes[Head(requests)] < MaxCrashes
          /\ crashes' = [crashes EXCEPT ![Head(requests)] = @ + 1]
          /\ Head(requests) \in Calls
      BY <1>14, FrontType DEF ServerCrash
    <3> QED
      BY ONLY <3>1, CallAssumption
  <2> QED
    BY <1>14, <2>1 DEF ServerCrash
<1>15. CASE UNCHANGED vars
  BY <1>15 DEF vars
<1> QED
  BY <1>1, <1>2, <1>4, <1>5, <1>6, <1>7, <1>8, <1>9, <1>10, <1>11, <1>12, <1>13, <1>14,
     <1>15
  DEF Next, CallSteps, ReceiveSteps, ServerSteps

\* ... and so in every reachable state.
LEMMA TypeInvHolds == Spec => []TypeInv
  BY TypeInvInit, TypeInvStep, PTL DEF Spec

(* Every reachable state is well typed: no channel holds more than it can, *)
(* and no thread gives up what it does not have (rpc.c).                   *)
THEOREM TypeCorrect == Spec => []TypeOK
  BY TypeInvHolds, PTL DEF TypeInv

-----------------------------------------------------------------------------
\* Every entry stands under its call's id, for a call that was made.  A call
\* that was called back was so once, and has no entry any more but the one
\* that the receive thread is about to remove.
EntryOf(i, c) == pending[i] # None /\ pending[i].call = c

Made(c) == made[ThreadOf(c)] >= c[2]

CallInv ==
  /\ \A i \in Ids, c \in Calls : EntryOf(i, c) =>
       CorrelationId(c) = i /\ Made(c) /\ pending[i].kind = kind[c]
  /\ \A c \in Calls : called[c] # <<>> =>
       /\ Len(called[c]) = 1
       /\ Made(c)
       /\ \A i \in Ids : EntryOf(i, c) => CallbackDone(i)

\* Thread t's next call.
LEMMA NextCallType ==
  ASSUME TypeInv, NEW t \in Threads, made[t] < MaxCalls, NEW c, c = <<t, made[t] + 1>>
  PROVE  c \in Calls /\ ThreadOf(c) = t /\ c[2] = made[t] + 1 /\ ~Made(c)
<1>1. PICK n : n = made[t] + 1
  OBVIOUS
<1>2. made[t] \in 0 .. MaxCalls /\ MaxCalls \in Nat
  BY CallAssumption DEF TypeInv, TypeOK
<1>3. n \in 1 .. MaxCalls /\ ~(n <= made[t])
  BY <1>1, <1>2
<1>4. c = <<t, n>> /\ c[1] = t /\ c[2] = n
  BY <1>1
<1> QED
  BY <1>1, <1>3, <1>4 DEF Calls, ThreadOf, Made

\* A call is one of a thread of the client.
LEMMA CallType ==
  \A c \in Calls : ThreadOf(c) \in Threads /\ c[2] \in 1 .. MaxCalls
                   /\ c = <<ThreadOf(c), c[2]>>
  BY DEF Calls, ThreadOf

\* The response the receive thread is at stays the first when one is appended.
LEMMA RespondKeepsFront ==
  ASSUME TypeInv, Respond
  PROVE  recv # "idle" => Head(responses') = Head(responses)
<1> DEFINE c == Head(requests)
           m == [id |-> IF c \in Malformed THEN None ELSE CorrelationId(c), of |-> c]
<1>1. m \in Messages
  BY FrontType, IdTypes DEF Respond, Messages, TypeInv, TypeOK, ControlInv
<1>2. responses' = Append(responses, m) \/ responses' = responses
  BY DEF Respond
<1> HIDE DEF m
<1>3. responses \in Seq(Messages) /\ (recv # "idle" => responses # <<>>)
  BY DEF TypeInv, TypeOK, ControlInv
<1> QED
  BY <1>1, <1>2, <1>3, FrontStays

\* A callback is told the answer of the response that was found.
LEMMA CallBackType ==
  ASSUME TypeInv, CallBack
  PROVE  LET h == Head(responses).id
             o == Answer(Head(responses).of)
         IN  /\ h \in Ids /\ pending[h] # None
             /\ o \in Outcomes /\ o.code = "ok" /\ o.of # None
<1>1. Head(responses) \in Messages /\ Awaited(Head(responses))
  BY FrontType DEF CallBack, TypeInv, TypeOK, ControlInv
<1> QED
  BY <1>1, CallAssumption DEF Awaited, Messages, Answer, Outcomes

\* At first nobody has been called back, ...
LEMMA CallInvInit == Init => CallInv
  BY DEF Init, CallInv, EntryOf

\* Entries may go and marks of age may come, as long as nobody is called back.
LEMMA CallInvQuiet ==
  ASSUME TypeInv, CallInv, UNCHANGED <<made, kind, called>>,
         \A i \in Ids, c \in Calls : EntryOf(i, c)' =>
           EntryOf(i, c) /\ pending'[i].kind = pending[i].kind
                         /\ (CallbackDone(i) => CallbackDone(i)')
  PROVE  CallInv'
  BY DEF CallInv, Made

\* The callbacks of the entries S, all of which go or are marked done: a call
\* has one entry at most, so one callback of it runs, if none ran before.
LEMMA CallInvCallbacks ==
  ASSUME TypeInv, CallInv, NEW S \in SUBSET Ids, NEW o \in Outcomes, RunCallbacks(S, o),
         UNCHANGED <<made, kind>>,
         \A i \in Ids : ~CallbackDone(i),
         \A i \in S : pending[i] # None,
         \A i \in Ids, c \in Calls : EntryOf(i, c)' =>
           EntryOf(i, c) /\ pending'[i].kind = pending[i].kind,
         \A i \in S : pending'[i] = None \/ CallbackDone(i)'
  PROVE  CallInv'
<1>1. ASSUME NEW c \in Calls, called'[c] # <<>>
      PROVE  /\ Len(called'[c]) = 1
             /\ Made(c)
             /\ \A i \in Ids : EntryOf(i, c)' => CallbackDone(i)'
  <2>1. CASE \E i \in S : pending[i].kind = "async" /\ pending[i].call = c
    <3>1. PICK i \in S : pending[i].kind = "async" /\ pending[i].call = c
      BY <2>1
    <3>2. EntryOf(i, c) /\ CorrelationId(c) = i /\ Made(c)
      BY <3>1 DEF EntryOf, CallInv
    <3>3. called[c] = <<>>
      BY <3>2 DEF CallInv
    <3>4. called'[c] = Append(<<>>, o)
      BY <2>1, <3>3 DEF RunCallbacks
    <3>5. Len(called'[c]) = 1
      BY <3>4
    <3>6. \A j \in Ids : EntryOf(j, c)' => j = i
      BY <3>2 DEF CallInv
    <3> QED
      BY <3>2, <3>5, <3>6 DEF EntryOf
  <2>2. CASE ~\E i \in S : pending[i].kind = "async" /\ pending[i].call = c
    <3>1. called'[c] = called[c]
      BY <2>2 DEF RunCallbacks
    <3> QED
      BY <1>1, <3>1 DEF CallInv
  <2> QED
    BY <2>1, <2>2
<1>2. \A i \in Ids, c \in Calls : EntryOf(i, c)' =>
        CorrelationId(c) = i /\ Made(c)' /\ pending'[i].kind = kind'[c]
  BY DEF CallInv, Made
<1> QED
  BY <1>1, <1>2 DEF CallInv, Made

\* ... and no step calls anyone back a second time.
LEMMA CallInvStep ==
  ASSUME TypeInv, CallInv, [Next]_vars
  PROVE  CallInv'
<1> USE DEF callers, shared, remote
<1>1. ASSUME NEW t \in Threads, Register(t)
      PROVE  CallInv'
  <2> PICK c : c = <<t, made[t] + 1>>
    OBVIOUS
  <2>1. /\ c \in Calls /\ ThreadOf(c) = t /\ c[2] = made[t] + 1 /\ ~Made(c)
        /\ CorrelationId(c) \in Ids
    BY <1>1, NextCallType, IdTypes DEF Register
  <2>2. /\ pending' = [pending EXCEPT ![CorrelationId(c)] = Entry(c, kind[c])]
        /\ made' = [made EXCEPT ![t] = @ + 1]
        /\ UNCHANGED <<kind, called, recv, responses>>
        /\ recv = "idle"
    BY <1>1 DEF Register, CtxUnlocked
  <2>3. \A d \in Calls : Made(d) => Made(d)'
    BY <2>2, CallType DEF TypeInv, TypeOK, Made
  <2>4. Made(c)'
    BY <2>1, <2>2 DEF TypeInv, TypeOK, Made
  <2>5. ASSUME NEW i \in Ids, NEW d \in Calls, EntryOf(i, d)', i # CorrelationId(c)
        PROVE  EntryOf(i, d) /\ pending'[i] = pending[i]
    BY <2>2, <2>5 DEF TypeInv, TypeOK, EntryOf
  <2>6. /\ pending'[CorrelationId(c)].call = c
        /\ pending'[CorrelationId(c)].kind = kind[c]
    BY <2>1, <2>2 DEF TypeInv, TypeOK, Entry
  <2>7. called[c] = <<>>
    BY <2>1 DEF CallInv
  <2>8. ASSUME NEW i \in Ids, NEW d \in Calls, EntryOf(i, d)'
        PROVE  /\ CorrelationId(d) = i /\ Made(d)' /\ pending'[i].kind = kind[d]
               /\ EntryOf(i, d) \/ d = c
    <3>1. CASE i = CorrelationId(c)
      BY <2>4, <2>6, <2>8, <3>1 DEF EntryOf
    <3>2. CASE i # CorrelationId(c)
      BY <2>3, <2>5, <2>8, <3>2 DEF CallInv
    <3> QED
      BY <3>1, <3>2
  <2> QED
    BY <2>2, <2>3, <2>7, <2>8 DEF CallInv, CallbackDone
<1>2. CASE UNCHANGED <<made, kind, called, pending, recv, responses>>
  BY <1>2, CallInvQuiet DEF EntryOf, CallbackDone
<1>3. CASE HandleResponse \/ DropResponse
  BY <1>3, CallInvQuiet DEF HandleResponse, DropResponse, Received, EntryOf, CallbackDone
<1>4. CASE CallBack
  <2> PICK h, o : h = Head(responses).id /\ o = Answer(Head(responses).of)
    OBVIOUS
  <2>1. h \in Ids /\ pending[h] # None /\ o \in Outcomes
    BY <1>4, CallBackType
  <2>2. RunCallbacks({h}, o) /\ UNCHANGED <<made, kind, pending>>
    BY <1>4 DEF CallBack
  <2>3. (\A i \in Ids : ~CallbackDone(i)) /\ CallbackDone(h)'
    BY <1>4 DEF CallBack, CallbackDone
  <2>4. /\ \A i \in {h} : pending[i] # None
        /\ \A i \in {h} : pending'[i] = None \/ CallbackDone(i)'
        /\ {h} \in SUBSET Ids
    BY <2>1, <2>3
  <2>5. \A i \in Ids, c \in Calls : EntryOf(i, c)' =>
          EntryOf(i, c) /\ pending'[i].kind = pending[i].kind
    BY <2>2 DEF EntryOf
  <2> QED
    BY <2>1, <2>2, <2>3, <2>4, <2>5, CallInvCallbacks
<1>5. CASE RemovePending
  <2> DEFINE h == Head(responses).id
  <2>1. h \in Ids
    BY <1>5 DEF RemovePending, TypeInv, ControlInv, Awaited
  <2>2. pending' = [pending EXCEPT ![h] = None] /\ UNCHANGED <<made, kind, called>>
    BY <1>5 DEF RemovePending
  <2>3. \A i \in Ids : CallbackDone(i) => i = h
    BY DEF CallbackDone
  <2> HIDE DEF h
  <2>4. \A i \in Ids, c \in Calls : EntryOf(i, c)' => EntryOf(i, c) /\ i # h
    BY <2>1, <2>2 DEF EntryOf, TypeInv, TypeOK
  <2>5. \A i \in Ids : i # h => pending'[i] = pending[i]
    BY <2>1, <2>2 DEF TypeInv, TypeOK
  <2> QED
    BY <2>2, <2>3, <2>4, <2>5, CallInvQuiet
<1>6. ASSUME NEW i \in Ids, Age(i)
      PROVE  CallInv'
  <2>1. UNCHANGED <<made, kind, called, recv, responses>>
    BY <1>6 DEF Age
  <2>2. \A j \in Ids : pending'[j] = pending[j] \/ pending'[j] = [pending[j] EXCEPT !.old = TRUE]
    BY <1>6 DEF Age, TypeInv, TypeOK
  <2>3. \A j \in Ids : pending'[j] # None => pending[j] # None
    BY <1>6 DEF Age, TypeInv, TypeOK
  <2>4. ASSUME NEW j \in Ids, pending[j] # None
        PROVE  pending'[j].call = pending[j].call /\ pending'[j].kind = pending[j].kind
    <3> DEFINE e == pending[j]
               f == pending'[j]
    <3>1. e \in Entries /\ (f = e \/ f = [e EXCEPT !.old = TRUE])
      BY <2>2, <2>4 DEF TypeInv, TypeOK
    <3> HIDE DEF e, f
    <3>2. f.call = e.call /\ f.kind = e.kind
      BY <3>1 DEF Entries
    <3> QED
      BY <3>2 DEF e, f
  <2> QED
    BY <2>1, <2>3, <2>4, CallInvQuiet DEF EntryOf, CallbackDone
<1>7. CASE CheckTimeouts
  <2>1. Expired \in SUBSET Ids /\ TimedOut \in Outcomes /\ \A i \in Expired : pending[i] # None
    BY DEF Expired, TimedOut, Outcomes
  <2>2. RunCallbacks(Expired, TimedOut) /\ UNCHANGED <<made, kind>>
    BY <1>7 DEF CheckTimeouts
  <2>3. \A i \in Ids : ~CallbackDone(i)
    BY <1>7 DEF CheckTimeouts, CtxUnlocked, CallbackDone
  <2>4. \A i \in Ids : pending'[i] = IF i \in Expired THEN None ELSE pending[i]
    BY <1>7 DEF CheckTimeouts
  <2>5. \A i \in Ids, c \in Calls : EntryOf(i, c)' =>
          EntryOf(i, c) /\ pending'[i].kind = pending[i].kind
    BY <2>4 DEF EntryOf
  <2>6. \A i \in Expired : pending'[i] = None
    BY <2>1, <2>4
  <2> QED
    BY <2>1, <2>2, <2>3, <2>5, <2>6, CallInvCallbacks
<1>8. CASE Respond
  <2>1. UNCHANGED <<made, kind, called, pending, recv>>
    BY <1>8 DEF Respond
  <2>2. recv # "idle" => Head(responses') = Head(responses)
    BY <1>8, RespondKeepsFront
  <2> QED
    BY <2>1, <2>2, CallInvQuiet DEF EntryOf, CallbackDone
<1> QED
  BY <1>1, <1>2, <1>3, <1>4, <1>5, <1>6, <1>7, <1>8
  DEF Next, CallSteps, ReceiveSteps, ServerSteps, Publish, PublishFails, BeginWait, Wake,
      WakeEarly, WaitTimesOut, EndWait, Waiting, Execute, Release, ServerCrash, vars

\* The table and the callbacks fit together in every reachable state.
LEMMA CallInvHolds == Spec => [](TypeInv /\ CallInv)
<1>1. Init => TypeInv /\ CallInv
  BY TypeInvInit, CallInvInit
<1>2. TypeInv /\ CallInv /\ [Next]_vars => TypeInv' /\ CallInv'
  BY TypeInvStep, CallInvStep
<1> QED
  BY <1>1, <1>2, PTL DEF Spec

(* No callback of an asynchronous call runs twice, whatever is repeated,   *)
(* late or lost, also when requests share an id (response_handler,         *)
(* rpc_check_timeouts).                                                    *)
THEOREM CallbackRunsOnce == Spec => []AtMostOneCallback
<1>1. TypeInv /\ CallInv => AtMostOneCallback
  <2> SUFFICES ASSUME TypeInv, CallInv, NEW c \in Calls
               PROVE  Len(called[c]) <= 1
    BY DEF AtMostOneCallback
  <2>1. CASE called[c] = <<>>
    BY <2>1
  <2>2. CASE called[c] # <<>>
    <3>1. Len(called[c]) = 1
      BY <2>2 DEF CallInv
    <3> QED
      BY <3>1
  <2> QED
    BY <2>1, <2>2
<1> QED
  BY <1>1, CallInvHolds, PTL

-----------------------------------------------------------------------------
\* A request is published once.  What was not, or is not at the front yet, has
\* not run; the one at the front has not run since the server last died, if the
\* server is not at it.
Published(c) ==
  /\ Made(c)
  /\ ~(pc[ThreadOf(c)] = "publish" /\ c = Current(ThreadOf(c)))

ExecInv ==
  /\ \A j, k \in DOMAIN requests : requests[j] = requests[k] => j = k
  /\ \A j \in DOMAIN requests : Published(requests[j])
  /\ \A j \in DOMAIN requests : j > 1 => executed[requests[j]] = 0
  /\ \A c \in Calls : ~Published(c) => executed[c] = 0
  /\ \A c \in Calls : executed[c] <= 1 + crashes[c]
  /\ server = "idle" /\ requests # <<>> => executed[Head(requests)] <= crashes[Head(requests)]

\* Positions in a channel when a request is appended or the front is taken.
LEMMA AppendPositions ==
  ASSUME NEW S, NEW s \in Seq(S), NEW x \in S, NEW r, r = Append(s, x)
  PROVE  /\ Len(r) = Len(s) + 1 /\ DOMAIN r = 1 .. Len(s) + 1 /\ DOMAIN s = 1 .. Len(s)
         /\ r[Len(s) + 1] = x /\ \A j \in DOMAIN s : r[j] = s[j]
         /\ \A j \in DOMAIN r : j \in DOMAIN s \/ j = Len(s) + 1
  OBVIOUS

\* What is left of a channel has moved up by one position.
LEMMA TailPositions ==
  ASSUME NEW S, NEW s \in Seq(S), s # <<>>, NEW r, r = Tail(s)
  PROVE  /\ \A j \in DOMAIN r : j + 1 \in DOMAIN s /\ r[j] = s[j + 1]
         /\ DOMAIN r \subseteq Nat \ {0}
         /\ r # <<>> => 1 \in DOMAIN r /\ Head(r) = r[1]
  OBVIOUS

\* The front of a channel is at its first position.
LEMMA FirstPosition ==
  ASSUME NEW S, NEW s \in Seq(S), s # <<>>
  PROVE  1 \in DOMAIN s /\ Head(s) = s[1] /\ DOMAIN s \subseteq Nat \ {0}
  OBVIOUS

\* At first nothing has been executed, ...
LEMMA ExecInvInit == Init => ExecInv
  BY DEF Init, ExecInv

\* A call that was published has been, whatever the threads do next ...
LEMMA ExecInvQuiet ==
  ASSUME TypeInv, ExecInv, UNCHANGED <<requests, executed, crashes, server>>,
         \A c \in Calls : Published(c) => Published(c)'
  PROVE  ExecInv'
<1>1. \A j \in DOMAIN requests : requests[j] \in Calls
  BY DEF TypeInv, TypeOK
<1>2. \A j \in DOMAIN requests : Published(requests[j])'
  BY <1>1 DEF ExecInv
<1> QED
  BY <1>2 DEF ExecInv

\* ... unless one begins a call that is not the one it was at.
LEMMA PublishedStays ==
  ASSUME TypeInv, made' = made,
         \A t \in Threads : pc'[t] = "publish" => pc[t] = "publish"
  PROVE  \A c \in Calls : Published(c) => Published(c)'
  BY CallType DEF Published, Made, Current

\* ... and a step executes a request again only after a death of the server.
LEMMA ExecInvStep ==
  ASSUME TypeInv, ExecInv, [Next]_vars
  PROVE  ExecInv'
<1> USE DEF callers, shared, remote
<1>1. ASSUME NEW t \in Threads, Register(t)
      PROVE  ExecInv'
  <2>1. ASSUME NEW d \in Calls, Published(d)
        PROVE  Published(d)'
    <3>1. ThreadOf(d) \in Threads /\ d[2] \in Nat /\ made[ThreadOf(d)] \in Nat
      BY CallType DEF TypeInv, TypeOK
    <3>2. d[2] <= made[ThreadOf(d)]
      BY <2>1 DEF Published, Made
    <3>3. CASE ThreadOf(d) = t
      <4>1. made'[t] = made[t] + 1
        BY <1>1 DEF Register, TypeInv, TypeOK
      <4>2. d # <<t, made'[t]>>
        BY <3>1, <3>2, <3>3, <4>1
      <4> QED
        BY <3>1, <3>2, <3>3, <4>1, <4>2 DEF Published, Made, Current
    <3>4. CASE ThreadOf(d) # t
      <4>1. made'[ThreadOf(d)] = made[ThreadOf(d)] /\ pc'[ThreadOf(d)] = pc[ThreadOf(d)]
        BY <1>1, <3>1, <3>4 DEF Register, TypeInv, TypeOK
      <4> QED
        BY <2>1, <4>1 DEF Published, Made, Current
    <3> QED
      BY <3>3, <3>4
  <2> QED
    BY <1>1, <2>1, ExecInvQuiet DEF Register
<1>2. ASSUME NEW t \in Threads, Publish(t)
      PROVE  ExecInv'
  <2> PICK c : c = Current(t)
    OBVIOUS
  <2>1. c \in Calls /\ ~Published(c) /\ executed[c] = 0
    <3>1. c \in Calls /\ ThreadOf(c) = t
      BY <1>2, CurrentType DEF Publish
    <3>2. ~Published(c)
      BY <1>2, <3>1 DEF Publish, Published
    <3> QED
      BY <3>1, <3>2 DEF ExecInv
  <2>2. /\ requests' = Append(requests, c) /\ requests \in Seq(Calls)
        /\ UNCHANGED <<made, executed, crashes, server>>
    BY <1>2 DEF Publish, TypeInv, TypeOK
  <2>3. \A u \in Threads : pc'[u] = IF u = t THEN pc'[t] ELSE pc[u]
    BY <1>2 DEF Publish, Return, TypeInv, TypeOK
  <2>4. pc'[t] # "publish"
    BY <1>2 DEF Publish, Return, TypeInv, TypeOK
  <2>5. \A d \in Calls : Published(d) => Published(d)'
    BY <2>2, <2>3, <2>4, PublishedStays
  <2>6. Published(c)'
    <3>1. ThreadOf(c) = t /\ c[2] = made[t] /\ made[t] \in Nat
      BY <1>2, CurrentType DEF Publish, TypeInv, TypeOK
    <3> QED
      BY <2>2, <2>4, <3>1 DEF Published, Made
  <2>7. /\ DOMAIN requests = 1 .. Len(requests) /\ Len(requests) \in Nat
        /\ requests'[Len(requests) + 1] = c
        /\ \A j \in DOMAIN requests : requests'[j] = requests[j] /\ requests[j] \in Calls
        /\ \A j \in DOMAIN requests' : j \in DOMAIN requests \/ j = Len(requests) + 1
    BY <2>1, <2>2, AppendPositions
  <2>8. \A j \in DOMAIN requests : requests[j] # c
    BY <2>1 DEF ExecInv
  <2>9. server = "idle" => executed[Head(requests')] <= crashes[Head(requests')]
    <3>1. CASE requests = <<>>
      <4>1. Head(requests') = c
        BY <2>2, <3>1
      <4> QED
        BY <2>1, <4>1 DEF TypeInv, TypeOK
    <3>2. CASE requests # <<>>
      BY <2>1, <2>2, <3>2, FrontStays DEF ExecInv
    <3> QED
      BY <3>1, <3>2
  <2>10. \A j, k \in DOMAIN requests' : requests'[j] = requests'[k] => j = k
    BY <2>7, <2>8 DEF ExecInv
  <2>11. (\A j \in DOMAIN requests : Published(requests[j]))'
    <3>1. \A d \in Calls : (\E j \in DOMAIN requests' : requests'[j] = d) => Published(d)'
      BY <2>5, <2>6, <2>7 DEF ExecInv
    <3>2. \A j \in DOMAIN requests' : requests'[j] \in Calls
      BY <2>1, <2>7
    <3> QED
      BY <3>1, <3>2 DEF Published, Made, Current
  <2>12. \A j \in DOMAIN requests' : j > 1 => executed[requests'[j]] = 0
    BY <2>1, <2>7 DEF ExecInv
  <2>13. \A d \in Calls : ~Published(d)' => executed[d] = 0
    BY <2>5 DEF ExecInv
  <2> QED
    BY <2>2, <2>9, <2>10, <2>11, <2>12, <2>13 DEF ExecInv
<1>3. ASSUME NEW t \in Threads,
             PublishFails(t) \/ BeginWait(t) \/ Wake(t) \/ WakeEarly(t) \/ WaitTimesOut(t)
      PROVE  ExecInv'
  <2>1. UNCHANGED <<made, requests, executed, crashes, server>>
    BY <1>3 DEF PublishFails, BeginWait, Wake, WakeEarly, WaitTimesOut, EndWait, Waiting
  <2>2. \A u \in Threads : pc'[u] = "publish" => pc[u] = "publish"
    BY <1>3
    DEF PublishFails, BeginWait, Wake, WakeEarly, WaitTimesOut, EndWait, Return, TypeInv, TypeOK
  <2> QED
    BY <2>1, <2>2, PublishedStays, ExecInvQuiet
<1>4. CASE UNCHANGED <<pc, made, requests, executed, crashes, server>>
  BY <1>4, PublishedStays, ExecInvQuiet
<1>5. CASE Respond
  BY <1>5 DEF Respond, ExecInv, Published, Made, Current
<1>6. CASE Execute
  <2> PICK c : c = Head(requests)
    OBVIOUS
  <2>1. c = requests[1] /\ 1 \in DOMAIN requests /\ c \in Calls
        /\ DOMAIN requests \subseteq Nat \ {0}
    BY <1>6, FirstPosition DEF Execute, TypeInv, TypeOK
  <2>2. executed[c] <= crashes[c] /\ server' # "idle"
    BY <1>6 DEF Execute, ExecInv
  <2>3. /\ UNCHANGED <<pc, made, requests, crashes>>
        /\ executed' = executed \/ executed' = [executed EXCEPT ![c] = @ + 1]
    BY <1>6 DEF Execute
  <2>4. \A d \in Calls : d # c => executed'[d] = executed[d]
    BY <2>1, <2>3 DEF TypeInv, TypeOK
  <2>5. executed'[c] <= 1 + crashes[c]
    BY <2>1, <2>2, <2>3 DEF TypeInv, TypeOK
  <2>6. Published(c)
    BY <2>1 DEF ExecInv
  <2>7. \A d \in Calls : Published(d)' <=> Published(d)
    BY <2>3 DEF Published, Made, Current
  <2>8. \A j \in DOMAIN requests : j > 1 => requests[j] # c /\ requests[j] \in Calls
    BY <2>1 DEF ExecInv, TypeInv, TypeOK
  <2>9. (\A j \in DOMAIN requests : Published(requests[j]))'
    BY <2>3 DEF ExecInv, Published, Made, Current
  <2>10. \A d \in Calls : ~Published(d)' => executed'[d] = 0
    BY <2>4, <2>6, <2>7 DEF ExecInv
  <2>11. \A d \in Calls : executed'[d] <= 1 + crashes[d]
    BY <2>4, <2>5 DEF ExecInv
  <2>12. \A j \in DOMAIN requests : j > 1 => executed'[requests[j]] = 0
    BY <2>4, <2>8 DEF ExecInv
  <2> QED
    BY <2>2, <2>3, <2>9, <2>10, <2>11, <2>12 DEF ExecInv
<1>7. CASE Release
  <2>1. /\ requests # <<>> /\ requests \in Seq(Calls) /\ requests' = Tail(requests)
        /\ UNCHANGED <<pc, made, executed, crashes>>
    BY <1>7 DEF Release, TypeInv, TypeOK, ControlInv
  <2>2. /\ \A j \in DOMAIN requests' : j + 1 \in DOMAIN requests /\ requests'[j] = requests[j + 1]
        /\ DOMAIN requests' \subseteq Nat \ {0}
        /\ requests' # <<>> => 1 \in DOMAIN requests' /\ Head(requests') = requests'[1]
    BY <2>1, TailPositions
  <2>3. \A j \in DOMAIN requests' : executed[requests'[j]] = 0
    BY <2>2 DEF ExecInv
  <2>4. \A j, k \in DOMAIN requests' : requests'[j] = requests'[k] => j = k
    BY <2>2 DEF ExecInv
  <2>5. \A d \in Calls : Published(d)' <=> Published(d)
    BY <2>1 DEF Published, Made, Current
  <2>6. (\A j \in DOMAIN requests : Published(requests[j]))'
    <3>1. ASSUME NEW j \in DOMAIN requests', NEW d, d = requests'[j]
          PROVE  Published(d)
      <4>1. j + 1 \in DOMAIN requests /\ d = requests[j + 1]
        BY <2>2, <3>1
      <4> QED
        BY <4>1 DEF ExecInv
    <3> QED
      BY <2>5, <2>1, <3>1 DEF Published, Made, Current
  <2>7. requests' # <<>> => executed[Head(requests')] <= crashes[Head(requests')]
    <3>1. requests' # <<>> => Head(requests') \in Calls
      BY <2>2 DEF TypeInv, TypeOK
    <3> QED
      BY <2>2, <2>3, <3>1 DEF TypeInv, TypeOK
  <2> QED
    BY <2>1, <2>3, <2>4, <2>5, <2>6, <2>7 DEF ExecInv
<1>8. CASE ServerCrash
  <2> PICK c : c = Head(requests)
    OBVIOUS
  <2>1. c \in Calls /\ requests # <<>>
    BY <1>8, FrontType DEF ServerCrash, TypeInv, TypeOK, ControlInv
  <2>2. UNCHANGED <<pc, made, requests, executed>> /\ crashes' = [crashes EXCEPT ![c] = @ + 1]
    BY <1>8 DEF ServerCrash
  <2>3. \A d \in Calls : executed[d] \in Nat /\ crashes[d] \in Nat
                         /\ (Published(d)' <=> Published(d))
    BY <2>2 DEF TypeInv, TypeOK, Published, Made, Current
  <2>4. \A d \in Calls : crashes'[d] = IF d = c THEN crashes[c] + 1 ELSE crashes[d]
    BY <2>1, <2>2 DEF TypeInv, TypeOK
  <2>5. executed[c] <= crashes'[c]
    BY <2>1, <2>3, <2>4 DEF ExecInv
  <2>6. \A d \in Calls : executed[d] <= 1 + crashes'[d]
    BY <2>1, <2>3, <2>4 DEF ExecInv
  <2>7. \A j \in DOMAIN requests : requests[j] \in Calls
    BY DEF TypeInv, TypeOK
  <2> QED
    BY <2>2, <2>3, <2>5, <2>6, <2>7 DEF ExecInv
<1> QED
  BY <1>1, <1>2, <1>3, <1>4, <1>5, <1>6, <1>7, <1>8
  DEF Next, CallSteps, ReceiveSteps, ServerSteps, HandleResponse, DropResponse, Received,
      CallBack, RemovePending, Age, CheckTimeouts, vars

\* The server has run every request as often as it died over it, or once more.
LEMMA ExecInvHolds == Spec => [](TypeInv /\ ExecInv)
<1>1. Init => TypeInv /\ ExecInv
  BY TypeInvInit, ExecInvInit
<1>2. TypeInv /\ ExecInv /\ [Next]_vars => TypeInv' /\ ExecInv'
  BY TypeInvStep, ExecInvStep
<1> QED
  BY <1>1, <1>2, PTL DEF Spec

(* The method runs once for a request, and once more each time the server  *)
(* dies over that request: no lost, late or refused response and no death  *)
(* over another request makes the server repeat it (request_handler,       *)
(* recv_msg).                                                              *)
THEOREM OnlyDeathRepeats == Spec => []RepeatedOnlyAfterCrash
<1>1. ExecInv => RepeatedOnlyAfterCrash
  BY DEF ExecInv, RepeatedOnlyAfterCrash
<1> QED
  BY <1>1, ExecInvHolds, PTL

-----------------------------------------------------------------------------
\* A thread in a synchronous call has set up its context, and a context that has
\* been told something holds an answer or a reason.  A call that was made is in
\* progress or has returned.
InSyncCall(t) == pc[t] # "idle" /\ kind[Current(t)] = "sync"

FrameInv ==
  /\ \A t \in Threads :
       /\ pc[t] \in {"wait", "blocked"} => kind[Current(t)] = "sync"
       /\ InSyncCall(t) => frame[t].call = Current(t)
       /\ frame[t].done => frame[t].outcome.code # "ok" \/ frame[t].outcome.of # None
  /\ \A c \in Calls : Made(c) =>
       returned[c] # None \/ (c = Current(ThreadOf(c)) /\ pc[ThreadOf(c)] # "idle")

\* At first nothing is made or told.
LEMMA FrameInvInit == Init => FrameInv
<1> SUFFICES ASSUME Init
             PROVE  FrameInv
  OBVIOUS
<1>1. \A c \in Calls : ~Made(c)
  BY CallType DEF Init, Made
<1> QED
  BY <1>1 DEF Init, FrameInv, InSyncCall, DeadFrame

\* What a thread changes when it begins a call.
LEMMA RegisterEffect ==
  ASSUME TypeInv, NEW t \in Threads, Register(t), NEW c, c = <<t, made[t] + 1>>
  PROVE  /\ c \in Calls /\ ThreadOf(c) = t /\ ~Made(c) /\ CorrelationId(c) \in Ids
         /\ recv = "idle" /\ pc[t] = "idle" /\ UNCHANGED <<recv, responses, returned, kind>>
         /\ pc'[t] # "idle" /\ pc'[t] \notin {"wait", "blocked"}
         /\ Current(t)' = c
         /\ \A u \in Threads : u # t =>
              /\ pc'[u] = pc[u] /\ frame'[u] = frame[u] /\ Current(u)' = Current(u)
              /\ InSyncCall(u)' <=> InSyncCall(u)
         /\ InSyncCall(t)' <=> kind[c] = "sync"
         /\ kind[c] # "sync" => frame'[t] = frame[t]
         /\ kind[c] = "sync" =>
              frame'[t].call = c /\ ~frame'[t].done /\ frame'[t].outcome.of = None
         /\ \A i \in Ids, d \in Calls : EntryOf(i, d)' => EntryOf(i, d) \/ d = c
         /\ \A d \in Calls : Made(d)' => Made(d) \/ d = c
<1>1. c \in Calls /\ ThreadOf(c) = t /\ ~Made(c) /\ CorrelationId(c) \in Ids
      /\ c[2] = made[t] + 1
  BY NextCallType, IdTypes DEF Register
<1>2. /\ pc[t] = "idle" /\ recv = "idle"
      /\ pending' = [pending EXCEPT ![CorrelationId(c)] = Entry(c, kind[c])]
      /\ made' = [made EXCEPT ![t] = @ + 1]
      /\ frame' = IF kind[c] = "sync" THEN [frame EXCEPT ![t] = NewFrame(c)] ELSE frame
      /\ pc' = [pc EXCEPT ![t] = "publish"]
      /\ UNCHANGED <<kind, returned, recv, responses>>
  BY DEF Register, CtxUnlocked
<1>3. \A u \in Threads : u # t =>
        /\ pc'[u] = pc[u] /\ frame'[u] = frame[u] /\ Current(u)' = Current(u)
        /\ InSyncCall(u)' <=> InSyncCall(u)
  BY <1>2 DEF TypeInv, TypeOK, Current, InSyncCall
<1>4. pc'[t] = "publish" /\ Current(t)' = c /\ (InSyncCall(t)' <=> kind[c] = "sync")
  BY <1>2 DEF TypeInv, TypeOK, Current, InSyncCall
<1>5. kind[c] = "sync" =>
        frame'[t].call = c /\ ~frame'[t].done /\ frame'[t].outcome.of = None
  BY <1>2 DEF TypeInv, TypeOK, NewFrame, DeadFrame, Silent
<1>6. \A i \in Ids, d \in Calls : EntryOf(i, d)' => EntryOf(i, d) \/ d = c
  <2>1. pending'[CorrelationId(c)].call = c
    BY <1>1, <1>2 DEF TypeInv, TypeOK, Entry
  <2>2. \A i \in Ids : i # CorrelationId(c) => pending'[i] = pending[i]
    BY <1>2 DEF TypeInv, TypeOK
  <2> QED
    BY <2>1, <2>2 DEF EntryOf
<1>7. ASSUME NEW d \in Calls, Made(d)', ~Made(d)
      PROVE  d = c
  <2>1. PICK u \in Threads, k \in 1 .. MaxCalls : d = <<u, k>>
    BY DEF Calls
  <2>2. made'[u] >= k /\ ~(made[u] >= k)
    BY <1>7, <2>1 DEF Made, ThreadOf
  <2>3. made'[u] = IF u = t THEN made[u] + 1 ELSE made[u]
    BY <1>2 DEF TypeInv, TypeOK
  <2>4. made[u] \in Nat /\ k \in Nat
    BY CallAssumption DEF TypeInv, TypeOK
  <2> QED
    BY <2>1, <2>2, <2>3, <2>4
<1>8. kind[c] # "sync" => frame'[t] = frame[t]
  BY <1>2
<1> QED
  BY <1>1, <1>2, <1>3, <1>4, <1>5, <1>6, <1>7, <1>8

\* What it changes when it returns from one.
LEMMA ReturnEffect ==
  ASSUME TypeInv, NEW t \in Threads, pc[t] # "idle", NEW o, Return(t, o),
         UNCHANGED <<made, kind>>
  PROVE  /\ Current(t) \in Calls /\ ThreadOf(Current(t)) = t
         /\ Current(t)[2] = made[t]
         /\ returned'[Current(t)] = o
         /\ \A d \in Calls : d # Current(t) => returned'[d] = returned[d]
         /\ pc'[t] = "idle"
         /\ \A u \in Threads : u # t => pc'[u] = pc[u] /\ frame'[u] = frame[u]
         /\ frame'[t].done = frame[t].done /\ frame'[t].outcome = frame[t].outcome
         /\ \A u \in Threads : /\ Current(u)' = Current(u)
                               /\ InSyncCall(u)' <=> InSyncCall(u) /\ u # t
<1>1. Current(t) \in Calls /\ ThreadOf(Current(t)) = t /\ Current(t)[2] = made[t]
  BY CurrentType
<1>2. /\ pc' = [pc EXCEPT ![t] = "idle"]
      /\ returned' = [returned EXCEPT ![Current(t)] = o]
      /\ frame' = [frame EXCEPT ![t].call = None] \/ frame' = frame
  BY DEF Return
<1>3. \A u \in Threads : u # t => pc'[u] = pc[u] /\ frame'[u] = frame[u]
  BY <1>2 DEF TypeInv, TypeOK
<1>4. frame'[t].done = frame[t].done /\ frame'[t].outcome = frame[t].outcome
  <2> DEFINE f == frame[t]
  <2>1. f \in Frames /\ (frame'[t] = [f EXCEPT !.call = None] \/ frame'[t] = f)
    BY <1>2 DEF TypeInv, TypeOK
  <2> HIDE DEF f
  <2>2. [f EXCEPT !.call = None].done = f.done
        /\ [f EXCEPT !.call = None].outcome = f.outcome
    BY <2>1 DEF Frames
  <2> QED
    BY <2>1, <2>2 DEF f
<1>5. pc'[t] = "idle"
  BY <1>2 DEF TypeInv, TypeOK
<1>6. \A u \in Threads : /\ Current(u)' = Current(u)
                         /\ InSyncCall(u)' <=> InSyncCall(u) /\ u # t
  BY <1>3, <1>5 DEF Current, InSyncCall
<1>7. /\ returned'[Current(t)] = o
      /\ \A d \in Calls : d # Current(t) => returned'[d] = returned[d]
  BY <1>1, <1>2 DEF TypeInv, TypeOK
<1> QED
  BY <1>1, <1>3, <1>4, <1>5, <1>6, <1>7

\* A thread in a call goes on to its wait ...
GoesOn(t) ==
  /\ kind[Current(t)] = "sync"
  /\ pc' = [pc EXCEPT ![t] = "wait"] \/ pc' = [pc EXCEPT ![t] = "blocked"]
  /\ UNCHANGED <<returned, frame>>

\* ... or returns with what its context was told, if anything.
Outcome(t, o) ==
  /\ o.of = None \/ (InSyncCall(t) /\ o.of = frame[t].outcome.of)
  /\ kind[Current(t)] = "sync" /\ o = Silent => ~frame[t].done

LEMMA ThreadStep ==
  ASSUME TypeInv, FrameInv, NEW t \in Threads,
         Publish(t) \/ PublishFails(t) \/ BeginWait(t) \/ Wake(t) \/ WakeEarly(t)
           \/ WaitTimesOut(t)
  PROVE  /\ pc[t] # "idle" /\ UNCHANGED <<made, kind, pending, responses, recv>>
         /\ GoesOn(t) \/ \E o \in Outcomes : Return(t, o) /\ Outcome(t, o)
<1>1. pc[t] # "idle" /\ UNCHANGED <<made, kind, pending, responses, recv>>
  BY DEF Publish, PublishFails, BeginWait, Wake, WakeEarly, WaitTimesOut, EndWait, Waiting
<1> DEFINE f == frame[t]
           q == [f.outcome EXCEPT !.code = "timeout"]
<1>2. /\ Silent \in Outcomes /\ Silent.of = None /\ Silent.code = "ok"
      /\ Failed \in Outcomes /\ Failed.of = None /\ Failed.code # "ok"
  BY DEF Silent, Failed, Outcomes
<1>3. f.outcome \in Outcomes
  BY DEF TypeInv, TypeOK, Frames
<1>4. q \in Outcomes /\ q.of = f.outcome.of /\ q.code = "timeout"
  <2> DEFINE o == f.outcome
  <2> HIDE DEF o
  <2>1. o \in Outcomes
    BY <1>3 DEF o
  <2>2. LET r == [o EXCEPT !.code = "timeout"]
        IN  r \in Outcomes /\ r.of = o.of /\ r.code = "timeout"
    BY <2>1 DEF Outcomes
  <2> QED
    BY <2>2 DEF o
<1>5. f.outcome = Silent => ~f.done
  BY <1>2 DEF FrameInv
<1>6. pc[t] \in {"wait", "blocked"} => InSyncCall(t) /\ kind[Current(t)] = "sync"
  BY DEF FrameInv, InSyncCall
<1> HIDE DEF q
<1>7. CASE Publish(t)
  <2>1. CASE kind[Current(t)] = "sync"
    BY <1>1, <1>7, <2>1 DEF Publish, GoesOn
  <2>2. CASE kind[Current(t)] # "sync"
    <3>1. Return(t, Silent)
      BY <1>7, <2>2 DEF Publish
    <3>2. Outcome(t, Silent)
      BY <1>2, <2>2 DEF Outcome
    <3> QED
      BY <1>1, <1>2, <3>1, <3>2
  <2> QED
    BY <2>1, <2>2
<1>8. CASE PublishFails(t)
  <2>1. Return(t, Failed) /\ Outcome(t, Failed)
    BY <1>2, <1>8 DEF PublishFails, Outcome
  <2> QED
    BY <1>1, <1>2, <2>1
<1>9. CASE Return(t, f.outcome) /\ pc[t] \in {"wait", "blocked"}
  <2>1. Outcome(t, f.outcome)
    BY <1>5, <1>6, <1>9 DEF Outcome
  <2> QED
    BY <1>1, <1>3, <1>9, <2>1
<1>10. CASE WaitTimesOut(t)
  <2>1. Return(t, q) /\ pc[t] = "blocked"
    BY <1>10 DEF WaitTimesOut, q
  <2>2. Outcome(t, q)
    BY <1>2, <1>4, <1>6, <2>1 DEF Outcome
  <2> QED
    BY <1>1, <1>4, <2>1, <2>2
<1>11. CASE BeginWait(t) /\ ~f.done
  BY <1>1, <1>6, <1>11 DEF BeginWait, GoesOn
<1> QED
  BY <1>7, <1>8, <1>9, <1>10, <1>11 DEF BeginWait, Wake, WakeEarly, EndWait

\* What goes on leaves everything but the thread's place.
LEMMA GoesOnEffect ==
  ASSUME TypeInv, NEW t \in Threads, GoesOn(t), pc[t] # "idle", UNCHANGED <<made, kind>>
  PROVE  /\ UNCHANGED <<returned, frame>> /\ kind[Current(t)] = "sync"
         /\ \A u \in Threads : /\ Current(u)' = Current(u)
                               /\ InSyncCall(u)' <=> InSyncCall(u)
                               /\ pc'[u] # "idle" <=> pc[u] # "idle"
                               /\ pc'[u] = pc[u] \/ u = t
<1>1. \A u \in Threads : /\ pc'[u] = pc[u] \/ u = t
                         /\ pc'[u] # "idle" <=> pc[u] # "idle"
  BY DEF GoesOn, TypeInv, TypeOK
<1> QED
  BY <1>1 DEF GoesOn, Current, InSyncCall

\* The callbacks of the entries S write to the contexts of their threads.
LEMMA CallbackEffect ==
  ASSUME TypeInv, NEW S \in SUBSET Ids, NEW o \in Outcomes, RunCallbacks(S, o),
         \A i \in S : pending[i] # None, NEW u \in Threads
  PROVE  \/ frame'[u] = frame[u]
         \/ /\ \E i \in S, c \in Calls : EntryOf(i, c) /\ ThreadOf(c) = u
            /\ frame'[u].call = frame[u].call
            /\ frame'[u].outcome.code = o.code
            /\ frame'[u].outcome.of = IF o.of = None THEN frame[u].outcome.of ELSE o.of
<1>1. CASE \E i \in S : pending[i].kind = "sync" /\ ThreadOf(pending[i].call) = u
  <2> DEFINE f == frame[u]
             w == (pc[u] = "blocked")
             q == [code |-> o.code, of |-> IF o.of = None THEN f.outcome.of ELSE o.of]
  <2>1. f \in Frames
    BY DEF TypeInv, TypeOK
  <2>2. frame'[u] = [f EXCEPT !.done = TRUE, !.woken = w, !.outcome = q]
    BY <1>1, <2>1 DEF RunCallbacks, Stored, Frames
  <2>3. q.code = o.code /\ q.of = IF o.of = None THEN f.outcome.of ELSE o.of
    OBVIOUS
  <2> HIDE DEF f, w, q
  <2>4. frame'[u].call = f.call /\ frame'[u].outcome = q
    BY <2>1, <2>2 DEF Frames
  <2>5. \E i \in S, c \in Calls : EntryOf(i, c) /\ ThreadOf(c) = u
    BY <1>1 DEF EntryOf, TypeInv, TypeOK, Entries
  <2> QED
    BY <2>3, <2>4, <2>5 DEF f
<1>2. CASE ~\E i \in S : pending[i].kind = "sync" /\ ThreadOf(pending[i].call) = u
  BY <1>2 DEF RunCallbacks
<1> QED
  BY <1>1, <1>2

\* These steps bring no entry, and a callback stays done until its entry goes.
LEMMA EntriesGo ==
  ASSUME TypeInv,
         \/ HandleResponse \/ DropResponse \/ RemovePending \/ Respond
         \/ \E i \in Ids : Age(i)
         \/ UNCHANGED <<pending, recv, responses>>
  PROVE  \A i \in Ids, c \in Calls : EntryOf(i, c)' =>
           EntryOf(i, c) /\ (CallbackDone(i) => CallbackDone(i)')
<1> USE DEF callers, shared, remote, EntryOf, CallbackDone
<1>1. CASE HandleResponse \/ DropResponse \/ UNCHANGED <<pending, recv, responses>>
  BY <1>1 DEF HandleResponse, DropResponse, Received
<1>2. CASE RemovePending
  <2> PICK h : h = Head(responses).id
    OBVIOUS
  <2>1. h \in Ids /\ pending' = [pending EXCEPT ![h] = None]
    BY <1>2 DEF RemovePending, TypeInv, ControlInv, Awaited
  <2>2. \A i \in Ids : IF i = h THEN pending'[i] = None ELSE pending'[i] = pending[i]
    BY <2>1 DEF TypeInv, TypeOK
  <2> QED
    BY <2>2
<1>3. CASE Respond
  <2>1. UNCHANGED <<pending, recv>>
    BY <1>3 DEF Respond
  <2>2. recv # "idle" => Head(responses') = Head(responses)
    BY <1>3, RespondKeepsFront
  <2> QED
    BY <2>1, <2>2
<1>4. ASSUME NEW i \in Ids, Age(i)
      PROVE  \A j \in Ids, c \in Calls : EntryOf(j, c)' => EntryOf(j, c)
  <2>1. pending' = [pending EXCEPT ![i].old = TRUE] /\ pending[i] # None
    BY <1>4 DEF Age
  <2>2. \A j \in Ids : j # i => pending'[j] = pending[j]
    BY <2>1 DEF TypeInv, TypeOK
  <2>3. pending'[i].call = pending[i].call
    <3> DEFINE e == pending[i]
    <3>1. e \in Entries /\ pending'[i] = [e EXCEPT !.old = TRUE]
      BY <2>1 DEF TypeInv, TypeOK
    <3> HIDE DEF e
    <3>2. [e EXCEPT !.old = TRUE].call = e.call
      BY <3>1 DEF Entries
    <3> QED
      BY <3>1, <3>2 DEF e
  <2> QED
    BY <2>1, <2>2, <2>3
<1> QED
  BY <1>1, <1>2, <1>3, <1>4 DEF Age

\* A step of a thread in a call, a step that runs callbacks, and the others.
InCall(t) ==
  /\ pc[t] # "idle"
  /\ UNCHANGED <<made, kind, pending, responses, recv>>
  /\ GoesOn(t) \/ \E o \in Outcomes : Return(t, o) /\ Outcome(t, o)

RunsCallbacks(S, o) ==
  /\ RunCallbacks(S, o)
  /\ UNCHANGED <<pc, made, kind, returned, responses>>
  /\ \A i \in Ids : ~CallbackDone(i)
  /\ \A i \in S : pending[i] # None
  /\ \A i \in S : pending'[i] = None \/ CallbackDone(i)'
  /\ \A i \in Ids, c \in Calls : EntryOf(i, c)' => EntryOf(i, c)
  /\ \/ o.code # "ok" /\ o.of = None
     \/ CallBack /\ S = {Head(responses).id} /\ o.of = Head(responses).of

Quiet ==
  /\ UNCHANGED <<pc, made, kind, returned, frame>>
  /\ \A i \in Ids, c \in Calls : EntryOf(i, c)' =>
       EntryOf(i, c) /\ (CallbackDone(i) => CallbackDone(i)')

LEMMA StepKinds ==
  ASSUME TypeInv, FrameInv, [Next]_vars
  PROVE  \/ \E t \in Threads : Register(t) \/ InCall(t)
         \/ \E S \in SUBSET Ids, o \in Outcomes : RunsCallbacks(S, o)
         \/ Quiet
<1> USE DEF callers, shared, remote
<1>1. ASSUME NEW t \in Threads,
             Publish(t) \/ PublishFails(t) \/ BeginWait(t) \/ Wake(t) \/ WakeEarly(t)
               \/ WaitTimesOut(t)
      PROVE  InCall(t)
  BY <1>1, ThreadStep DEF InCall
<1>2. CASE CallBack
  <2> PICK h, o : h = Head(responses).id /\ o = Answer(Head(responses).of)
    OBVIOUS
  <2>1. h \in Ids /\ pending[h] # None /\ o \in Outcomes
    BY <1>2, CallBackType
  <2>2. /\ RunCallbacks({h}, o) /\ {h} \in SUBSET Ids
        /\ UNCHANGED <<pc, made, kind, returned, responses, pending>>
    BY <1>2, <2>1 DEF CallBack
  <2>3. /\ \A i \in Ids : ~CallbackDone(i)
        /\ CallbackDone(h)' /\ o.of = Head(responses).of
        /\ \A i \in Ids, c \in Calls : EntryOf(i, c)' => EntryOf(i, c)
    BY <1>2, <2>2 DEF CallBack, CallbackDone, Answer, EntryOf
  <2>4. RunsCallbacks({h}, o)
    BY <1>2, <2>1, <2>2, <2>3 DEF RunsCallbacks
  <2> QED
    BY <2>1, <2>2, <2>4
<1>3. CASE CheckTimeouts
  <2>1. /\ Expired \in SUBSET Ids /\ TimedOut \in Outcomes
        /\ \A i \in Expired : pending[i] # None
        /\ TimedOut.code # "ok" /\ TimedOut.of = None
    BY DEF Expired, TimedOut, Outcomes
  <2>2. /\ RunCallbacks(Expired, TimedOut)
        /\ UNCHANGED <<pc, made, kind, returned, responses>>
        /\ \A i \in Ids : ~CallbackDone(i)
    BY <1>3 DEF CheckTimeouts, CtxUnlocked, CallbackDone
  <2>3. \A i \in Ids : pending'[i] = IF i \in Expired THEN None ELSE pending[i]
    BY <1>3 DEF CheckTimeouts
  <2>4. /\ \A i \in Expired : pending'[i] = None
        /\ \A i \in Ids, c \in Calls : EntryOf(i, c)' => EntryOf(i, c)
    BY <2>1, <2>3 DEF EntryOf
  <2>5. RunsCallbacks(Expired, TimedOut)
    BY <2>1, <2>2, <2>4 DEF RunsCallbacks
  <2> QED
    BY <2>1, <2>5
<1>4. ASSUME UNCHANGED <<callers, frame>>,
             \/ HandleResponse \/ DropResponse \/ RemovePending \/ Respond
             \/ \E i \in Ids : Age(i)
             \/ UNCHANGED <<pending, recv, responses>>
      PROVE  Quiet
  BY <1>4, EntriesGo DEF Quiet
<1> QED
  BY <1>1, <1>2, <1>3, <1>4
  DEF Next, CallSteps, ReceiveSteps, ServerSteps, HandleResponse, DropResponse, Received,
      RemovePending, Respond, Age, Execute, Release, ServerCrash, vars

\* Calls that were made have been.
LEMMA MadeStays ==
  ASSUME TypeInv, FrameInv, [Next]_vars, NEW d \in Calls, Made(d)
  PROVE  Made(d)'
<1>1. ASSUME NEW t \in Threads, Register(t)
      PROVE  Made(d)'
  <2>1. made' = [made EXCEPT ![t] = @ + 1]
    BY <1>1 DEF Register
  <2> QED
    BY <2>1, CallType DEF TypeInv, TypeOK, Made
<1>2. CASE made' = made
  BY <1>2 DEF Made
<1> QED
  BY <1>1, <1>2, StepKinds DEF InCall, RunsCallbacks, Quiet

\* A step of a thread or a callback fits its context.
LEMMA FrameInvStep ==
  ASSUME TypeInv, FrameInv, [Next]_vars
  PROVE  FrameInv'
<1>1. ASSUME NEW t \in Threads, Register(t)
      PROVE  FrameInv'
  <2> PICK c : c = <<t, made[t] + 1>>
    OBVIOUS
  <2> USE <1>1, RegisterEffect
  <2>1. ASSUME NEW u \in Threads
        PROVE  /\ pc'[u] \in {"wait", "blocked"} => kind'[Current(u)'] = "sync"
               /\ InSyncCall(u)' => frame'[u].call = Current(u)'
               /\ frame'[u].done => frame'[u].outcome.code # "ok"
                                    \/ frame'[u].outcome.of # None
    <3>1. CASE u = t /\ kind[c] = "sync"
      BY <3>1
    <3>2. CASE u = t /\ kind[c] # "sync"
      BY <3>2 DEF FrameInv
    <3>3. CASE u # t
      BY <3>3 DEF FrameInv
    <3> QED
      BY <3>1, <3>2, <3>3
  <2>2. ASSUME NEW d \in Calls, Made(d)'
        PROVE  returned'[d] # None \/ (d = Current(ThreadOf(d))' /\ pc'[ThreadOf(d)] # "idle")
    <3>1. CASE d = c
      BY <3>1
    <3>2. CASE d # c
      <4>1. Made(d) /\ ThreadOf(d) \in Threads
        BY <2>2, <3>2, CallType
      <4> QED
        BY <4>1 DEF FrameInv
    <3> QED
      BY <3>1, <3>2
  <2> QED
    BY ONLY <2>1, <2>2 DEF FrameInv
<1>2. ASSUME NEW t \in Threads, InCall(t), GoesOn(t)
      PROVE  FrameInv'
  <2>1. UNCHANGED <<made, kind>> /\ pc[t] # "idle"
    BY <1>2 DEF InCall
  <2> USE <1>2, <2>1, GoesOnEffect
  <2>2. ASSUME NEW u \in Threads
        PROVE  /\ pc'[u] \in {"wait", "blocked"} => kind'[Current(u)'] = "sync"
               /\ InSyncCall(u)' => frame'[u].call = Current(u)'
               /\ frame'[u].done => frame'[u].outcome.code # "ok"
                                    \/ frame'[u].outcome.of # None
    BY DEF FrameInv
  <2>3. ASSUME NEW d \in Calls, Made(d)'
        PROVE  returned'[d] # None \/ (d = Current(ThreadOf(d))' /\ pc'[ThreadOf(d)] # "idle")
    <3>1. Made(d) /\ ThreadOf(d) \in Threads
      BY <2>3, CallType DEF Made
    <3> QED
      BY <3>1 DEF FrameInv
  <2> QED
    BY ONLY <2>2, <2>3 DEF FrameInv
<1>3. ASSUME NEW t \in Threads, InCall(t), NEW o \in Outcomes, Return(t, o), Outcome(t, o)
      PROVE  FrameInv'
  <2>1. UNCHANGED <<made, kind>> /\ pc[t] # "idle" /\ o # None
    BY <1>3, NoneAssumption DEF InCall
  <2> USE <1>3, <2>1, ReturnEffect
  <2>2. ASSUME NEW u \in Threads
        PROVE  /\ pc'[u] \in {"wait", "blocked"} => kind'[Current(u)'] = "sync"
               /\ InSyncCall(u)' => frame'[u].call = Current(u)'
               /\ frame'[u].done => frame'[u].outcome.code # "ok"
                                    \/ frame'[u].outcome.of # None
    <3>1. CASE u = t
      BY <3>1 DEF FrameInv
    <3>2. CASE u # t
      BY <3>2 DEF FrameInv
    <3> QED
      BY <3>1, <3>2
  <2>3. ASSUME NEW d \in Calls, Made(d)'
        PROVE  returned'[d] # None \/ (d = Current(ThreadOf(d))' /\ pc'[ThreadOf(d)] # "idle")
    <3>1. Made(d) /\ ThreadOf(d) \in Threads
      BY <2>3, CallType DEF Made
    <3>2. CASE d = Current(t)
      BY <3>2
    <3>3. CASE d # Current(t)
      BY <3>1, <3>3 DEF FrameInv
    <3> QED
      BY <3>2, <3>3
  <2> QED
    BY ONLY <2>2, <2>3 DEF FrameInv
<1>4. ASSUME NEW S \in SUBSET Ids, NEW o \in Outcomes, RunsCallbacks(S, o)
      PROVE  FrameInv'
  <2>1. /\ RunCallbacks(S, o) /\ UNCHANGED <<pc, made, kind, returned, responses>>
        /\ \A i \in S : pending[i] # None
    BY <1>4 DEF RunsCallbacks
  <2>2. o.code # "ok" \/ o.of # None
    BY <1>4, CallBackType DEF RunsCallbacks, Answer
  <2>3. ASSUME NEW u \in Threads
        PROVE  /\ frame'[u].call = frame[u].call
               /\ frame'[u].done => frame'[u].outcome.code # "ok"
                                    \/ frame'[u].outcome.of # None
    BY <2>1, <2>2, CallbackEffect DEF FrameInv
  <2> QED
    BY <2>1, <2>3 DEF FrameInv, InSyncCall, Current, Made
<1>5. CASE Quiet
  BY <1>5 DEF Quiet, FrameInv, InSyncCall, Current, Made
<1> QED
  BY <1>1, <1>2, <1>3, <1>4, <1>5, StepKinds DEF InCall

\* Every context has the call of its thread in every reachable state.
LEMMA FrameInvHolds == Spec => [](TypeInv /\ FrameInv)
<1>1. Init => TypeInv /\ FrameInv
  BY TypeInvInit, FrameInvInit
<1>2. TypeInv /\ FrameInv /\ [Next]_vars => TypeInv' /\ FrameInv'
  BY TypeInvStep, FrameInvStep
<1> QED
  BY <1>1, <1>2, PTL DEF Spec

(* A synchronous call brings neither an answer nor a reason only when it   *)
(* had been told nothing, whatever came before, between or after its steps *)
(* and however its wait ended (rpc_call_method_sync, rpc_sync_callback).   *)
THEOREM SilenceIsHonest == Spec => SilentOnlyUntold
<1>1. ASSUME TypeInv, FrameInv, [Next]_vars, NEW c \in Calls, kind[c] = "sync",
             returned[c] # returned'[c], returned'[c] = Silent
      PROVE  ~frame[ThreadOf(c)].done
  <2>1. PICK t \in Threads, o \in Outcomes : InCall(t) /\ Return(t, o) /\ Outcome(t, o)
    BY <1>1, StepKinds DEF InCall, GoesOn, RunsCallbacks, Quiet, Register
  <2>2. pc[t] # "idle" /\ UNCHANGED <<made, kind>>
    BY <2>1 DEF InCall
  <2>3. c = Current(t) /\ ThreadOf(c) = t /\ o = Silent
    BY <1>1, <2>1, <2>2, ReturnEffect
  <2> QED
    BY <1>1, <2>1, <2>3 DEF Outcome
<1>2. TypeInv /\ FrameInv /\ [Next]_vars
        => [\A c \in Calls : kind[c] = "sync" /\ returned[c] # returned'[c]
              /\ returned'[c] = Silent => ~frame[ThreadOf(c)].done]_vars
  BY <1>1
<1> QED
  BY <1>2, FrameInvHolds, PTL DEF Spec, SilentOnlyUntold

-----------------------------------------------------------------------------
\* A response has the id of its call, or none, and the call was made.
RespInv ==
  \A m \in Messages : (\E j \in DOMAIN responses : responses[j] = m) =>
    m.id \in {None, CorrelationId(m.of)} /\ Made(m.of)

LEMMA RespInvInit == Init => RespInv
  BY DEF Init, RespInv

\* A request that is answered was published.
LEMMA RespInvStep ==
  ASSUME TypeInv, ExecInv, FrameInv, RespInv, [Next]_vars
  PROVE  RespInv'
<1> USE DEF callers, shared, remote
<1>1. \A m \in Messages : Made(m.of) => Made(m.of)'
  <2>1. \A m \in Messages : m.of \in Calls
    BY DEF Messages
  <2> QED
    BY <2>1, MadeStays
<1>2. CASE DropResponse \/ RemovePending
  <2>1. responses' = Tail(responses) /\ responses \in Seq(Messages) /\ responses # <<>>
    BY <1>2 DEF DropResponse, RemovePending, TypeInv, TypeOK, ControlInv
  <2>2. \A j \in DOMAIN responses' : j + 1 \in DOMAIN responses
                                     /\ responses'[j] = responses[j + 1]
    BY <2>1, TailPositions
  <2> QED
    BY <1>1, <2>2 DEF RespInv
<1>3. CASE Respond
  <2> PICK c : c = Head(requests)
    OBVIOUS
  <2>1. c \in Calls /\ requests # <<>> /\ requests \in Seq(Calls)
    BY <1>3, FrontType DEF Respond, TypeInv, TypeOK, ControlInv
  <2> PICK m : m = [id |-> IF c \in Malformed THEN None ELSE CorrelationId(c), of |-> c]
    OBVIOUS
  <2>2. m \in Messages /\ m.id \in {None, CorrelationId(m.of)} /\ m.of = c
    BY <2>1, IdTypes DEF Messages
  <2>3. Made(c)
    BY <2>1, FirstPosition DEF ExecInv, Published
  <2>4. responses' = Append(responses, m) \/ responses' = responses
    BY <1>3 DEF Respond
  <2>5. responses \in Seq(Messages)
    BY DEF TypeInv, TypeOK
  <2>6. \A j \in DOMAIN responses' :
          (j \in DOMAIN responses /\ responses'[j] = responses[j]) \/ responses'[j] = m
    BY <2>2, <2>4, <2>5, AppendPositions
  <2> QED
    BY <1>1, <2>2, <2>3, <2>6 DEF RespInv
<1>4. CASE UNCHANGED responses
  BY <1>1, <1>4 DEF RespInv
<1> QED
  BY <1>2, <1>3, <1>4
  DEF Next, CallSteps, ReceiveSteps, ServerSteps, Register, Publish, PublishFails, BeginWait,
      Wake, WakeEarly, WaitTimesOut, EndWait, Waiting, HandleResponse, Received, CallBack, Age,
      CheckTimeouts, Execute, Release, ServerCrash, vars

\* The response that was found: its id is its call's, and the call was made.
LEMMA FoundResponse ==
  ASSUME TypeInv, RespInv, CallBack, NEW m, m = Head(responses)
  PROVE  m.of \in Calls /\ m.id = CorrelationId(m.of) /\ m.id \in Ids /\ Made(m.of)
<1>1. m \in Messages /\ Awaited(m) /\ responses \in Seq(Messages) /\ responses # <<>>
  BY FrontType DEF CallBack, TypeInv, TypeOK, ControlInv
<1>2. \E j \in DOMAIN responses : responses[j] = m
  BY <1>1, FirstPosition
<1> QED
  BY <1>1, <1>2, IdTypes DEF RespInv, Awaited, Messages

\* An answer that a context or a caller was told is that of a call whose entry
\* is gone, or goes when the callback that tells it is over.
Told(d) ==
  \/ \E t \in Threads : frame[t].outcome.of = d
  \/ \E c \in Calls : returned[c] # None /\ returned[c].of = d

ToldInv ==
  \A d \in Calls : Told(d) => Made(d) /\ \A i \in Ids : EntryOf(i, d) => CallbackDone(i)

LEMMA ToldInvInit == Init => ToldInv
  BY CallAssumption DEF Init, ToldInv, EntryOf, Told, DeadFrame, Silent

\* Nothing is told again: a callback tells the answer whose entry it has found.
LEMMA ToldInvStep ==
  ASSUME TypeInv, CallInv, FrameInv, RespInv, ToldInv, [Next]_vars
  PROVE  ToldInv'
<1> SUFFICES ASSUME NEW d \in Calls, Told(d)'
             PROVE  Made(d)' /\ \A i \in Ids : EntryOf(i, d)' => CallbackDone(i)'
  BY DEF ToldInv
<1>1. Made(d) => Made(d)'
  BY MadeStays
<1>2. ASSUME NEW t \in Threads, Register(t)
      PROVE  Made(d)' /\ \A i \in Ids : EntryOf(i, d)' => CallbackDone(i)'
  <2> PICK c : c = <<t, made[t] + 1>>
    OBVIOUS
  <2> USE <1>2, RegisterEffect
  <2>1. \A u \in Threads : frame'[u] = frame[u] \/ frame'[u].outcome.of = None
    BY DEF FrameInv
  <2>2. d # None
    BY CallAssumption
  <2>3. Told(d)
    BY <2>1, <2>2 DEF Told
  <2>4. Made(d) /\ d # c
    BY <2>3 DEF ToldInv
  <2>5. \A i \in Ids : ~EntryOf(i, d)
    BY <2>3 DEF ToldInv, CallbackDone
  <2> QED
    BY <1>1, <2>4, <2>5
<1>3. ASSUME NEW t \in Threads, InCall(t)
      PROVE  Made(d)' /\ \A i \in Ids : EntryOf(i, d)' => CallbackDone(i)'
  <2>1. UNCHANGED <<made, kind, pending, responses, recv>> /\ pc[t] # "idle"
    BY <1>3 DEF InCall
  <2>2. CASE GoesOn(t)
    BY <2>1, <2>2, GoesOnEffect DEF ToldInv, Told, Made, EntryOf, CallbackDone
  <2>3. ASSUME NEW o \in Outcomes, Return(t, o), Outcome(t, o)
        PROVE  Told(d)
    <3>1. \A u \in Threads : frame'[u].outcome = frame[u].outcome
      BY <2>1, <2>3, ReturnEffect
    <3>2. \A e \in Calls : returned'[e] = returned[e] \/ returned'[e] = o
      BY <2>1, <2>3, ReturnEffect
    <3>3. o.of = d => frame[t].outcome.of = d
      BY <2>3, CallAssumption DEF Outcome
    <3> QED
      BY <3>1, <3>2, <3>3 DEF Told
  <2> QED
    BY <1>1, <1>3, <2>1, <2>2, <2>3 DEF InCall, ToldInv, EntryOf, CallbackDone
<1>4. ASSUME NEW S \in SUBSET Ids, NEW o \in Outcomes, RunsCallbacks(S, o)
      PROVE  Made(d)' /\ \A i \in Ids : EntryOf(i, d)' => CallbackDone(i)'
  <2>1. /\ RunCallbacks(S, o) /\ UNCHANGED <<pc, made, kind, returned, responses>>
        /\ \A i \in S : pending[i] # None
        /\ \A i \in Ids : ~CallbackDone(i)
        /\ \A i \in Ids : EntryOf(i, d)' => EntryOf(i, d)
    BY <1>4 DEF RunsCallbacks
  <2>2. CASE Told(d)
    <3>1. Made(d) /\ \A i \in Ids : ~EntryOf(i, d)
      BY <2>1, <2>2 DEF ToldInv
    <3>2. \A i \in Ids : EntryOf(i, d)' => EntryOf(i, d)
      BY <2>1
    <3> QED
      BY ONLY <1>1, <3>1, <3>2
  <2>3. CASE ~Told(d)
    <3>1. PICK u \in Threads : frame'[u].outcome.of = d
      BY <2>1, <2>3 DEF Told
    <3>2. frame[u].outcome.of # d
      BY <2>3 DEF Told
    <3>3. o.of = d /\ d # None
      BY <2>1, <3>1, <3>2, CallbackEffect, CallAssumption
    <3> PICK m : m = Head(responses)
      OBVIOUS
    <3>4. CallBack /\ S = {m.id} /\ m.of = d
      BY <1>4, <3>3 DEF RunsCallbacks
    <3>5. m.id = CorrelationId(d) /\ m.id \in Ids /\ Made(d)
      BY <3>4, FoundResponse
    <3>6. CallbackDone(m.id)'
      BY <3>4, <2>1 DEF CallBack, CallbackDone
    <3>7. \A i \in Ids : EntryOf(i, d) => i = m.id
      BY <3>5 DEF CallInv
    <3>8. \A i \in Ids : EntryOf(i, d)' => EntryOf(i, d)
      BY <2>1
    <3> QED
      BY ONLY <1>1, <3>5, <3>6, <3>7, <3>8
  <2> QED
    BY <2>2, <2>3
<1>5. CASE Quiet
  <2>1. Told(d)
    BY <1>5 DEF Quiet, Told
  <2> QED
    BY <1>1, <1>5, <2>1 DEF Quiet, ToldInv
<1> QED
  BY <1>2, <1>3, <1>4, <1>5, StepKinds

\* Six invariants that hold together ...
ClientInv == TypeInv /\ CallInv /\ ExecInv /\ FrameInv /\ RespInv /\ ToldInv

LEMMA ClientInvInit == Init => ClientInv
  BY TypeInvInit, CallInvInit, ExecInvInit, FrameInvInit, RespInvInit, ToldInvInit DEF ClientInv

LEMMA ClientInvStep ==
  ASSUME ClientInv, [Next]_vars
  PROVE  ClientInv'
  BY TypeInvStep, CallInvStep, ExecInvStep, FrameInvStep, RespInvStep, ToldInvStep DEF ClientInv

LEMMA ClientInvHolds == Spec => []ClientInv
  BY ClientInvInit, ClientInvStep, PTL DEF Spec

(* A callback is run on a context that is gone only when its call has come *)
(* back without its answer: early, at its deadline or because its request  *)
(* was not sent.  No other order of answers, deaths, timeouts and calls,   *)
(* and no id that is used twice, leaves such an entry in the table         *)
(* (rpc_call_method_sync, rpc_sync_callback).                              *)
THEOREM OnlyUntoldOutlive == Spec => []ContextAlive
<1>1. ClientInv => ContextAlive
  <2> SUFFICES ASSUME ClientInv, NEW i \in Ids, pending[i] # None,
                      pending[i].kind = "sync", ~CallbackDone(i), NEW c, c = pending[i].call
               PROVE  frame[ThreadOf(c)].call = c
                      \/ (returned[c] # None /\ returned[c].of # c)
    BY DEF ContextAlive
  <2> USE DEF ClientInv
  <2>1. c \in Calls /\ EntryOf(i, c)
    BY DEF TypeInv, TypeOK, Entries, EntryOf
  <2>2. kind[c] = "sync" /\ Made(c) /\ ThreadOf(c) \in Threads
    BY <2>1, CallType DEF CallInv
  <2>3. ~Told(c)
    BY <2>1 DEF ToldInv
  <2>4. CASE returned[c] # None
    BY <2>1, <2>3, <2>4 DEF Told
  <2>5. CASE c = Current(ThreadOf(c)) /\ pc[ThreadOf(c)] # "idle"
    BY <2>2, <2>5 DEF FrameInv, InSyncCall
  <2> QED
    BY <2>1, <2>2, <2>4, <2>5 DEF FrameInv
<1> QED
  BY <1>1, ClientInvHolds, PTL

-----------------------------------------------------------------------------
\* With ids that differ, a response goes to the call it answers: a callback is
\* told its own answer ...
UniqueIds == \A c, d \in Calls : CorrelationId(c) = CorrelationId(d) => c = d

CalledInv == \A c \in Calls : \A j \in DOMAIN called[c] : called[c][j].of \in {c, None}

\* ... and a context an answer to a call of its own thread, which no call has
\* brought yet while the one that owns the context is in progress.
ThreadInv ==
  /\ \A t \in Threads : frame[t].outcome.of # None =>
       LET d == frame[t].outcome.of
       IN  /\ d \in Calls /\ ThreadOf(d) = t
           /\ InSyncCall(t) => \A e \in Calls : returned[e] # None => returned[e].of # d
  /\ \A c \in Calls : returned[c] # None /\ returned[c].of # None =>
       LET d == returned[c].of
       IN  /\ ThreadOf(d) = ThreadOf(c) /\ d[2] <= c[2]
           /\ \A e \in Calls \ {c} : returned[e] # None => returned[e].of # d

\* The response that was found answers the call whose entry it has found.
LEMMA FoundAnswer ==
  ASSUME UniqueIds, TypeInv, CallInv, RespInv, CallBack
  PROVE  \A c \in Calls : EntryOf(Head(responses).id, c) => Head(responses).of = c
  BY FoundResponse DEF CallInv, UniqueIds

LEMMA CalledInvInit == Init => CalledInv
  BY DEF Init, CalledInv

\* What the callbacks of the entries S are told is theirs.
LEMMA CalledInvCallbacks ==
  ASSUME TypeInv, CallInv, CalledInv,
         NEW S \in SUBSET Ids, NEW o \in Outcomes, RunCallbacks(S, o),
         \A i \in S, c \in Calls : pending[i].call = c => o.of \in {c, None}
  PROVE  CalledInv'
<1>1. ASSUME NEW c \in Calls, NEW j \in DOMAIN called'[c]
      PROVE  called'[c][j].of \in {c, None}
  <2>1. CASE \E i \in S : pending[i].kind = "async" /\ pending[i].call = c
    <3>1. called'[c] = Append(called[c], o) /\ called[c] \in Seq(Outcomes)
      BY <2>1 DEF RunCallbacks, TypeInv, TypeOK
    <3>2. \/ j \in DOMAIN called[c] /\ called'[c][j] = called[c][j]
          \/ called'[c][j] = o
      BY <1>1, <3>1, AppendPositions
    <3> QED
      BY <2>1, <3>2 DEF CalledInv
  <2>2. CASE ~\E i \in S : pending[i].kind = "async" /\ pending[i].call = c
    <3>1. called'[c] = called[c]
      BY <2>2 DEF RunCallbacks
    <3> QED
      BY <1>1, <3>1 DEF CalledInv
  <2> QED
    BY <2>1, <2>2
<1> QED
  BY <1>1 DEF CalledInv

\* A step gives a callback only the answer of its own call ...
LEMMA CalledInvStep ==
  ASSUME UniqueIds, ClientInv, CalledInv, [Next]_vars
  PROVE  CalledInv'
<1> USE DEF callers, shared, remote, ClientInv
<1>1. CASE CallBack
  <2> PICK h, o : h = Head(responses).id /\ o = Answer(Head(responses).of)
    OBVIOUS
  <2>1. h \in Ids /\ pending[h] # None /\ o \in Outcomes
    BY <1>1, CallBackType
  <2>2. RunCallbacks({h}, o) /\ {h} \in SUBSET Ids
    BY <1>1, <2>1 DEF CallBack
  <2>3. \A c \in Calls : pending[h].call = c => o.of = c
    BY <1>1, <2>1, FoundAnswer DEF EntryOf, Answer
  <2> QED
    BY <2>1, <2>2, <2>3, CalledInvCallbacks
<1>2. CASE CheckTimeouts
  <2>1. Expired \in SUBSET Ids /\ TimedOut \in Outcomes /\ TimedOut.of = None
    BY DEF Expired, TimedOut, Outcomes
  <2>2. RunCallbacks(Expired, TimedOut)
    BY <1>2 DEF CheckTimeouts
  <2> QED
    BY <2>1, <2>2, CalledInvCallbacks
<1>3. CASE UNCHANGED called
  BY <1>3 DEF CalledInv
<1> QED
  BY <1>1, <1>2, <1>3
  DEF Next, CallSteps, ReceiveSteps, ServerSteps, Register, Publish, PublishFails, BeginWait,
      Wake, WakeEarly, WaitTimesOut, EndWait, Waiting, HandleResponse, DropResponse, Received,
      RemovePending, Respond, Age, Execute, Release, ServerCrash, vars

LEMMA ThreadInvInit == Init => ThreadInv
  BY DEF Init, ThreadInv, DeadFrame, Silent

\* ... and a context only one of its own thread.
LEMMA ThreadInvStep ==
  ASSUME UniqueIds, ClientInv, ThreadInv, [Next]_vars
  PROVE  ThreadInv'
<1> USE DEF ClientInv
<1>1. ASSUME NEW t \in Threads, Register(t)
      PROVE  ThreadInv'
  <2> PICK c : c = <<t, made[t] + 1>>
    OBVIOUS
  <2> USE <1>1, RegisterEffect
  <2>1. \A u \in Threads : frame'[u].outcome.of # None =>
          frame'[u] = frame[u] /\ (InSyncCall(u)' => InSyncCall(u))
    OBVIOUS
  <2>2. returned' = returned
    OBVIOUS
  <2> QED
    BY ONLY <2>1, <2>2, ThreadInv DEF ThreadInv
<1>2. ASSUME NEW t \in Threads, InCall(t), GoesOn(t)
      PROVE  ThreadInv'
  <2>1. UNCHANGED <<made, kind, returned, frame>> /\ pc[t] # "idle"
    BY <1>2 DEF InCall, GoesOn
  <2>2. \A u \in Threads : InSyncCall(u)' => InSyncCall(u)
    BY <1>2, <2>1, GoesOnEffect
  <2> QED
    BY <2>1, <2>2 DEF ThreadInv
<1>3. ASSUME NEW t \in Threads, InCall(t), NEW o \in Outcomes, Return(t, o), Outcome(t, o)
      PROVE  ThreadInv'
  <2> PICK c : c = Current(t)
    OBVIOUS
  <2>1. UNCHANGED <<made, kind>> /\ pc[t] # "idle"
    BY <1>3 DEF InCall
  <2>2. /\ c \in Calls /\ ThreadOf(c) = t /\ c[2] = made[t]
        /\ returned'[c] = o
        /\ \A e \in Calls : e # c => returned'[e] = returned[e]
        /\ \A u \in Threads : /\ frame'[u].outcome = frame[u].outcome
                              /\ InSyncCall(u)' => InSyncCall(u) /\ u # t
    BY <1>3, <2>1, ReturnEffect
  <2>3. o.of # None => InSyncCall(t) /\ o.of = frame[t].outcome.of
    BY <1>3 DEF Outcome
  <2>4. ASSUME o.of # None, NEW d, d = o.of
        PROVE  /\ d \in Calls /\ ThreadOf(d) = t /\ d[2] <= c[2]
               /\ \A e \in Calls : returned[e] # None => returned[e].of # d
    <3>1. d \in Calls /\ ThreadOf(d) = t
          /\ \A e \in Calls : returned[e] # None => returned[e].of # d
      BY <2>3, <2>4 DEF ThreadInv
    <3>2. Told(d)
      BY <2>3, <2>4 DEF Told
    <3>3. Made(d)
      BY <3>1, <3>2 DEF ToldInv
    <3>4. d[2] <= made[t]
      BY <3>1, <3>3, CallType DEF Made, TypeInv, TypeOK
    <3> QED
      BY <2>2, <3>1, <3>4
  <2>5. ASSUME NEW u \in Threads, frame'[u].outcome.of # None, NEW d,
               d = frame'[u].outcome.of
        PROVE  /\ d \in Calls /\ ThreadOf(d) = u
               /\ InSyncCall(u)' => \A e \in Calls : returned'[e] # None => returned'[e].of # d
    <3>1. d = frame[u].outcome.of /\ d # None
      BY <2>2, <2>5
    <3>2. d \in Calls /\ ThreadOf(d) = u
      BY <3>1 DEF ThreadInv
    <3>3. ASSUME InSyncCall(u)', NEW e \in Calls, returned'[e] # None
          PROVE  returned'[e].of # d
      <4>1. InSyncCall(u) /\ u # t
        BY <2>2, <3>3
      <4>2. CASE e = c
        BY <2>2, <2>4, <3>1, <3>2, <4>1, <4>2
      <4>3. CASE e # c
        <5>1. returned'[e] = returned[e]
          BY <2>2, <4>3
        <5> QED
          BY <3>1, <3>3, <4>1, <5>1 DEF ThreadInv
      <4> QED
        BY <4>2, <4>3
    <3> QED
      BY <3>2, <3>3
  <2>6. ASSUME NEW b \in Calls, returned'[b] # None, returned'[b].of # None, NEW d,
               d = returned'[b].of
        PROVE  /\ ThreadOf(d) = ThreadOf(b) /\ d[2] <= b[2]
               /\ \A e \in Calls \ {b} : returned'[e] # None => returned'[e].of # d
    <3>1. CASE b = c
      BY <2>2, <2>4, <2>6, <3>1
    <3>2. CASE b # c
      <4>1. returned'[b] = returned[b]
        BY <2>2, <3>2
      <4>2. /\ ThreadOf(d) = ThreadOf(b) /\ d[2] <= b[2]
            /\ \A e \in Calls \ {b} : returned[e] # None => returned[e].of # d
        BY <2>6, <4>1 DEF ThreadInv
      <4>3. returned'[c] # None => returned'[c].of # d
        BY <2>2, <2>4, <2>6, <4>1
      <4> QED
        BY <2>2, <4>2, <4>3
    <3> QED
      BY <3>1, <3>2
  <2> QED
    BY ONLY <2>5, <2>6 DEF ThreadInv
<1>4. ASSUME NEW S \in SUBSET Ids, NEW o \in Outcomes, RunsCallbacks(S, o)
      PROVE  ThreadInv'
  <2>1. /\ RunCallbacks(S, o) /\ UNCHANGED <<pc, made, kind, returned, responses>>
        /\ \A i \in S : pending[i] # None
        /\ \A i \in Ids : ~CallbackDone(i)
    BY <1>4 DEF RunsCallbacks
  <2>2. \A u \in Threads : InSyncCall(u)' <=> InSyncCall(u)
    BY <2>1 DEF InSyncCall, Current
  <2>3. ASSUME NEW u \in Threads, frame'[u].outcome.of # None, NEW d,
               d = frame'[u].outcome.of
        PROVE  /\ d \in Calls /\ ThreadOf(d) = u
               /\ InSyncCall(u) => \A e \in Calls : returned[e] # None => returned[e].of # d
    <3>1. CASE d = frame[u].outcome.of
      BY <2>3, <3>1 DEF ThreadInv
    <3>2. CASE d # frame[u].outcome.of
      <4>1. PICK i \in S, c \in Calls : EntryOf(i, c) /\ ThreadOf(c) = u /\ d = o.of
        BY <2>1, <2>3, <3>2, CallbackEffect
      <4>2. CallBack /\ S = {Head(responses).id} /\ d = Head(responses).of
        BY <1>4, <2>3, <4>1 DEF RunsCallbacks
      <4>3. d = c
        BY <4>1, <4>2, FoundAnswer
      <4>4. ~Told(d)
        BY <2>1, <4>1, <4>3 DEF ToldInv
      <4> QED
        BY <4>1, <4>3, <4>4 DEF Told
    <3> QED
      BY <3>1, <3>2
  <2> QED
    BY <2>1, <2>2, <2>3 DEF ThreadInv
<1>5. CASE Quiet
  BY <1>5 DEF Quiet, ThreadInv, InSyncCall, Current
<1> QED
  BY <1>1, <1>2, <1>3, <1>4, <1>5, StepKinds DEF InCall

(* When the ids of requests differ, as the generated ones do within a      *)
(* process, no answer crosses from one thread to another or is returned    *)
(* twice, whatever calls give up, repeat or time out (response_handler,    *)
(* rpc_sync_callback).                                                     *)
THEOREM NoAnswerCrosses ==
  ASSUME UniqueIds
  PROVE  Spec => []AnswersStayInThread
<1> DEFINE Inv == ClientInv /\ CalledInv /\ ThreadInv
<1>1. Init => Inv
  BY ClientInvInit, CalledInvInit, ThreadInvInit
<1>2. Inv /\ [Next]_vars => Inv'
  BY UniqueIds, ClientInvStep, CalledInvStep, ThreadInvStep
<1>3. Inv => AnswersStayInThread
  BY DEF CalledInv, ThreadInv, AnswersStayInThread
<1> QED
  BY <1>1, <1>2, <1>3, PTL DEF Spec
=============================================================================
