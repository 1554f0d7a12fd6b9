----------------------------- MODULE Platform ---------------------------------
(***************************************************************************)
(* What carries rpc.c and the services, in one specification so that one   *)
(* exploration covers it: the endpoint table as the main process builds it *)
(* at startup, clients that publish and receive through the rings it has,  *)
(* the sending queue of the other transport, crpc, and the thread that     *)
(* every component runs.  The parts share no state; a behaviour is one of  *)
(* one part.                                                               *)
(***************************************************************************)
EXTENDS ChannelTable, PubSub, CrpcQueue, ServiceThread

VARIABLE part

vars == <<part, tvars, pvars, cvars, svars>>

Init ==
  /\ part \in {"startup", "shm", "crpc", "thread"}
  /\ \E fs \in IF part = "startup" THEN Configurations ELSE {<<>>} : TableInit(fs)
  /\ \E work \in IF part = "shm" THEN Workloads ELSE {{}} : PubInit(work)
  /\ CrpcInit
  /\ \E k \in IF part = "thread" THEN Kinds ELSE {CHOOSE k \in Kinds : TRUE} : ThreadInit(k)

Startup == part = "startup" /\ UNCHANGED <<part, pvars, cvars, svars>>
Shm == part = "shm" /\ UNCHANGED <<part, tvars, cvars, svars>>
Crpc == part = "crpc" /\ UNCHANGED <<part, tvars, pvars, svars>>
Thread == part = "thread" /\ UNCHANGED <<part, tvars, pvars, cvars>>

Next ==
  \/ TableNext /\ Startup
  \/ PubNext /\ Shm
  \/ CrpcNext /\ Crpc
  \/ ThreadNext /\ Thread

\* Threads go on, and so does one that publishes, deletes or stops another; the
\* waits for pub_mutex and queue_mutex end because publications are far apart.
\* Nobody has to publish, to create or to delete a client or a component, and no thread has
\* to be cancelled where it may be.
Fairness ==
  /\ \A c \in Receivers : WF_pvars(part = "shm" /\ Receive(c))
  /\ \A c \in Clients \ Settled : WF_pvars(part = "shm" /\ Delete(c))
  /\ \A th \in Threads : WF_pvars(part = "shm" /\ Send(th))
  /\ WF_cvars(part = "crpc" /\ Work)
  /\ WF_cvars(part = "crpc" /\ DeleteOn)
  /\ \A p \in Posters : WF_cvars(part = "crpc" /\ SignalPost(p))
  /\ WF_svars(part = "thread" /\ Loop)
  /\ WF_svars(part = "thread" /\ Wait)

Spec == Init /\ [][Next]_vars
FairSpec == Spec /\ Fairness

\* The type invariant of the four parts.
TypeOK == TableTypeOK /\ PubTypeOK /\ CrpcTypeOK /\ ThreadTypeOK
===============================================================================
