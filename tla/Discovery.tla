------------------------------ MODULE Discovery ------------------------------
(***************************************************************************)
(* How a service finds the instances of another: micoservice, registry and *)
(* the time that passes between them.                                      *)
(*                                                                         *)
(* Every instance sends its description to the registry about once a       *)
(* second (mico_service_run).  The registry notes when it heard of each    *)
(* (registry.c, receive thread); a second thread removes those it has not  *)
(* heard of for Timeout seconds and then sends the rest to whoever depends *)
(* on them (registry_run, about every two seconds).  The consumer notes    *)
(* when it was told of each and uses one for Timeout seconds               *)
(* (mico_service.c).  Nobody is told that an instance has gone.            *)
(*                                                                         *)
(* Time is counted in ticks of the clock's seconds, which is what          *)
(* check_timeout compares: sleep(n) is over after n or n + 1 ticks.  What  *)
(* takes no sleep takes no time here: a running receiver handles within    *)
(* the second what it is sent, and a round of the registry's loop is not   *)
(* interrupted by a tick.  Messages lie in shared memory and survive       *)
(* their sender and, until it is started again, their receiver.            *)
(*                                                                         *)
(* The maps are taken to stand being iterated over while the other thread  *)
(* adds to them.                                                           *)
(***************************************************************************)
EXTENDS Naturals, FiniteSets

CONSTANTS
  Instances,     \* the instances of the one service
  Consumer,      \* the service that depends on it
  Timeout,       \* check_timeout(..., 5), in the registry and the consumer
  BeatEvery,     \* sleep(1) of mico_service_run
  LoopEvery,     \* sleep(2) of registry_run
  MaxDeaths,     \* bound: how often a service process dies
  MaxRestarts,   \* bound: how often the registry dies
  MaxLostBeats,  \* bound: registrations that meet a full channel
  MaxLostPushes, \* bound: the same of what the registry sends
  Mortal,        \* the services that may die
  Absent         \* no entry

Nodes == Instances \cup {Consumer}

ASSUME NodeAssumption ==
  /\ IsFiniteSet(Instances)
  /\ Consumer \notin Instances
  /\ Mortal \subseteq Nodes
ASSUME TimeAssumption ==
  /\ {BeatEvery, LoopEvery} \subseteq Nat \ {0}
  /\ Timeout \in Nat \ {0}
  /\ Absent \notin Nat
ASSUME BoundAssumption ==
  {MaxDeaths, MaxRestarts, MaxLostBeats, MaxLostPushes} \subseteq Nat

VARIABLES
  alive,      \* per service: its process runs
  sinceBeat,  \* per service: ticks since it last sent its description
  beats,      \* the descriptions in the channels to the registry
  heard,      \* r->map_cluster: ticks since the entry's timestamp, or Absent
  loop,       \* the registry's loop: "sleep", "sweep", "push"
  sinceLoop,  \* ticks since its last round
  todo,       \* the entries this round has still to visit
  doomed,     \* of these, the ones found timed out and not yet removed
  pushes,     \* the descriptions in the channel to the consumer
  told,       \* dependency_cache: ticks since the entry's timestamp; an entry
              \* of Timeout ticks and none at all are the same to a caller
  gone,       \* history: ticks since an instance died, counted up to Forgotten
  died,       \* history: the services that have died
  failures    \* history: how many failures of each kind there were

node     == <<alive, sinceBeat>>
registry == <<heard, loop, sinceLoop, todo, doomed>>
history  == <<gone, died, failures>>
vars     == <<node, beats, registry, pushes, told, history>>

\* An instance that died cannot be used this long afterwards: the registry
\* forgets it after Timeout ticks, and so does the consumer after that.
Forgotten == (Timeout - 1) + (Timeout - 1) + 1

Bounds == [death |-> MaxDeaths, restart |-> MaxRestarts,
           beat |-> MaxLostBeats, push |-> MaxLostPushes]

TypeOK ==
  /\ alive \in [Nodes -> BOOLEAN]
  /\ sinceBeat \in [Nodes -> 0 .. BeatEvery + 1]
  /\ beats \subseteq Nodes
  /\ heard \in [Nodes -> (0 .. Timeout + LoopEvery) \cup {Absent}]
  /\ loop \in {"sleep", "sweep", "push"}
  /\ sinceLoop \in 0 .. LoopEvery + 1
  /\ todo \subseteq Nodes
  /\ doomed \subseteq todo
  /\ pushes \subseteq Instances
  /\ told \in [Instances -> 0 .. Timeout]
  /\ gone \in [Instances -> 0 .. Forgotten]
  /\ died \subseteq Mortal
  /\ failures \in [DOMAIN Bounds -> Nat]
  /\ \A f \in DOMAIN Bounds : failures[f] <= Bounds[f]

\* Everyone has just been started; the first description is sent at once.
Init ==
  /\ alive = [n \in Nodes |-> TRUE]
  /\ sinceBeat = [n \in Nodes |-> BeatEvery + 1]
  /\ beats = {}
  /\ heard = [n \in Nodes |-> Absent]
  /\ loop = "sweep"
  /\ sinceLoop = 0
  /\ todo = {}
  /\ doomed = {}
  /\ pushes = {}
  /\ told = [i \in Instances |-> Timeout]
  /\ gone = [i \in Instances |-> 0]
  /\ died = {}
  /\ failures = [f \in DOMAIN Bounds |-> 0]

Registered == {n \in Nodes : heard[n] # Absent}

-----------------------------------------------------------------------------
\* The next second begins.  Whoever is late with something runs first.
InTime ==
  /\ loop = "sleep" /\ sinceLoop <= LoopEvery
  /\ beats = {}
  /\ alive[Consumer] => pushes = {}
  /\ \A n \in Nodes : alive[n] => sinceBeat[n] <= BeatEvery

UpTo(bound, k) == IF k < bound THEN k + 1 ELSE bound

Tick ==
  /\ InTime
  /\ sinceBeat' = [n \in Nodes |-> UpTo(BeatEvery + 1, sinceBeat[n])]
  /\ heard' = [n \in Nodes |-> IF heard[n] = Absent THEN Absent ELSE heard[n] + 1]
  /\ sinceLoop' = sinceLoop + 1
  /\ told' = [i \in Instances |-> UpTo(Timeout, told[i])]
  /\ gone' = [i \in Instances |-> IF alive[i] THEN 0 ELSE UpTo(Forgotten, gone[i])]
  /\ UNCHANGED <<alive, beats, loop, todo, doomed, pushes, died, failures>>

Fail(f) ==
  /\ failures[f] < Bounds[f]
  /\ failures' = [failures EXCEPT ![f] = @ + 1]

\* mico_service_run: a round of the loop that sends service_info.
Heartbeat(n) ==
  /\ alive[n]
  /\ sinceBeat[n] >= BeatEvery
  /\ sinceBeat' = [sinceBeat EXCEPT ![n] = 0]
  /\ \/ beats' = beats \cup {n} /\ UNCHANGED failures
     \/ Fail("beat") /\ UNCHANGED beats
  /\ UNCHANGED <<alive, registry, pushes, told, gone, died>>

AddServerInfo_KeepsTimestamp(n) ==
  /\ n \in beats
  /\ beats' = beats \ {n}
  /\ heard' = [heard EXCEPT ![n] = IF n \in Registered THEN @ ELSE 0]
  /\ UNCHANGED <<node, loop, sinceLoop, todo, doomed, pushes, told, history>>

\* add_server_info_to_registey, in the receive thread: a new entry, or a new
\* timestamp for the old one, even if the loop is about to remove that.
AddServerInfo(n) ==
  /\ n \in beats
  /\ beats' = beats \ {n}
  /\ heard' = [heard EXCEPT ![n] = 0]
  /\ UNCHANGED <<node, loop, sinceLoop, todo, doomed, pushes, told, history>>

-----------------------------------------------------------------------------
StartPush == todo' = IF Consumer \in Registered THEN Registered \cap Instances ELSE {}

\* registry_run: the sleep is over.
WakeUp ==
  /\ loop = "sleep"
  /\ sinceLoop >= LoopEvery
  /\ loop' = "sweep"
  /\ sinceLoop' = 0
  /\ todo' = Registered
  /\ UNCHANGED <<node, beats, heard, doomed, pushes, told, history>>

TimedOut_Late(n) == heard[n] > Timeout
TimedOut_TooEarly(n) == heard[n] >= Timeout - 2
TimedOut(n) == heard[n] >= Timeout

\* check_service_instance_timeout looks at an entry ...
CheckEntry(n) ==
  /\ loop = "sweep"
  /\ n \in todo
  /\ doomed = {}
  /\ IF TimedOut(n)
     THEN doomed' = {n} /\ UNCHANGED todo
     ELSE todo' = todo \ {n} /\ UNCHANGED doomed
  /\ UNCHANGED <<node, beats, heard, loop, sinceLoop, pushes, told, history>>

RemoveEntry_StillDoomed(n) ==
  /\ n \in doomed
  /\ heard' = [heard EXCEPT ![n] = Absent]
  /\ todo' = todo \ {n}
  /\ UNCHANGED <<node, beats, loop, sinceLoop, doomed, pushes, told, history>>

\* ... and removes it, without looking again.
RemoveEntry(n) ==
  /\ n \in doomed
  /\ heard' = [heard EXCEPT ![n] = Absent]
  /\ doomed' = {}
  /\ todo' = todo \ {n}
  /\ UNCHANGED <<node, beats, loop, sinceLoop, pushes, told, history>>

\* push_dependency_to_service begins when the check is over.
EndSweep ==
  /\ loop = "sweep"
  /\ todo = {}
  /\ loop' = "push"
  /\ StartPush
  /\ UNCHANGED <<node, beats, heard, sinceLoop, doomed, pushes, told, history>>

\* send_cluster_to_target: one entry of the cluster.
PushDependency(i) ==
  /\ loop = "push"
  /\ i \in todo
  /\ todo' = todo \ {i}
  /\ \/ pushes' = pushes \cup {i} /\ UNCHANGED failures
     \/ Fail("push") /\ UNCHANGED pushes
  /\ UNCHANGED <<node, beats, heard, loop, sinceLoop, doomed, told, gone, died>>

Sleep ==
  /\ loop = "push"
  /\ todo = {}
  /\ loop' = "sleep"
  /\ UNCHANGED <<node, beats, heard, sinceLoop, todo, doomed, pushes, told, history>>

AddDependency_OnlyNew(i) ==
  /\ alive[Consumer]
  /\ i \in pushes
  /\ pushes' = pushes \ {i}
  /\ told' = IF told[i] < Timeout THEN told ELSE [told EXCEPT ![i] = 0]
  /\ UNCHANGED <<node, beats, registry, history>>

\* add_dependency_to_local, in the consumer's receive thread.
AddDependency(i) ==
  /\ alive[Consumer]
  /\ i \in pushes
  /\ pushes' = pushes \ {i}
  /\ told' = [told EXCEPT ![i] = 0]
  /\ UNCHANGED <<node, beats, registry, history>>

-----------------------------------------------------------------------------
\* A service process dies.
Die(n) ==
  /\ n \in Mortal
  /\ alive[n]
  /\ Fail("death")
  /\ alive' = [alive EXCEPT ![n] = FALSE]
  /\ died' = died \cup {n}
  /\ UNCHANGED <<sinceBeat, beats, registry, pushes, told, gone>>

\* It is started again with the same id; a consumer has lost its cache.
Start(n) ==
  /\ ~alive[n]
  /\ alive' = [alive EXCEPT ![n] = TRUE]
  /\ sinceBeat' = [sinceBeat EXCEPT ![n] = BeatEvery + 1]
  /\ told' = IF n = Consumer THEN [i \in Instances |-> Timeout] ELSE told
  /\ gone' = [i \in Instances |-> IF i = n THEN 0 ELSE gone[i]]
  /\ UNCHANGED <<beats, registry, pushes, died, failures>>

\* The registry dies and is started again: all it knows is in the channels.
RegistryRestart ==
  /\ Fail("restart")
  /\ heard' = [n \in Nodes |-> Absent]
  /\ loop' = "sweep"
  /\ sinceLoop' = 0
  /\ todo' = {}
  /\ doomed' = {}
  /\ UNCHANGED <<node, beats, pushes, told, gone, died>>

Work ==
  \/ Tick
  \/ \E n \in Nodes : Heartbeat(n) \/ AddServerInfo(n) \/ CheckEntry(n) \/ RemoveEntry(n)
  \/ WakeUp
  \/ EndSweep
  \/ \E i \in Instances : PushDependency(i) \/ AddDependency(i)
  \/ Sleep

Next ==
  \/ Work
  \/ \E n \in Nodes : Die(n) \/ Start(n)
  \/ RegistryRestart

Spec == Init /\ [][Next]_vars

\* Time passes, and what is due is done before its second is over.  A service
\* that died need not be started again.
FairSpec == Spec /\ WF_vars(Work)

-----------------------------------------------------------------------------
\* What mico_service_get_instance may return.
Usable(i) == told[i] < Timeout

(* An instance that died is not handed out any more once the registry and  *)
(* the consumer have both waited for it, one after the other, whichever    *)
(* messages are lost and whenever the registry or the consumer is started  *)
(* again (check_service_instance_timeout, mico_service_get_instance).      *)
GoneIsForgotten == \A i \in Instances : gone[i] = Forgotten => ~Usable(i)

(* The same while the consumer itself runs on.                             *)
GoneIsForgottenByRunning == Consumer \notin died => GoneIsForgotten

(* A registry that runs on never drops a service that has run all the      *)
(* time, although a registration is lost and the next one is late          *)
(* (check_service_instance_timeout against mico_service_run).              *)
LiveIsKept ==
  [][\A n \in Nodes \ died :
       UNCHANGED failures /\ heard[n] # Absent => heard'[n] # Absent]_vars

(* Once the consumer has found an instance and both run on, it can use it  *)
(* all the time: each push reaches it before the last one has timed out,   *)
(* if the registry runs on too and no push is lost.                        *)
FoundStaysUsable ==
  [][\A i \in Instances :
       /\ {i, Consumer} \cap died = {}
       /\ failures["restart"] = 0 /\ failures["push"] = 0
       /\ Usable(i)
       => Usable(i)']_vars

(* Whatever failed before, an instance that runs and a consumer that runs  *)
(* find each other again and stay together.                                *)
Rediscovered ==
  \A i \in Instances : <>[](alive[i] /\ alive[Consumer]) => <>[]Usable(i)
=============================================================================
