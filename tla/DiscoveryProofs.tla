--------------------------- MODULE DiscoveryProofs ---------------------------
(***************************************************************************)
(* What the time-outs of registry and consumer achieve, for any number of  *)
(* instances, any failures and any periods that fit the time-out: the      *)
(* theorems say which do.                                                  *)
(***************************************************************************)
EXTENDS Discovery, TLAPS

\* The ages in the registry fit the round its loop is in: when it sleeps or
\* sends, what had timed out at the last sweep is gone.
SweepInv ==
  /\ loop = "sleep" => \A n \in Registered : heard[n] < Timeout + sinceLoop
  /\ loop = "sweep" => \A n \in Registered \ todo : heard[n] < Timeout
  /\ loop = "push"  => \A n \in Registered : heard[n] < Timeout
  /\ loop # "sleep" => sinceLoop = 0 /\ todo \subseteq Registered
  /\ doomed # {} => loop = "sweep"
  /\ \A n \in Nodes \ died : alive[n]

TypeInv == TypeOK /\ SweepInv

\* The failures that are counted.
LEMMA FailureKinds ==
  /\ DOMAIN Bounds = {"death", "restart", "beat", "push"}
  /\ \A f \in DOMAIN Bounds : Bounds[f] \in Nat
  BY BoundAssumption DEF Bounds

\* A failure is one of those that are left.
LEMMA FailType ==
  ASSUME TypeOK, NEW f \in DOMAIN Bounds, Fail(f)
  PROVE  /\ failures' \in [DOMAIN Bounds -> Nat]
         /\ \A g \in DOMAIN Bounds : failures'[g] <= Bounds[g]
  BY FailureKinds DEF TypeOK, Fail

\* At first everything has its type, ...
LEMMA TypeInvInit == Init => TypeInv
<1> SUFFICES ASSUME Init
             PROVE  TypeInv
  OBVIOUS
<1>1. Registered = {}
  BY DEF Init, Registered
<1>2. TypeOK
  BY FailureKinds, TimeAssumption DEF Init, TypeOK, Forgotten
<1> QED
  BY <1>1, <1>2 DEF Init, TypeInv, SweepInv

\* Every step of a service, the registry, the consumer or the clock keeps it.
LEMMA TypeInvStep ==
  ASSUME TypeInv, [Next]_vars
  PROVE  TypeInv'
<1> USE TimeAssumption, NodeAssumption, FailureKinds
    DEF TypeInv, TypeOK, SweepInv, Registered, node, registry, history, Nodes
<1>1. CASE Tick
  <2>1. sinceLoop' \in 0 .. LoopEvery + 1 /\ sinceLoop' = sinceLoop + 1
    BY <1>1 DEF Tick, InTime
  <2>2. \A n \in Nodes : heard'[n] # Absent =>
          /\ heard[n] # Absent /\ heard[n] \in Nat /\ heard'[n] = heard[n] + 1
          /\ heard'[n] < Timeout + sinceLoop'
          /\ heard'[n] \in 0 .. Timeout + LoopEvery
    BY <1>1, <2>1 DEF Tick, InTime
  <2>3. heard' \in [Nodes -> (0 .. Timeout + LoopEvery) \cup {Absent}]
    BY <1>1, <2>1, <2>2 DEF Tick
  <2>4. /\ sinceBeat' \in [Nodes -> 0 .. BeatEvery + 1]
        /\ told' \in [Instances -> 0 .. Timeout]
        /\ gone' \in [Instances -> 0 .. Forgotten]
    BY <1>1 DEF Tick, UpTo, Forgotten
  <2> QED
    BY <1>1, <2>1, <2>2, <2>3, <2>4 DEF Tick, InTime
<1>2. ASSUME NEW n \in Nodes, Heartbeat(n)
      PROVE  TypeInv'
  BY <1>2, FailType DEF Heartbeat
<1>3. ASSUME NEW n \in Nodes, AddServerInfo(n)
      PROVE  TypeInv'
  BY <1>3 DEF AddServerInfo
<1>4. CASE WakeUp
  BY <1>4 DEF WakeUp
<1>5. ASSUME NEW n \in Nodes, CheckEntry(n)
      PROVE  TypeInv'
  BY <1>5 DEF CheckEntry, TimedOut
<1>6. ASSUME NEW n \in Nodes, RemoveEntry(n)
      PROVE  TypeInv'
  BY <1>6 DEF RemoveEntry
<1>7. CASE EndSweep
  BY <1>7 DEF EndSweep, StartPush
<1>8. ASSUME NEW i \in Instances, PushDependency(i)
      PROVE  TypeInv'
  BY <1>8, FailType DEF PushDependency
<1>9. CASE Sleep
  BY <1>9 DEF Sleep
<1>10. ASSUME NEW i \in Instances, AddDependency(i)
       PROVE  TypeInv'
  BY <1>10 DEF AddDependency
<1>11. ASSUME NEW n \in Nodes, Die(n)
       PROVE  TypeInv'
  BY <1>11, FailType DEF Die
<1>12. ASSUME NEW n \in Nodes, Start(n)
       PROVE  TypeInv'
  BY <1>12 DEF Start, Forgotten
<1>13. CASE RegistryRestart
  BY <1>13, FailType DEF RegistryRestart
<1>14. CASE UNCHANGED vars
  BY <1>14 DEF vars
<1> QED
  BY <1>1, <1>2, <1>3, <1>4, <1>5, <1>6, <1>7, <1>8, <1>9, <1>10, <1>11, <1>12,
     <1>13, <1>14
  DEF Next, Work

\* ... and so it has in every reachable state.
LEMMA TypeInvHolds == Spec => []TypeInv
  BY TypeInvInit, TypeInvStep, PTL DEF Spec

(* Every reachable state is well typed; in particular no entry of the      *)
(* registry grows older than the time-out and a round of the loop, for     *)
(* every number of instances and all periods (registry_run).               *)
THEOREM TypeCorrect == Spec => []TypeOK
  BY TypeInvHolds, PTL DEF TypeInv

-----------------------------------------------------------------------------
\* An instance that has been dead for some ticks is not on its way to the
\* registry any more, and the registry has not heard of it since; a consumer
\* that runs on was told of it, or is about to be, less than Timeout ticks
\* after its death.
GoneInv ==
  /\ \A i \in Instances : gone[i] > 0 =>
       /\ ~alive[i]
       /\ i \notin beats
       /\ i \in Registered => heard[i] >= gone[i]
  /\ Consumer \notin died => \A i \in Instances :
       /\ i \in pushes => gone[i] < Timeout
       /\ gone[i] < told[i] + Timeout

\* At first nobody is gone, ...
LEMMA GoneInvInit == Init => GoneInv
  BY TimeAssumption DEF Init, GoneInv

\* ... and no step tells a running consumer of what has been gone for too long.
LEMMA GoneInvStep ==
  ASSUME TypeInv, GoneInv, [Next]_vars
  PROVE  GoneInv'
<1> USE TimeAssumption, NodeAssumption
    DEF TypeInv, TypeOK, SweepInv, GoneInv, Registered, node, registry, history, Nodes,
        Forgotten
<1>1. CASE Tick
  <2>1. ASSUME NEW i \in Instances, gone'[i] > 0
        PROVE  /\ ~alive'[i] /\ i \notin beats'
               /\ heard'[i] # Absent => heard'[i] >= gone'[i]
    BY <1>1, <2>1 DEF Tick, InTime, UpTo
  <2>2. ASSUME NEW i \in Instances, Consumer \notin died
        PROVE  i \notin pushes' /\ gone'[i] < told'[i] + Timeout
    BY <1>1, <2>2 DEF Tick, InTime, UpTo
  <2> QED
    BY <1>1, <2>1, <2>2 DEF Tick
<1>2. ASSUME NEW n \in Nodes, Heartbeat(n)
      PROVE  GoneInv'
  BY <1>2 DEF Heartbeat
<1>3. ASSUME NEW n \in Nodes, AddServerInfo(n)
      PROVE  GoneInv'
  BY <1>3 DEF AddServerInfo
<1>4. CASE WakeUp \/ EndSweep \/ Sleep
  BY <1>4 DEF WakeUp, EndSweep, Sleep
<1>5. ASSUME NEW n \in Nodes, CheckEntry(n)
      PROVE  GoneInv'
  BY <1>5 DEF CheckEntry
<1>6. ASSUME NEW n \in Nodes, RemoveEntry(n)
      PROVE  GoneInv'
  BY <1>6 DEF RemoveEntry
<1>7. ASSUME NEW i \in Instances, PushDependency(i)
      PROVE  GoneInv'
  BY <1>7 DEF PushDependency
<1>8. ASSUME NEW i \in Instances, AddDependency(i)
      PROVE  GoneInv'
  BY <1>8 DEF AddDependency
<1>9. ASSUME NEW n \in Nodes, Die(n)
      PROVE  GoneInv'
  BY <1>9 DEF Die
<1>10. ASSUME NEW n \in Nodes, Start(n)
       PROVE  GoneInv'
  BY <1>10 DEF Start
<1>11. CASE RegistryRestart
  BY <1>11 DEF RegistryRestart
<1>12. CASE UNCHANGED vars
  BY <1>12 DEF vars
<1> QED
  BY <1>1, <1>2, <1>3, <1>4, <1>5, <1>6, <1>7, <1>8, <1>9, <1>10, <1>11, <1>12
  DEF Next, Work

(* GoneIsForgottenByRunning: two time-outs after its death, one at the     *)
(* registry and one at the consumer, an instance is not handed out any     *)
(* more, however many messages were lost and how often the registry died   *)
(* (check_service_instance_timeout, mico_service_get_instance).            *)
THEOREM RunningConsumerForgets == Spec => []GoneIsForgottenByRunning
<1>1. TypeInv /\ GoneInv => GoneIsForgottenByRunning
  BY TimeAssumption
  DEF TypeInv, TypeOK, GoneInv, GoneIsForgottenByRunning, GoneIsForgotten, Forgotten,
      Usable
<1>2. TypeInv /\ GoneInv /\ [Next]_vars => GoneInv'
  BY GoneInvStep
<1> QED
  BY <1>1, <1>2, GoneInvInit, TypeInvHolds, PTL DEF Spec

-----------------------------------------------------------------------------
\* Two heartbeats that arrive are at most so many ticks apart when lost ones
\* lie between them: each sleep may take a tick more than it was asked to.
Gap(lost) == lost * (BeatEvery + 1) + (BeatEvery + 1)

\* The time-out is longer than what the lost heartbeats make of that.  With the
\* code's periods of 1 and 5 seconds this is so for one lost heartbeat, and
\* not for two.
BeatsFit == Gap(MaxLostBeats) < Timeout

\* The gap grows by one period with every heartbeat that is lost.
LEMMA GapGrows ==
  ASSUME NEW k \in Nat, NEW l \in Nat, k <= l
  PROVE  /\ Gap(k) \in Nat /\ Gap(l) \in Nat /\ Gap(k) <= Gap(l)
         /\ Gap(k + 1) = Gap(k) + (BeatEvery + 1)
<1> DEFINE P == BeatEvery + 1
<1>1. P \in Nat
  BY TimeAssumption
<1>2. /\ k * P \in Nat /\ l * P \in Nat
      /\ k * P <= l * P
      /\ (k + 1) * P = k * P + P
  <2> HIDE DEF P
  <2> QED
    BY <1>1
<1> QED
  BY <1>1, <1>2 DEF Gap

\* A service that has run all the time was heard of in time, counting each
\* heartbeat that was lost, and no sweep has found it late.
LiveInv ==
  \A n \in Nodes \ died :
    /\ n \in beats => sinceBeat[n] = 0
    /\ n \in Registered =>
         heard[n] + (BeatEvery + 1) <=
           Gap(failures["beat"]) + (IF n \in beats THEN BeatEvery + 1 ELSE sinceBeat[n])
    /\ n \notin doomed

\* At first the registry has heard of nobody, ...
LEMMA LiveInvInit == Init => LiveInv
  BY DEF Init, LiveInv, Registered

\* ... and no step lets it find a service late that has run all the time, ...
LEMMA LiveInvStep ==
  ASSUME BeatsFit, TypeInv, LiveInv, [Next]_vars
  PROVE  LiveInv'
<1> USE TimeAssumption, NodeAssumption, FailureKinds
    DEF TypeInv, TypeOK, LiveInv, Registered, node, registry, history, Nodes
<1>a. /\ failures["beat"] \in Nat /\ failures["beat"] <= MaxLostBeats
      /\ MaxLostBeats \in Nat
  BY BoundAssumption DEF Bounds
<1>b. /\ Gap(failures["beat"]) \in Nat
      /\ Gap(failures["beat"]) < Timeout
      /\ Gap(failures["beat"]) >= BeatEvery + 1
      /\ Gap(failures["beat"] + 1) = Gap(failures["beat"]) + (BeatEvery + 1)
  <2>1. Gap(0) = BeatEvery + 1 /\ Gap(0) <= Gap(failures["beat"])
    BY <1>a, GapGrows DEF Gap
  <2>2. /\ Gap(failures["beat"]) \in Nat
        /\ Gap(failures["beat"]) <= Gap(MaxLostBeats)
        /\ Gap(MaxLostBeats) \in Nat
    BY <1>a, GapGrows
  <2>3. Gap(failures["beat"] + 1) = Gap(failures["beat"]) + (BeatEvery + 1)
    BY <1>a, GapGrows
  <2> QED
    BY <2>1, <2>2, <2>3 DEF BeatsFit
<1>c. \A n \in Nodes \ died : alive[n] /\ (n \in Registered => heard[n] < Timeout)
  BY <1>b DEF SweepInv
<1>1. CASE Tick
  BY <1>1, <1>b, <1>c DEF Tick, InTime, UpTo
<1>2. ASSUME NEW n \in Nodes, Heartbeat(n)
      PROVE  LiveInv'
  <2>1. CASE beats' = beats \cup {n} /\ UNCHANGED failures
    BY <1>2, <1>b, <2>1 DEF Heartbeat
  <2>2. CASE Fail("beat") /\ UNCHANGED beats
    <3>1. failures'["beat"] = failures["beat"] + 1
      BY <2>2 DEF Fail
    <3> QED
      BY <1>2, <1>b, <2>2, <3>1 DEF Heartbeat
  <2> QED
    BY <1>2, <2>1, <2>2 DEF Heartbeat
<1>3. ASSUME NEW n \in Nodes, AddServerInfo(n)
      PROVE  LiveInv'
  BY <1>3, <1>b DEF AddServerInfo
<1>4. CASE WakeUp \/ EndSweep \/ Sleep
  BY <1>4 DEF WakeUp, EndSweep, Sleep
<1>5. ASSUME NEW n \in Nodes, CheckEntry(n)
      PROVE  LiveInv'
  BY <1>5, <1>c DEF CheckEntry, TimedOut, SweepInv
<1>6. ASSUME NEW n \in Nodes, RemoveEntry(n)
      PROVE  LiveInv'
  BY <1>6 DEF RemoveEntry
<1>7. ASSUME NEW i \in Instances, PushDependency(i)
      PROVE  LiveInv'
  BY <1>7 DEF PushDependency, Fail
<1>8. ASSUME NEW i \in Instances, AddDependency(i)
      PROVE  LiveInv'
  BY <1>8 DEF AddDependency
<1>9. ASSUME NEW n \in Nodes, Die(n)
      PROVE  LiveInv'
  BY <1>9 DEF Die, Fail
<1>10. ASSUME NEW n \in Nodes, Start(n)
       PROVE  LiveInv'
  BY <1>10 DEF Start, SweepInv
<1>11. CASE RegistryRestart
  BY <1>11 DEF RegistryRestart, Fail
<1>12. CASE UNCHANGED vars
  BY <1>12 DEF vars
<1> QED
  BY <1>1, <1>2, <1>3, <1>4, <1>5, <1>6, <1>7, <1>8, <1>9, <1>10, <1>11, <1>12
  DEF Next, Work

\* ... so it never does.
LEMMA LiveInvHolds ==
  ASSUME BeatsFit
  PROVE  Spec => [](TypeInv /\ LiveInv)
<1>1. TypeInv /\ LiveInv /\ [Next]_vars => LiveInv'
  BY LiveInvStep, BeatsFit
<1> QED
  BY <1>1, LiveInvInit, TypeInvHolds, PTL DEF Spec

(* LiveIsKept: when the time-out leaves room for the heartbeats that may   *)
(* be lost, a registry that runs on never drops a service that has run all *)
(* the time, also not while its next heartbeat races with the sweep        *)
(* (check_service_instance_timeout against mico_service_run).              *)
THEOREM LiveServiceIsKept ==
  ASSUME BeatsFit
  PROVE  Spec => LiveIsKept
<1>1. TypeInv /\ LiveInv /\ [Next]_vars =>
        [\A n \in Nodes \ died :
           UNCHANGED failures /\ heard[n] # Absent => heard'[n] # Absent]_vars
  <2> SUFFICES ASSUME TypeInv, LiveInv, [Next]_vars,
                      NEW n \in Nodes \ died, UNCHANGED failures, heard[n] # Absent
               PROVE  heard'[n] # Absent
    OBVIOUS
  <2> USE TimeAssumption, FailureKinds DEF TypeInv, TypeOK, node, registry, history
  <2>1. CASE Tick
    BY <2>1 DEF Tick
  <2>2. ASSUME NEW m \in Nodes, AddServerInfo(m)
        PROVE  heard'[n] # Absent
    BY <2>2 DEF AddServerInfo
  <2>3. ASSUME NEW m \in Nodes, RemoveEntry(m)
        PROVE  heard'[n] # Absent
    BY <2>3 DEF RemoveEntry, LiveInv
  <2>4. CASE RegistryRestart
    BY <2>4 DEF RegistryRestart, Fail
  <2>5. CASE UNCHANGED heard
    BY <2>5
  <2> QED
    BY <2>1, <2>2, <2>3, <2>4, <2>5
    DEF Next, Work, Heartbeat, CheckEntry, WakeUp, EndSweep, PushDependency,
        AddDependency, Sleep, Die, Start, vars
<1> QED
  BY <1>1, LiveInvHolds, BeatsFit, PTL DEF Spec, LiveIsKept

-----------------------------------------------------------------------------
\* Two rounds of the registry's loop are less than the time-out apart, also when
\* its sleep takes a tick more.
RoundsFit == LoopEvery + 1 < Timeout

\* While the registry runs on and no push is lost, what the consumer has found is
\* still registered and was told of in this round of the loop or the last one.
FoundInv ==
  Consumer \notin died /\ failures["restart"] = 0 =>
    /\ pushes # {} => loop = "push" \/ (loop = "sleep" /\ sinceLoop = 0)
    /\ loop = "push" /\ todo # {} => Consumer \in Registered
    /\ \A i \in Instances \ died : i \in pushes \/ Usable(i) =>
         i \in Registered /\ Consumer \in Registered
    /\ failures["push"] = 0 => \A i \in Instances \ died : Usable(i) =>
         /\ told[i] <= LoopEvery + 1
         /\ loop = "sleep" => i \in pushes \/ told[i] <= sinceLoop
         /\ loop = "push"  => i \in todo \cup pushes \/ told[i] = 0

\* At first the consumer has found nobody, ...
LEMMA FoundInvInit == Init => FoundInv
  BY TimeAssumption DEF Init, FoundInv, Usable

\* ... and no step lets what it has found grow older than the loop allows.
LEMMA FoundInvStep ==
  ASSUME TypeInv, LiveInv, FoundInv, [Next]_vars
  PROVE  FoundInv'
<1> USE TimeAssumption, NodeAssumption, FailureKinds
    DEF TypeInv, TypeOK, SweepInv, FoundInv, Registered, Usable, node, registry, history,
        Nodes
<1>1. CASE Tick
  BY <1>1 DEF Tick, InTime, UpTo
<1>2. ASSUME NEW n \in Nodes, Heartbeat(n)
      PROVE  FoundInv'
  BY <1>2 DEF Heartbeat, Fail
<1>3. ASSUME NEW n \in Nodes, AddServerInfo(n)
      PROVE  FoundInv'
  BY <1>3 DEF AddServerInfo
<1>4. CASE WakeUp
  BY <1>4 DEF WakeUp
<1>5. CASE EndSweep
  BY <1>5 DEF EndSweep, StartPush
<1>6. CASE Sleep
  BY <1>6 DEF Sleep
<1>7. ASSUME NEW n \in Nodes, CheckEntry(n)
      PROVE  FoundInv'
  BY <1>7 DEF CheckEntry
<1>8. ASSUME NEW n \in Nodes, RemoveEntry(n)
      PROVE  FoundInv'
  BY <1>8 DEF RemoveEntry, LiveInv
<1>9. ASSUME NEW i \in Instances, PushDependency(i)
      PROVE  FoundInv'
  <2>1. CASE pushes' = pushes \cup {i} /\ UNCHANGED failures
    BY <1>9, <2>1 DEF PushDependency
  <2>2. CASE Fail("push") /\ UNCHANGED pushes
    <3>1. failures'["push"] # 0
      BY <2>2 DEF Fail
    <3> QED
      BY <1>9, <2>2, <3>1 DEF PushDependency, Fail
  <2> QED
    BY <1>9, <2>1, <2>2 DEF PushDependency
<1>10. ASSUME NEW i \in Instances, AddDependency(i)
       PROVE  FoundInv'
  BY <1>10 DEF AddDependency
<1>11. ASSUME NEW n \in Nodes, Die(n)
       PROVE  FoundInv'
  BY <1>11 DEF Die, Fail
<1>12. ASSUME NEW n \in Nodes, Start(n)
       PROVE  FoundInv'
  BY <1>12 DEF Start
<1>13. CASE RegistryRestart
  <2>1. failures'["restart"] # 0
    BY <1>13 DEF RegistryRestart, Fail
  <2> QED
    BY <2>1
<1>14. CASE UNCHANGED vars
  BY <1>14 DEF vars
<1> QED
  BY <1>1, <1>2, <1>3, <1>4, <1>5, <1>6, <1>7, <1>8, <1>9, <1>10, <1>11, <1>12,
     <1>13, <1>14
  DEF Next, Work

(* FoundStaysUsable: when the time-out leaves room for the lost heartbeats *)
(* and for a round of the registry's loop, each push reaches a running     *)
(* consumer before the last one has timed out there, so a caller is never  *)
(* without an instance it had (registry_run, mico_service_get_instance).   *)
THEOREM FoundInstanceStaysUsable ==
  ASSUME BeatsFit, RoundsFit
  PROVE  Spec => FoundStaysUsable
<1>1. TypeInv /\ FoundInv /\ [Next]_vars =>
        [\A i \in Instances :
           /\ {i, Consumer} \cap died = {}
           /\ failures["restart"] = 0 /\ failures["push"] = 0
           /\ Usable(i)
           => Usable(i)']_vars
  <2> SUFFICES ASSUME TypeInv, FoundInv, [Next]_vars,
                      NEW i \in Instances, i \notin died, Consumer \notin died,
                      failures["restart"] = 0, failures["push"] = 0, Usable(i)
               PROVE  Usable(i)'
    OBVIOUS
  <2> USE TimeAssumption, NodeAssumption DEF TypeInv, TypeOK, SweepInv, Usable, Nodes
  <2>1. CASE Tick
    BY <2>1, RoundsFit DEF Tick, InTime, UpTo, FoundInv, RoundsFit
  <2>2. ASSUME NEW j \in Instances, AddDependency(j)
        PROVE  Usable(i)'
    BY <2>2 DEF AddDependency
  <2>3. ASSUME NEW n \in Nodes, Start(n)
        PROVE  Usable(i)'
    BY <2>3 DEF Start
  <2>4. CASE UNCHANGED told
    BY <2>4
  <2> QED
    BY <2>1, <2>2, <2>3, <2>4
    DEF Next, Work, Heartbeat, AddServerInfo, CheckEntry, RemoveEntry, WakeUp, EndSweep,
        PushDependency, Sleep, Die, RegistryRestart, vars
<1>2. TypeInv /\ LiveInv /\ FoundInv /\ [Next]_vars => FoundInv'
  BY FoundInvStep
<1> QED
  BY <1>1, <1>2, FoundInvInit, LiveInvHolds, BeatsFit, PTL DEF Spec, FoundStaysUsable
=============================================================================
