----------------------------- MODULE ServiceThread -----------------------------
(***************************************************************************)
(* The thread that registry, node center, node loader and micro-service    *)
(* each have, the same code four times: started by run_thread, ended by    *)
(* stop through thread_run_flag, which both threads write without a lock.  *)
(* node_center_delete stops the thread itself unless the flag says that    *)
(* it was stopped; main stops the others before it deletes them.           *)
(***************************************************************************)
CONSTANTS Kinds,        \* the components considered
          SelfStopping  \* those whose delete stops the thread

ASSUME KindsAssumption == SelfStopping \subseteq Kinds /\ Kinds # {}

VARIABLES
  kind,     \* which component it is
  flag,     \* thread_run_flag
  main,     \* the thread that uses it: "new", "running", "joining", "stopped", "freed"
  freeing,  \* whether main is in the component's delete
  loop      \* its thread: "none", "created", "top", "busy", "ended"

svars == <<kind, flag, main, freeing, loop>>

ThreadInit(k) ==
  /\ kind = k
  /\ flag = "zero"
  /\ main = "new"
  /\ freeing = FALSE
  /\ loop = "none"

ThreadTypeOK ==
  /\ kind \in Kinds
  /\ flag \in {"zero", "RUNING", "STOPING"}
  /\ main \in {"new", "running", "joining", "stopped", "freed"}
  /\ freeing \in BOOLEAN
  /\ loop \in {"none", "created", "top", "busy", "ended"}

-----------------------------------------------------------------------------
RunThread ==
  /\ main = "new"
  /\ main' = "running"
  /\ loop' = "created"
  /\ UNCHANGED <<kind, flag, freeing>>

\* The thread says itself that it runs.
SetFlag ==
  /\ loop = "created"
  /\ flag' = "RUNING"
  /\ loop' = "top"
  /\ UNCHANGED <<kind, main, freeing>>

GoesOn_UnlessZero == flag # "zero"
GoesOn == flag = "RUNING"

LookAtFlag ==
  /\ loop = "top"
  /\ loop' = IF GoesOn THEN "busy" ELSE "ended"
  /\ UNCHANGED <<kind, flag, main, freeing>>

\* The body of the loop, and its sleep.
Body ==
  /\ loop = "busy"
  /\ loop' = "top"
  /\ UNCHANGED <<kind, flag, main, freeing>>

\* stop sets the flag and joins the thread ...
StopIt ==
  /\ main' = "joining"
  /\ flag' = "STOPING"
  /\ UNCHANGED <<kind, loop>>

StopThread ==
  /\ main = "running"
  /\ StopIt
  /\ UNCHANGED freeing

\* ... and returns when it has ended.
JoinThread ==
  /\ main = "joining"
  /\ loop = "ended"
  /\ main' = "stopped"
  /\ UNCHANGED <<kind, flag, freeing, loop>>

MustStop_IfRunning == flag = "RUNING"
MustStop == flag # "STOPING"

\* Only a component that stops its thread itself may be deleted while it runs.
DeleteThread ==
  /\ ~freeing
  /\ main = "stopped" \/ (main = "running" /\ kind \in SelfStopping)
  /\ freeing' = TRUE
  /\ IF kind \in SelfStopping /\ MustStop THEN StopIt
     ELSE main' = "stopped" /\ UNCHANGED <<kind, flag, loop>>

Free ==
  /\ freeing /\ main = "stopped"
  /\ main' = "freed"
  /\ UNCHANGED <<kind, flag, freeing, loop>>

Loop == SetFlag \/ LookAtFlag \/ Body
Wait == JoinThread \/ Free

ThreadNext ==
  RunThread \/ Loop \/ StopThread \/ DeleteThread \/ Wait

-----------------------------------------------------------------------------
\* The component's memory is not freed while its thread may use it, although
\* the decision to wait is made by a flag that the thread itself writes: one
\* deleted before its thread has run at all is waited for too.
FreedAfterLoop == main = "freed" => loop = "ended"

\* A stop that comes when the thread has begun its loop returns.  (One that
\* comes before is overwritten by the thread's own write to the flag.)
StopEnds ==
  main = "joining" /\ loop # "created" /\ flag = "STOPING" ~> main \in {"stopped", "freed"}
================================================================================
