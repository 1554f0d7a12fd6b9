------------------------------ MODULE LocalCache ------------------------------
(***************************************************************************)
(* What a service remembers of the instances of one service it depends on: *)
(* the service_local_cache of micoservice/mico_service.c.                  *)
(*                                                                         *)
(* The receive thread adds and refreshes instances, a thread of the        *)
(* application asks for one; no lock separates the two, and each changes   *)
(* total in two accesses.  With Overlap the two interleave, as in the      *)
(* programs under test/, which ask from main; without it the application   *)
(* asks from a callback, which the receive thread itself runs.             *)
(*                                                                         *)
(* Of the map's functions map_set is three steps when it resizes: the nodes *)
(* taken out, put back, and the new one added.  map_get, map_next and      *)
(* map_remove are one each, so with Overlap not all that two threads can   *)
(* do to an unlocked map is shown, and only the total is looked at there.  *)
(* The node an iteration has come to may be removed under it: map_next     *)
(* then follows the link in the freed memory, which is taken to be still   *)
(* what it was.  A call for an instance is short: the second does not      *)
(* change while it runs.                                                   *)
(***************************************************************************)
EXTENDS Integers, Sequences, FiniteSets, SequencesExt, HashMap

CONSTANTS
  Instances,  \* the ids the registry may push
  Hashes,     \* bound: the hashes they may have
  Timeout,    \* seconds without a push after which an instance has expired
  Methods,    \* the methods the application uses: "random", "one"
  Overlap,    \* whether the two threads interleave
  Null        \* no instance: mico_service_get_instance found none

ASSUME CacheAssumption ==
  /\ IsFiniteSet(Instances) /\ Instances # {}
  /\ Hashes \subseteq Nat
  /\ Timeout \in Nat \ {0}
  /\ Methods \subseteq {"random", "one"}
  /\ Overlap \in BOOLEAN
  /\ Null \notin Instances

VARIABLES
  hash,    \* map_hash of every id
  nodes,   \* sc->msc: the nodes of the map, ...
  nbuckets, \* ... and how many buckets it has
  age,     \* per instance: seconds since its timestamp, at most Timeout
  total,   \* sc->total
  count,   \* sc->count
  adding,  \* the receive thread: the instance it is adding, or Null
  rtotal,  \* and the total it has read
  rstep,   \* how far it has come with that: "no", "read", "counted", "resize", "resized"
  out,     \* and the nodes that map_resize has taken out of the map
  app,     \* the application: "idle", "sweep", "look", "removed", "choose"
  call,    \* the method of its call, or "check" for mico_service_check_timeout
  iter,    \* its map_iter_t: the bucket, the node, and, when the node is freed,
           \* what its link was
  atotal,  \* the total it has read
  got,     \* what the last call returned
  turn     \* history: what METHOD_ONE returned since the cache changed

cache == <<hash, nodes, nbuckets, age, total, count>>
recv  == <<adding, rtotal, rstep, out>>
caller == <<app, call, iter, atotal, got>>
vars  == <<cache, recv, caller, turn>>

Cached == Keys(nodes)
Cache(i) == Holds(hash, nodes, nbuckets, i)

AtStart == [bucket |-> 0, node |-> Null, freed |-> FALSE, link |-> Null]

TypeOK ==
  /\ hash \in [Instances -> Hashes]
  /\ nodes \in Seq([key : Instances, bucket : 1 .. nbuckets])
  /\ nbuckets \in Nat
  /\ age \in [Instances -> 0 .. Timeout]
  /\ {total, rtotal, atotal} \subseteq Int
  /\ count \in 0 .. Cardinality(Instances) - 1
  /\ adding \in Instances \cup {Null}
  /\ rstep \in {"no", "read", "counted", "resize", "resized"}
  /\ Keys(out) \subseteq Instances
  /\ app \in {"idle", "sweep", "look", "removed", "choose"}
  /\ call \in Methods \cup {"check"}
  /\ iter.bucket \in 0 .. nbuckets
  /\ {iter.node, iter.link} \subseteq Instances \cup {Null}
  /\ got \in Instances \cup {Null}
  /\ turn \subseteq Instances

Init ==
  /\ hash \in [Instances -> Hashes]
  /\ nodes = <<>>
  /\ nbuckets = 0
  /\ age = [i \in Instances |-> 0]
  /\ total = 0
  /\ count = 0
  /\ adding = Null
  /\ rtotal = 0
  /\ rstep = "no"
  /\ out = <<>>
  /\ app = "idle"
  /\ call = "check"
  /\ iter = AtStart
  /\ atotal = 0
  /\ got = Null
  /\ turn = {}

-----------------------------------------------------------------------------
Expired_Late(i) == age[i] > Timeout
Expired(i) == age[i] >= Timeout

Tick ==
  /\ app = "idle"
  /\ age' = [i \in Instances |-> IF age[i] < Timeout THEN age[i] + 1 ELSE Timeout]
  /\ UNCHANGED <<hash, nodes, nbuckets, total, count, recv, caller, turn>>

\* add_dependency_to_local, in the receive thread.  A known instance ...
Refresh(i) ==
  /\ adding = Null
  /\ Overlap \/ app = "idle"
  /\ Cache(i)
  /\ age' = [age EXCEPT ![i] = 0]
  /\ UNCHANGED <<hash, nodes, nbuckets, total, count, recv, caller, turn>>

AddBegin_Always(i) ==
  /\ adding = Null
  /\ Overlap \/ app = "idle"
  /\ total < Cardinality(Instances)
  /\ adding' = i
  /\ rtotal' = total
  /\ rstep' = "read"
  /\ UNCHANGED <<cache, out, caller, turn>>

\* ... and a new one: the total is read ...
AddBegin(i) ==
  /\ adding = Null
  /\ Overlap \/ app = "idle"
  /\ ~Cache(i)
  /\ adding' = i
  /\ rtotal' = total
  /\ rstep' = "read"
  /\ UNCHANGED <<cache, out, caller, turn>>

\* ... and written ...
AddCount ==
  /\ rstep = "read"
  /\ total' = rtotal + 1 /\ rtotal' = 0
  /\ age' = [age EXCEPT ![adding] = 0]
  /\ rstep' = "counted"
  /\ UNCHANGED <<hash, nodes, nbuckets, count, adding, out, caller, turn>>

\* ... and the instance is put into the map.  When this is full, map_resize first
\* takes all nodes out, clears the buckets, of which there are now more, ...
TakeOut ==
  /\ rstep = "counted" /\ ~Cache(adding)
  /\ Len(nodes) >= nbuckets
  /\ out' = nodes /\ nodes' = <<>>
  /\ nbuckets' = Grown(nodes, nbuckets)
  /\ turn' = {}
  /\ rstep' = "resize"
  /\ UNCHANGED <<hash, age, total, count, adding, rtotal, caller>>

\* ... and puts the nodes back.
PutBack ==
  /\ rstep = "resize"
  /\ nodes' = Resized(hash, out, nbuckets) /\ out' = <<>>
  /\ turn' = {}
  /\ rstep' = "resized"
  /\ UNCHANGED <<hash, nbuckets, age, total, count, adding, rtotal, caller>>

\* map_set replaces what it has found, and adds a node otherwise.
AddEnd ==
  /\ \/ rstep = "counted" /\ (Cache(adding) \/ Len(nodes) < nbuckets)
     \/ rstep = "resized"
  /\ nodes' = IF rstep = "counted" /\ Cache(adding) THEN nodes
              ELSE AddNode(hash, nodes, nbuckets, adding)
  /\ turn' = {}
  /\ adding' = Null /\ rstep' = "no"
  /\ UNCHANGED <<hash, nbuckets, age, total, count, rtotal, out, caller>>

-----------------------------------------------------------------------------
MayCall == app = "idle" /\ (Overlap \/ adding = Null)

\* mico_service_get_instance(method).  Nothing is known of the service ...
GetNone ==
  /\ MayCall
  /\ total <= 0
  /\ got' = Null
  /\ UNCHANGED <<cache, recv, app, call, iter, atotal, turn>>

\* ... or its instances are looked through first, which is also what
\* mico_service_check_timeout does.
Begin(m) ==
  /\ MayCall
  /\ m = "check" \/ total > 0
  /\ app' = "sweep"
  /\ call' = m
  /\ iter' = AtStart
  /\ UNCHANGED <<cache, recv, atotal, got, turn>>

\* map_next: along the chain, else the first node of a later bucket.
Link == CASE iter.node = Null -> Null
          [] iter.freed -> iter.link
          [] OTHER -> Follower(nodes, iter.node, Null)

\* While the node is out of the map, with Overlap, its link may be any.
Links == IF iter.node # Null /\ ~iter.freed /\ iter.node \notin Cached
         THEN Keys(out) \cup {Null} ELSE {Link}

LaterBucket == NextBucket(nodes, iter.bucket)

Behind(node) == [iter EXCEPT !.node = node, !.freed = FALSE, !.link = Null]

Advance ==
  /\ app = "sweep"
  /\ \E link \in Links :
       /\ link # Null \/ LaterBucket # 0
       /\ iter' = IF link # Null THEN Behind(link)
                  ELSE [Behind(FirstIn(nodes, LaterBucket)) EXCEPT !.bucket = LaterBucket]
  /\ app' = "look"
  /\ UNCHANGED <<cache, recv, call, atotal, got, turn>>

\* map_get may miss the node, with Overlap.
KeepInstance ==
  /\ app = "look"
  /\ Cache(iter.node) => ~Expired(iter.node)
  /\ app' = "sweep"
  /\ UNCHANGED <<cache, recv, call, iter, atotal, got, turn>>

FreedIter_AtEnd == [iter EXCEPT !.freed = TRUE]
FreedIter == [iter EXCEPT !.freed = TRUE, !.link = Follower(nodes, iter.node, Null)]

\* An expired one is removed, and the total is read ...
RemoveInstance ==
  /\ app = "look"
  /\ Cache(iter.node) /\ Expired(iter.node)
  /\ nodes' = Removed(hash, nodes, nbuckets, iter.node)
  /\ iter' = FreedIter
  /\ atotal' = total
  /\ app' = "removed"
  /\ turn' = {}
  /\ UNCHANGED <<hash, nbuckets, age, total, count, recv, call, got>>

\* ... and written.
CountDown ==
  /\ app = "removed"
  /\ total' = atotal - 1 /\ atotal' = 0
  /\ app' = "sweep"
  /\ UNCHANGED <<hash, nodes, nbuckets, age, count, recv, call, iter, got, turn>>

EndSweep ==
  /\ app = "sweep"
  /\ Null \in Links /\ LaterBucket = 0
  /\ IF call = "check" \/ total = 0
     THEN app' = "idle" /\ got' = Null
     ELSE app' = "choose" /\ UNCHANGED got
  /\ iter' = AtStart
  /\ UNCHANGED <<cache, recv, call, atotal, turn>>

\* METHOD_RANDOM: the entry whose position is rand() % total.  (With Overlap
\* the total may have become 0 since it was checked: a division by zero.)
ChooseRandom ==
  /\ app = "choose" /\ call = "random"
  /\ \E index \in 0 .. total - 1 :
       got' = IF index < Len(nodes) THEN KeyAt(nodes, index) ELSE Null
  /\ app' = "idle"
  /\ UNCHANGED <<cache, recv, call, iter, atotal, turn>>

After_NoWrap(k) == k + 1
After_Same(k) == k % total
After(k) == (k + 1) % total

\* METHOD_ONE: the entry whose position is count; count moves on only when
\* there is one.
ChooseNext ==
  /\ app = "choose" /\ call = "one"
  /\ IF count < Len(nodes)
     THEN /\ got' = KeyAt(nodes, count)
          /\ count' = After(count)
          /\ turn' = IF got' \in turn THEN {got'} ELSE turn \cup {got'}
     ELSE /\ got' = Null
          /\ UNCHANGED <<count, turn>>
  /\ app' = "idle"
  /\ UNCHANGED <<hash, nodes, nbuckets, age, total, recv, call, iter, atotal>>

Receive ==
  \/ \E i \in Instances : Refresh(i) \/ AddBegin(i)
  \/ AddCount \/ TakeOut \/ PutBack \/ AddEnd

Ask ==
  \/ GetNone
  \/ \E m \in Methods \cup {"check"} : Begin(m)
  \/ Advance \/ KeepInstance \/ RemoveInstance
  \/ CountDown
  \/ EndSweep
  \/ ChooseRandom
  \/ ChooseNext

Next == Tick \/ Receive \/ Ask

Spec == Init /\ [][Next]_vars

-----------------------------------------------------------------------------
Chosen == app = "choose" /\ app' = "idle"

(* While neither thread is at it, the total is the number of instances in  *)
(* the map: it is what mico_service_get_instance decides and chooses by,   *)
(* and it is changed by additions and removals far apart from the map.     *)
TotalIsSize == adding = Null /\ app # "removed" => total = Len(nodes)

(* When an instance is chosen all that had expired are gone, although the  *)
(* sweep removes the very nodes its iteration stands on                    *)
(* (mico_service_get_instance over map_remove and map_next).               *)
SweepIsComplete == app = "choose" => \A i \in Cached : ~Expired(i)

(* map_get finds what an iteration comes to, and this once, while the map  *)
(* grows and shrinks: a key that hides in another bucket would be added    *)
(* again and counted twice.                                                *)
LookUpFindsAll ==
  /\ \A i \in Cached : Cache(i)
  /\ Len(nodes) = Cardinality(Cached)

(* When an instance is left after the expired ones are removed, the caller *)
(* gets one (mico_service_get_instance returns NULL for "no instance").    *)
FoundWhenAvailable == [][Chosen => got' # Null]_vars

(* The caller never gets an instance that has expired.                     *)
ChosenIsFresh == [][Chosen /\ got' # Null => age[got'] < Timeout]_vars

(* METHOD_ONE takes the instances in turn: while the cache does not change *)
(* none is returned again before all have been.                            *)
TakesTurns ==
  [][Chosen /\ call = "one" /\ got' \in turn => turn = Cached]_vars
=============================================================================
