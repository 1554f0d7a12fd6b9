------------------------------- MODULE HashMap -------------------------------
(***************************************************************************)
(* The hash map of util/map.c: its nodes, each with its key and the bucket *)
(* it is in, the ones added last first, and the number n of its buckets.   *)
(*                                                                         *)
(* A chain is what the nodes of one bucket are in that order, because      *)
(* map_addnode puts a node before the others of its chain.  map_resize     *)
(* reverses each chain when it takes the nodes out and again when it adds  *)
(* them, and as the number of buckets doubles no two chains become one: so *)
(* each node is given another bucket, and the order stays.  MapChains has  *)
(* the loops over the chains that this stands for.                         *)
(***************************************************************************)
EXTENDS Naturals, Sequences, FiniteSets, SequencesExt

\* map_bucketidx: buckets are counted from 1.
Index(hash, key, n) == (hash[key] % n) + 1

Node(hash, key, n) == [key |-> key, bucket |-> Index(hash, key, n)]

Keys(nodes) == {nodes[i].key : i \in DOMAIN nodes}

\* map_getref: a node with the key, in the bucket where it is looked for.
Found_IndexNotReduced(hash, nodes, n, key) ==
  {i \in DOMAIN nodes : nodes[i] = [key |-> key, bucket |-> hash[key] + 1]}
Found(hash, nodes, n, key) == {i \in DOMAIN nodes : nodes[i] = Node(hash, key, n)}

Holds(hash, nodes, n, key) == Found(hash, nodes, n, key) # {}

\* map_addnode
AddNode(hash, nodes, n, key) == <<Node(hash, key, n)>> \o nodes

\* map_resize
Resized(hash, nodes, n) == [i \in DOMAIN nodes |-> Node(hash, nodes[i].key, n)]

\* map_set with a key that is new: there are as many buckets as nodes at least.
Grown(nodes, n) == IF Len(nodes) < n THEN n ELSE IF n = 0 THEN 1 ELSE 2 * n

\* map_remove
Removed(hash, nodes, n, key) ==
  IF Holds(hash, nodes, n, key)
  THEN RemoveAt(nodes, Min(Found(hash, nodes, n, key)))
  ELSE nodes

-----------------------------------------------------------------------------
\* map_next goes through the buckets, and in each along its chain.
Before(nodes, i, j) ==
  \/ nodes[i].bucket < nodes[j].bucket
  \/ nodes[i].bucket = nodes[j].bucket /\ i < j

\* The key that an iteration comes to after it has come to k others.
Position(nodes, j) == Cardinality({i \in DOMAIN nodes : Before(nodes, i, j)})
KeyAt(nodes, k) == nodes[CHOOSE j \in DOMAIN nodes : Position(nodes, j) = k].key

\* What node->next of a node that is in the map points to, or none.
Follower(nodes, key, none) ==
  LET here == CHOOSE i \in DOMAIN nodes : nodes[i].key = key
      later == {j \in DOMAIN nodes : j > here /\ nodes[j].bucket = nodes[here].bucket}
  IN  IF later = {} THEN none ELSE nodes[Min(later)].key

\* The first bucket behind b that is not empty, or 0, and its first node.
NextBucket(nodes, b) ==
  LET later == {nodes[i].bucket : i \in DOMAIN nodes} \ 0 .. b
  IN  IF later = {} THEN 0 ELSE Min(later)

FirstIn(nodes, b) == nodes[Min({i \in DOMAIN nodes : nodes[i].bucket = b})].key
===============================================================================
