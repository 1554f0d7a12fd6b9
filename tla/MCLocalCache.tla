---------------------------- MODULE MCLocalCache ----------------------------
(* Instances of LocalCache for TLC. *)
EXTENDS LocalCache, TLC

CONSTANTS i1, i2, i3

\* Instances are interchangeable: the order of the cache is chosen among all.
Symmetry == Permutations(Instances)

Chains == INSTANCE MapChains

\* map_set with a key that is new, all steps of it.
SetNew(h, ns, n, key) ==
  LET m == Grown(ns, n)
  IN  AddNode(h, IF m = n THEN ns ELSE Resized(h, ns, m), m, key)

RECURSIVE NodesOf(_, _), SizeOf(_, _)
SizeOf(h, k) == IF k = 0 THEN 0 ELSE Grown(NodesOf(h, k - 1), SizeOf(h, k - 1))
NodesOf(h, k) ==
  IF k = 0 THEN <<>> ELSE SetNew(h, NodesOf(h, k - 1), SizeOf(h, k - 1), k)

\* The nodes of HashMap are those of the chains that the loops of map_resize
\* and map_set leave: shown for five keys added one by one, whatever the hashes.
ASSUME NodesAreChains ==
  \A h \in [1 .. 5 -> 0 .. 5] :
    Chains!Filled(h, <<1, 2, 3, 4, 5>>) =
      [b \in 1 .. SizeOf(h, 5) |->
         LET chain == SelectSeq(NodesOf(h, 5), LAMBDA node : node.bucket = b)
         IN  [i \in DOMAIN chain |-> chain[i].key]]
=============================================================================
