------------------------------- MODULE MapChains -------------------------------
(***************************************************************************)
(* Insertion into the hash map of util/map.c with the loops the code has,  *)
(* over buckets: a sequence of chains, each a sequence of keys.            *)
(***************************************************************************)
EXTENDS Naturals, Sequences, SequencesExt

LOCAL Index(hash, key, n) == (hash[key] % n) + 1

AddNode(hash, buckets, key) ==
  [buckets EXCEPT ![Index(hash, key, Len(buckets))] = <<key>> \o @]

\* map_resize chains all nodes together, from the last bucket to the first,
\* each one before the last one taken, and adds them again in that order.
Resized(hash, buckets, n) ==
  LET chained == Reverse(FlattenSeq(Reverse(buckets)))
  IN  FoldLeft(LAMBDA bs, key : AddNode(hash, bs, key), [k \in 1 .. n |-> <<>>], chained)

\* map_set with a key that is new.
SetNew(hash, buckets, key) ==
  LET n == Len(buckets)
  IN  AddNode(hash,
        IF Len(FlattenSeq(buckets)) < n THEN buckets
        ELSE Resized(hash, buckets, IF n = 0 THEN 1 ELSE 2 * n), key)

\* The buckets after some keys were added to an empty map.
Filled(hash, keys) == FoldLeft(LAMBDA bs, key : SetNew(hash, bs, key), <<>>, keys)
===============================================================================
