---------------------------- MODULE LocalCacheProofs ----------------------------
(***************************************************************************)
(* What holds of the cache of instances, for any number of instances, any  *)
(* hashes and any time-out, while the two threads do not overlap.          *)
(***************************************************************************)
EXTENDS LocalCache, SequenceTheorems, FiniteSetTheorems, FunctionTheorems,
        WellFoundedInduction, TLAPS

NodeRecs(n) == [key : Instances, bucket : 1 .. n]

\* Every node is in the bucket of its hash, and no two have the same key.
IsMap(ns, n) ==
  /\ n \in Nat
  /\ ns \in Seq(NodeRecs(n))
  /\ \A i \in DOMAIN ns : ns[i] = Node(hash, ns[i].key, n)
  /\ \A i, j \in DOMAIN ns : ns[i].key = ns[j].key => i = j

MapInv ==
  /\ hash \in [Instances -> Hashes]
  /\ IsMap(nodes, nbuckets)
  /\ adding \in Instances \cup {Null}
  /\ adding # Null => adding \notin Cached
  /\ rstep \in {"no", "read", "counted", "resize", "resized"}
  /\ rstep = "no" <=> adding = Null
  /\ IF rstep = "resize"
     THEN nodes = <<>> /\ nbuckets > 0 /\ adding \notin Keys(out) /\ \E n \in Nat : IsMap(out, n)
     ELSE out = <<>>
  /\ rstep = "resized" => nbuckets > 0

-----------------------------------------------------------------------------
LEMMA LeastIs ==
  ASSUME NEW S, S \subseteq Nat, S # {}
  PROVE  Min(S) \in S /\ \A y \in S : Min(S) <= y
<1> DEFINE R == OpToRel(<, Nat)
<1>1. IsWellFoundedOn(R, Nat)
  BY NatLessThanWellFounded
<1>2. \A x, y \in Nat : <<y, x>> \in R <=> y < x
  BY DEF OpToRel
<1> HIDE DEF R
<1>3. PICK x \in S : \A y \in S : ~(<<y, x>> \in R)
  BY <1>1, WFMin
<1>4. ASSUME NEW y \in S
      PROVE  x <= y
  <2>1. x \in Nat /\ y \in Nat
    OBVIOUS
  <2>2. ~(y < x)
    BY <1>2, <1>3, <2>1
  <2> QED
    BY <2>1, <2>2
<1>5. \E i \in S : \A j \in S : i <= j
  BY <1>4
<1> QED
  BY <1>5 DEF Min

\* What the nodes of a map are.
LEMMA NodesAre ==
  ASSUME NEW ns, NEW n, IsMap(ns, n)
  PROVE  /\ n \in Nat /\ Len(ns) \in Nat /\ DOMAIN ns = 1 .. Len(ns)
         /\ \A i \in DOMAIN ns : /\ i \in Nat /\ i <= Len(ns)
                                 /\ ns[i] \in NodeRecs(n)
                                 /\ ns[i].key \in Instances
                                 /\ ns[i].bucket \in Nat /\ ns[i].bucket > 0
<1> DEFINE T == NodeRecs(n)
<1>1. ns \in Seq(T) /\ n \in Nat
  BY DEF IsMap
<1>2. \A t \in T : t.key \in Instances /\ t.bucket \in Nat /\ t.bucket > 0
  BY <1>1 DEF NodeRecs
<1> HIDE DEF T
<1>3. Len(ns) \in Nat /\ DOMAIN ns = 1 .. Len(ns)
  BY <1>1
<1>4. \A i \in 1 .. Len(ns) : ns[i] \in T
  BY <1>1, ElementOfSeq
<1>5. \A i \in 1 .. Len(ns) : i \in Nat /\ i <= Len(ns)
  BY <1>3
<1> QED
  BY <1>1, <1>2, <1>3, <1>4, <1>5 DEF T

\* The bucket of a key is one of those that there are.
LEMMA IndexIs ==
  ASSUME hash \in [Instances -> Hashes], NEW key \in Instances, NEW n \in Nat \ {0}
  PROVE  /\ Index(hash, key, n) \in 1 .. n
         /\ Node(hash, key, n) \in NodeRecs(n)
         /\ Node(hash, key, n).key = key
<1>1. hash[key] \in Nat
  BY CacheAssumption
<1>2. hash[key] % n \in 0 .. n - 1
  BY <1>1
<1>3. Index(hash, key, n) \in 1 .. n
  BY <1>2 DEF Index
<1> QED
  BY <1>3 DEF Node, NodeRecs

\* map_resize gives every node another bucket, ...
LEMMA ResizedIs ==
  ASSUME hash \in [Instances -> Hashes], NEW ns, NEW n, IsMap(ns, n), NEW m \in Nat \ {0}
  PROVE  LET new == Resized(hash, ns, m)
         IN  IsMap(new, m) /\ Len(new) = Len(ns) /\ Keys(new) = Keys(ns)
<1> PICK new : new = Resized(hash, ns, m)
  OBVIOUS
<1>1. Len(ns) \in Nat /\ DOMAIN ns = 1 .. Len(ns) /\ \A i \in DOMAIN ns : ns[i].key \in Instances
  BY NodesAre
<1>2. new = [i \in 1 .. Len(ns) |-> Node(hash, ns[i].key, m)]
  BY <1>1 DEF Resized
<1>3. \A i \in DOMAIN ns : Node(hash, ns[i].key, m) \in NodeRecs(m)
                          /\ Node(hash, ns[i].key, m).key = ns[i].key
  BY <1>1, IndexIs
<1>4. new \in Seq(NodeRecs(m)) /\ Len(new) = Len(ns) /\ DOMAIN new = DOMAIN ns
  BY <1>1, <1>2, <1>3
<1>5. \A i \in DOMAIN ns : new[i] = Node(hash, ns[i].key, m) /\ new[i].key = ns[i].key
  BY <1>1, <1>2, <1>3
<1>6. \A i \in DOMAIN new : new[i] = Node(hash, new[i].key, m)
  BY <1>4, <1>5
<1>7. \A i, j \in DOMAIN new : new[i].key = new[j].key => i = j
  BY <1>4, <1>5 DEF IsMap
<1>8. Keys(new) = Keys(ns)
  BY <1>4, <1>5 DEF Keys
<1> QED
  BY <1>4, <1>6, <1>7, <1>8 DEF IsMap

\* ... and map_addnode puts a new node before the others, which keep their keys.
LEMMA AddNodeIs ==
  ASSUME hash \in [Instances -> Hashes], NEW old, NEW m, IsMap(old, m), m > 0,
         NEW key \in Instances, key \notin Keys(old)
  PROVE  LET new == AddNode(hash, old, m, key)
         IN  /\ IsMap(new, m)
             /\ Len(new) = Len(old) + 1
             /\ Keys(new) = Keys(old) \cup {key}
<1>1. m \in Nat \ {0} /\ Len(old) \in Nat /\ DOMAIN old = 1 .. Len(old)
  BY NodesAre
<1>2. \A i \in DOMAIN old : old[i] = Node(hash, old[i].key, m)
  BY DEF IsMap
<1>4. old \in Seq(NodeRecs(m))
  BY DEF IsMap
<1> PICK first : first = Node(hash, key, m)
  OBVIOUS
<1>5. first \in NodeRecs(m) /\ first.key = key
  BY <1>1, IndexIs
<1> PICK one : one = <<first>>
  OBVIOUS
<1>12. one \in Seq(NodeRecs(m)) /\ Len(one) = 1 /\ one[1] = first
  BY <1>5
<1> PICK new : new = one \o old
  OBVIOUS
<1>13. AddNode(hash, old, m, key) = new
  BY DEF AddNode
<1>14. /\ new \in Seq(NodeRecs(m))
       /\ Len(new) = Len(one) + Len(old)
       /\ \A i \in 1 .. Len(one) + Len(old) :
            new[i] = IF i <= Len(one) THEN one[i] ELSE old[i - Len(one)]
  <2>1. one \in Seq(NodeRecs(m)) /\ old \in Seq(NodeRecs(m))
    BY <1>4, <1>12
  <2> QED
    BY <2>1, ConcatProperties
<1>6. /\ new \in Seq(NodeRecs(m))
      /\ Len(new) = Len(old) + 1
      /\ new[1] = first
      /\ 1 \in DOMAIN new
      /\ \A i \in DOMAIN old : i + 1 \in DOMAIN new /\ new[i + 1] = old[i]
      /\ \A i \in DOMAIN new : i = 1 \/ (i - 1 \in DOMAIN old /\ new[i] = old[i - 1])
  <2>1. DOMAIN new = 1 .. 1 + Len(old)
    BY <1>1, <1>4, <1>12, <1>14
  <2>2. \A i \in 1 .. 1 + Len(old) : new[i] = IF i <= 1 THEN one[i] ELSE old[i - 1]
    BY <1>4, <1>12, <1>14
  <2>3. Len(new) = Len(old) + 1
    BY <1>1, <1>4, <1>12, <1>14
  <2> QED
    BY ONLY <1>1, <1>12, <1>14, <2>1, <2>2, <2>3
<1>8. \A i \in DOMAIN new : new[i] = Node(hash, new[i].key, m)
  BY <1>2, <1>5, <1>6
<1>9. \A i, j \in DOMAIN new : new[i].key = new[j].key => i = j
  <2> SUFFICES ASSUME NEW i \in DOMAIN new, NEW j \in DOMAIN new, new[i].key = new[j].key
               PROVE  i = j
    OBVIOUS
  <2>1. \A k \in DOMAIN old : old[k].key # key
    BY DEF Keys
  <2>2. i = 1 => j = 1
    BY <1>5, <1>6, <2>1
  <2>3. j = 1 => i = 1
    BY <1>5, <1>6, <2>1
  <2>4. CASE i # 1 /\ j # 1
    <3>1. /\ i - 1 \in DOMAIN old /\ j - 1 \in DOMAIN old
          /\ old[i - 1].key = old[j - 1].key
      BY <1>6, <2>4
    <3>2. i - 1 = j - 1
      BY <3>1 DEF IsMap
    <3> QED
      BY <1>6, <3>2
  <2> QED
    BY <2>2, <2>3, <2>4
<1>10. Keys(new) = Keys(old) \cup {key}
  <2>2. \A x \in Keys(new) : x \in Keys(old) \cup {key}
    <3> SUFFICES ASSUME NEW i \in DOMAIN new
                 PROVE  new[i].key \in Keys(old) \cup {key}
      BY DEF Keys
    <3>1. CASE i = 1
      BY <1>5, <1>6, <3>1
    <3>2. CASE i # 1
      <4>1. i - 1 \in DOMAIN old /\ new[i] = old[i - 1]
        BY <1>6, <3>2
      <4>2. new[i].key = old[i - 1].key
        BY <4>1
      <4> QED
        BY <4>1, <4>2 DEF Keys
    <3> QED
      BY <3>1, <3>2
  <2>3. \A x \in Keys(old) \cup {key} : x \in Keys(new)
    <3>1. new[1].key = key /\ \A i \in DOMAIN old : new[i + 1].key = old[i].key
      BY <1>5, <1>6
    <3> QED
      BY ONLY <1>6, <3>1 DEF Keys
  <2> QED
    BY <2>2, <2>3
<1> QED
  BY <1>1, <1>6, <1>8, <1>9, <1>10, <1>13 DEF IsMap

\* Where the elements behind place p of n come from when that is taken out.
LEMMA Shifted ==
  ASSUME NEW n \in Nat, NEW p \in 1 .. n, NEW i \in 1 .. n - 1
  PROVE  /\ i \in 1 .. (p - 1) + (n - p)
         /\ i < p => i \in 1 .. p - 1 /\ i <= p - 1
         /\ ~(i < p) => /\ ~(i <= p - 1)
                       /\ i - (p - 1) \in 1 .. n - p
                       /\ (i - (p - 1)) + p = i + 1
  OBVIOUS

\* A sequence without its element p.
LEMMA RemoveAtIs ==
  ASSUME NEW T, NEW s \in Seq(T), NEW p \in DOMAIN s
  PROVE  LET r == RemoveAt(s, p) IN
         /\ r \in Seq(T)
         /\ Len(r) = Len(s) - 1
         /\ \A i \in DOMAIN r : r[i] = IF i < p THEN s[i] ELSE s[i + 1]
         /\ \A i \in DOMAIN s : i < p => i \in DOMAIN r /\ r[i] = s[i]
         /\ \A i \in DOMAIN s : i > p => i - 1 \in DOMAIN r /\ r[i - 1] = s[i]
<1> DEFINE a == SubSeq(s, 1, p - 1)
           b == SubSeq(s, p + 1, Len(s))
           r == RemoveAt(s, p)
<1>1. p \in 1 .. Len(s) /\ Len(s) \in Nat
  OBVIOUS
<1>2. a \in Seq(T) /\ Len(a) = p - 1 /\ \A i \in 1 .. p - 1 : a[i] = s[i]
  BY <1>1
<1>3. b \in Seq(T) /\ Len(b) = Len(s) - p /\ \A i \in 1 .. Len(s) - p : b[i] = s[i + p]
  BY <1>1
<1>4. r = a \o b
  BY DEF RemoveAt
<1> HIDE DEF a, b, r
<1>5. /\ r \in Seq(T) /\ Len(r) = Len(a) + Len(b)
      /\ \A i \in 1 .. Len(a) + Len(b) : r[i] = IF i <= Len(a) THEN a[i] ELSE b[i - Len(a)]
  BY <1>2, <1>3, <1>4, ConcatProperties
<1>6. Len(r) = Len(s) - 1
  BY <1>1, <1>2, <1>3, <1>5
<1>7. \A i \in 1 .. Len(s) - 1 : r[i] = IF i < p THEN s[i] ELSE s[i + 1]
  <2> SUFFICES ASSUME NEW i \in 1 .. Len(s) - 1
               PROVE  r[i] = IF i < p THEN s[i] ELSE s[i + 1]
    OBVIOUS
  <2>1. /\ i \in 1 .. Len(a) + Len(b)
        /\ i < p => i \in 1 .. p - 1 /\ i <= Len(a)
        /\ ~(i < p) => /\ ~(i <= Len(a))
                      /\ i - Len(a) \in 1 .. Len(s) - p
                      /\ (i - Len(a)) + p = i + 1
    BY <1>1, <1>2, <1>3, Shifted, Zenon
  <2>2. r[i] = IF i <= Len(a) THEN a[i] ELSE b[i - Len(a)]
    BY <1>5, <2>1, Zenon
  <2> QED
    BY <1>2, <1>3, <2>1, <2>2, Zenon
<1>8. DOMAIN r = 1 .. Len(s) - 1 /\ DOMAIN s = 1 .. Len(s)
  BY <1>5, <1>6
<1>9. \A i \in DOMAIN s : i < p => i \in DOMAIN r /\ r[i] = s[i]
  BY ONLY <1>1, <1>7, <1>8
<1>10. \A i \in DOMAIN s : i > p => i - 1 \in DOMAIN r /\ r[i - 1] = s[i]
  BY ONLY <1>1, <1>7, <1>8
<1> QED
  BY <1>5, <1>6, <1>7, <1>8, <1>9, <1>10 DEF r

\* map_remove takes out the node with the key.
LEMMA RemovedIs ==
  ASSUME NEW ns, NEW n, IsMap(ns, n), NEW p \in DOMAIN ns
  PROVE  LET r == Removed(hash, ns, n, ns[p].key) IN
         /\ r = RemoveAt(ns, p)
         /\ IsMap(r, n)
         /\ Len(r) = Len(ns) - 1
         /\ Keys(r) = Keys(ns) \ {ns[p].key}
<1>1. Found(hash, ns, n, ns[p].key) = {p}
  <2>1. ns[p] = Node(hash, ns[p].key, n)
    BY DEF IsMap
  <2>2. \A i \in DOMAIN ns : ns[i] = ns[p] => i = p
    BY DEF IsMap
  <2> QED
    BY <2>1, <2>2 DEF Found
<1>2. p \in Nat /\ DOMAIN ns \subseteq Nat
  BY DEF IsMap
<1>3. Min({p}) = p
  BY <1>2, LeastIs
<1> PICK r : r = RemoveAt(ns, p)
  OBVIOUS
<1>4. Removed(hash, ns, n, ns[p].key) = r
  BY <1>1, <1>3 DEF Removed, Holds
<1>5. /\ r \in Seq(NodeRecs(n))
      /\ Len(r) = Len(ns) - 1
      /\ \A i \in DOMAIN r : r[i] = IF i < p THEN ns[i] ELSE ns[i + 1]
      /\ \A i \in DOMAIN ns : i < p => i \in DOMAIN r /\ r[i] = ns[i]
      /\ \A i \in DOMAIN ns : i > p => i - 1 \in DOMAIN r /\ r[i - 1] = ns[i]
  <2>1. ns \in Seq(NodeRecs(n))
    BY DEF IsMap
  <2> QED
    BY <2>1, RemoveAtIs
<1> PICK from : from = [i \in DOMAIN r |-> IF i < p THEN i ELSE i + 1]
  OBVIOUS
<1>6. /\ \A i \in DOMAIN r : from[i] \in DOMAIN ns /\ from[i] # p /\ r[i] = ns[from[i]]
      /\ \A i, j \in DOMAIN r : from[i] = from[j] => i = j
  <2>1. DOMAIN r = 1 .. Len(ns) - 1 /\ DOMAIN ns = 1 .. Len(ns) /\ Len(ns) \in Nat
    BY <1>5 DEF IsMap
  <2> QED
    BY <1>2, <1>5, <2>1
<1>7. \A i \in DOMAIN r : r[i] = Node(hash, r[i].key, n)
  BY <1>6 DEF IsMap
<1>8. \A i, j \in DOMAIN r : r[i].key = r[j].key => i = j
  BY <1>6 DEF IsMap
<1>9. Keys(r) = Keys(ns) \ {ns[p].key}
  <2>1. \A x \in Keys(r) : x \in Keys(ns) \ {ns[p].key}
    BY <1>6 DEF Keys, IsMap
  <2>2. \A x \in Keys(ns) \ {ns[p].key} : x \in Keys(r)
    <3> SUFFICES ASSUME NEW i \in DOMAIN ns, i # p
                 PROVE  ns[i].key \in Keys(r)
      BY DEF Keys
    <3>1. i < p \/ i > p
      BY <1>2
    <3> QED
      BY <1>5, <3>1 DEF Keys
  <2> QED
    BY <2>1, <2>2
<1> QED
  BY <1>4, <1>5, <1>7, <1>8, <1>9 DEF IsMap

\* There are n numbers up to n.
LEMMA UpTo ==
  ASSUME NEW n \in Nat
  PROVE  /\ IsFiniteSet(1 .. n) /\ Cardinality(1 .. n) = n
         /\ IsFiniteSet(0 .. n - 1) /\ Cardinality(0 .. n - 1) = n
<1>1. 0 \in Int /\ 1 \in Int /\ n \in Int /\ n - 1 \in Int
  OBVIOUS
<1>2. IsFiniteSet(1 .. n) /\ Cardinality(1 .. n) = IF 1 > n THEN 0 ELSE n - 1 + 1
  BY <1>1, FS_Interval
<1>3. IsFiniteSet(0 .. n - 1)
      /\ Cardinality(0 .. n - 1) = IF 0 > n - 1 THEN 0 ELSE (n - 1) - 0 + 1
  BY <1>1, FS_Interval
<1>4. (IF 1 > n THEN 0 ELSE n - 1 + 1) = n /\ (IF 0 > n - 1 THEN 0 ELSE (n - 1) - 0 + 1) = n
  OBVIOUS
<1> QED
  BY <1>2, <1>3, <1>4

\* There are as many keys as nodes, and not more than instances.
LEMMA KeysAreCounted ==
  ASSUME NEW ns, NEW n, IsMap(ns, n)
  PROVE  /\ Keys(ns) \subseteq Instances
         /\ Cardinality(Keys(ns)) = Len(ns)
         /\ Len(ns) <= Cardinality(Instances)
         /\ Cardinality(Instances) \in Nat \ {0}
<1>1. Keys(ns) \subseteq Instances
  BY NodesAre DEF Keys
<1>2. DOMAIN ns = 1 .. Len(ns) /\ Len(ns) \in Nat
  BY NodesAre
<1>3. IsFiniteSet(1 .. Len(ns)) /\ Cardinality(1 .. Len(ns)) = Len(ns)
  BY <1>2, UpTo
<1> DEFINE f == [i \in 1 .. Len(ns) |-> ns[i].key]
<1>4. f \in Bijection(1 .. Len(ns), Keys(ns))
  <2>1. f \in [1 .. Len(ns) -> Keys(ns)]
    BY <1>2 DEF Keys
  <2>2. \A i, j \in 1 .. Len(ns) : f[i] = f[j] => i = j
    BY <1>2 DEF IsMap
  <2>3. \A x \in Keys(ns) : \E i \in 1 .. Len(ns) : f[i] = x
    BY <1>2 DEF Keys
  <2> HIDE DEF f
  <2> QED
    BY <2>1, <2>2, <2>3, Fun_IsBij
<1>5. Cardinality(Keys(ns)) = Len(ns)
  <2> HIDE DEF f
  <2>1. ExistsBijection(1 .. Len(ns), Keys(ns))
    BY <1>4 DEF ExistsBijection
  <2> QED
    BY <1>3, <2>1, FS_Bijection
<1>6. Cardinality(Keys(ns)) <= Cardinality(Instances)
  BY <1>1, CacheAssumption, FS_Subset
<1>7. Cardinality(Instances) \in Nat /\ Cardinality(Instances) # 0
  BY CacheAssumption, FS_CardinalityType, FS_EmptySet
<1> QED
  BY <1>1, <1>5, <1>6, <1>7

\* An iteration comes to every node, and to each at another position.
LEMMA PositionsAreAll ==
  ASSUME NEW ns, NEW n, IsMap(ns, n)
  PROVE  /\ \A k \in 0 .. Len(ns) - 1 : \E j \in DOMAIN ns : Position(ns, j) = k
         /\ \A i, j \in DOMAIN ns : Position(ns, i) = Position(ns, j) => i = j
         /\ \A j \in DOMAIN ns : Position(ns, j) \in 0 .. Len(ns) - 1
<1> DEFINE D == DOMAIN ns
           Earlier(j) == {i \in D : Before(ns, i, j)}
           f == [j \in D |-> Position(ns, j)]
<1>1. D = 1 .. Len(ns) /\ Len(ns) \in Nat
  BY NodesAre
<1>2. IsFiniteSet(D) /\ Cardinality(D) = Len(ns)
  BY <1>1, UpTo
<1>3. \A i \in D : ns[i].bucket \in Nat /\ i \in Nat
  BY NodesAre
<1>4. \A j \in D : /\ IsFiniteSet(Earlier(j))
                   /\ Position(ns, j) = Cardinality(Earlier(j))
                   /\ Position(ns, j) \in Nat
  BY <1>2, FS_Subset, FS_CardinalityType DEF Position
<1>5. ASSUME NEW i \in D, NEW j \in D, Before(ns, i, j)
      PROVE  Position(ns, i) < Position(ns, j)
  <2>1. Earlier(i) \subseteq Earlier(j)
    BY <1>1, <1>3, <1>5 DEF Before
  <2>2. i \in Earlier(j) /\ i \notin Earlier(i)
    BY <1>1, <1>3, <1>5 DEF Before
  <2>3. Cardinality(Earlier(i)) <= Cardinality(Earlier(j))
        /\ Cardinality(Earlier(i)) # Cardinality(Earlier(j))
    <3>1. Earlier(i) \in SUBSET Earlier(j) /\ Earlier(i) # Earlier(j)
      BY <2>1, <2>2
    <3> HIDE DEF Earlier
    <3> QED
      BY <1>4, <3>1, FS_Subset
  <2>4. \A x, y \in Nat : x <= y /\ x # y => x < y
    OBVIOUS
  <2> HIDE DEF Earlier
  <2> QED
    BY <1>4, <2>3, <2>4
<1>6. \A i, j \in D : Position(ns, i) = Position(ns, j) => i = j
  <2> SUFFICES ASSUME NEW i \in D, NEW j \in D, i # j
               PROVE  Position(ns, i) # Position(ns, j)
    OBVIOUS
  <2>1. Before(ns, i, j) \/ Before(ns, j, i)
    BY <1>1, <1>3 DEF Before
  <2>2. Position(ns, i) \in Nat /\ Position(ns, j) \in Nat
    BY <1>4
  <2>3. Position(ns, i) < Position(ns, j) \/ Position(ns, j) < Position(ns, i)
    BY <1>5, <2>1
  <2> QED
    BY <2>2, <2>3
<1>7. \A j \in D : Position(ns, j) \in 0 .. Len(ns) - 1
  <2> TAKE j \in D
  <2>1. Earlier(j) \subseteq D /\ j \notin Earlier(j)
    BY <1>1, <1>3 DEF Before
  <2>2. Cardinality(Earlier(j)) <= Len(ns) /\ Cardinality(Earlier(j)) # Len(ns)
    <3>1. Earlier(j) \in SUBSET D /\ Earlier(j) # D
      BY <2>1
    <3> HIDE DEF Earlier, D
    <3> QED
      BY <1>2, <3>1, FS_Subset
  <2>3. \A x, y \in Nat : x <= y /\ x # y => x \in 0 .. y - 1
    OBVIOUS
  <2> HIDE DEF Earlier
  <2> QED
    BY <1>1, <1>4, <2>2, <2>3
<1>8. \A k \in 0 .. Len(ns) - 1 : \E j \in D : Position(ns, j) = k
  <2>1. f \in [D -> 0 .. Len(ns) - 1] /\ \A i, j \in D : f[i] = f[j] => i = j
    BY <1>6, <1>7
  <2>2. \A j \in D : f[j] = Position(ns, j)
    OBVIOUS
  <2> PICK m : m = 0 .. Len(ns) - 1
    OBVIOUS
  <2>3. IsFiniteSet(m) /\ Cardinality(m) = Len(ns)
    BY <1>1, UpTo
  <2> HIDE DEF f
  <2>4. f \in Injection(D, m)
    BY <2>1, Fun_IsInj
  <2>5. f \in Surjection(D, m)
    BY <1>2, <2>3, <2>4, FS_Injection
  <2>6. \A k \in m : \E j \in D : f[j] = k
    BY <2>5 DEF Surjection
  <2> QED
    BY <2>2, <2>6
<1> QED
  BY <1>6, <1>7, <1>8

\* The keys at the positions below the length are those of the map, and differ.
LEMMA KeyAtIs ==
  ASSUME NEW ns, NEW n, IsMap(ns, n)
  PROVE  /\ \A k \in 0 .. Len(ns) - 1 : KeyAt(ns, k) \in Keys(ns)
         /\ \A k, l \in 0 .. Len(ns) - 1 : KeyAt(ns, k) = KeyAt(ns, l) => k = l
         /\ \A x \in Keys(ns) : \E k \in 0 .. Len(ns) - 1 : KeyAt(ns, k) = x
<1> DEFINE at(k) == CHOOSE j \in DOMAIN ns : Position(ns, j) = k
<1>1. \A k \in 0 .. Len(ns) - 1 : at(k) \in DOMAIN ns /\ Position(ns, at(k)) = k
  BY PositionsAreAll
<1>2. \A k : KeyAt(ns, k) = ns[at(k)].key
  BY DEF KeyAt
<1> HIDE DEF at
<1>3. \A j \in DOMAIN ns : Position(ns, j) \in 0 .. Len(ns) - 1 /\ at(Position(ns, j)) = j
  BY <1>1, PositionsAreAll
<1>4. \A k \in 0 .. Len(ns) - 1 : KeyAt(ns, k) \in Keys(ns)
  BY <1>1, <1>2 DEF Keys
<1>5. \A k, l \in 0 .. Len(ns) - 1 : KeyAt(ns, k) = KeyAt(ns, l) => k = l
  BY <1>1, <1>2 DEF IsMap
<1>6. \A x \in Keys(ns) : \E k \in 0 .. Len(ns) - 1 : KeyAt(ns, k) = x
  BY <1>2, <1>3 DEF Keys
<1> QED
  BY <1>4, <1>5, <1>6

-----------------------------------------------------------------------------
LEMMA MapInvInit == Init => MapInv
<1> SUFFICES ASSUME Init
             PROVE  MapInv
  OBVIOUS
<1>1. IsMap(nodes, nbuckets)
  BY DEF Init, IsMap
<1> QED
  BY <1>1 DEF Init, MapInv

\* What is being added is not there, so that it is put into the map.
LEMMA AdditionIs ==
  ASSUME MapInv, AddEnd
  PROVE  /\ IsMap(nodes', nbuckets')
         /\ nodes' # <<>> /\ Len(nodes') = Len(nodes) + 1
         /\ nbuckets' = nbuckets
         /\ adding \in Instances /\ out = <<>>
<1>1. adding \in Instances /\ adding \notin Keys(nodes) /\ out = <<>>
  BY DEF AddEnd, MapInv, Cached
<1>2. ~Cache(adding)
  BY <1>1 DEF Cache, Holds, Found, Keys, Node
<1>3. nodes' = AddNode(hash, nodes, nbuckets, adding) /\ nbuckets' = nbuckets
  BY <1>2 DEF AddEnd
<1>4. Len(nodes) \in Nat /\ nbuckets \in Nat
  BY NodesAre DEF MapInv
<1>5. nbuckets > 0
  <2>1. rstep = "counted" => Len(nodes) < nbuckets
    BY <1>2 DEF AddEnd
  <2> QED
    BY <1>4, <2>1 DEF AddEnd, MapInv
<1>6. IsMap(nodes', nbuckets') /\ Len(nodes') = Len(nodes) + 1
  BY <1>1, <1>3, <1>5, AddNodeIs DEF MapInv
<1>7. nodes' # <<>>
  <2>1. Len(<<>>) = 0
    OBVIOUS
  <2> QED
    BY <1>4, <1>6, <2>1
<1> QED
  BY <1>1, <1>3, <1>6, <1>7

\* The nodes that are taken out are put back, into more buckets.
LEMMA TakeOutIs ==
  ASSUME MapInv, TakeOut
  PROVE  /\ IsMap(nodes', nbuckets') /\ nodes' = <<>> /\ Len(nodes') = 0
         /\ nbuckets' \in Nat /\ nbuckets' > 0 /\ nbuckets' >= nbuckets
         /\ out = <<>> /\ out' = nodes
<1>1. nodes' = <<>> /\ nbuckets' = Grown(nodes, nbuckets) /\ out' = nodes
  BY DEF TakeOut
<1>2. Len(nodes) \in Nat /\ nbuckets \in Nat
  BY NodesAre DEF MapInv
<1>3. nbuckets' \in Nat /\ nbuckets' > 0 /\ nbuckets' >= nbuckets
  BY <1>1, <1>2 DEF Grown
<1>4. IsMap(nodes', nbuckets') /\ Len(nodes') = 0
  BY <1>1, <1>3 DEF IsMap
<1> QED
  BY <1>1, <1>3, <1>4 DEF TakeOut, MapInv

LEMMA PutBackIs ==
  ASSUME MapInv, PutBack
  PROVE  /\ IsMap(nodes', nbuckets) /\ Len(nodes') = Len(out) /\ Keys(nodes') = Keys(out)
         /\ nbuckets' = nbuckets /\ nbuckets > 0 /\ nodes = <<>> /\ Len(nodes) = 0
         /\ Len(out) \in Nat
<1>1. nodes' = Resized(hash, out, nbuckets) /\ nbuckets' = nbuckets /\ rstep = "resize"
  BY DEF PutBack
<1>2. PICK n \in Nat : IsMap(out, n)
  BY <1>1 DEF MapInv
<1>3. nbuckets \in Nat \ {0} /\ nodes = <<>> /\ nbuckets > 0
  BY <1>1, NodesAre DEF MapInv
<1>4. Len(out) \in Nat
  BY <1>2, NodesAre
<1>5. IsMap(nodes', nbuckets) /\ Len(nodes') = Len(out) /\ Keys(nodes') = Keys(out)
  BY <1>1, <1>2, <1>3, ResizedIs DEF MapInv
<1> QED
  BY <1>1, <1>3, <1>4, <1>5

\* Only an addition and a removal change the map, and each keeps it one.
LEMMA MapInvStep == MapInv /\ [Next]_vars => MapInv'
<1> SUFFICES ASSUME MapInv, [Next]_vars
             PROVE  MapInv'
  OBVIOUS
<1> USE DEF cache, recv, caller
<1>1. CASE /\ UNCHANGED <<hash, nodes, nbuckets, adding, out>>
           /\ rstep' = rstep \/ (rstep = "read" /\ rstep' = "counted")
  BY <1>1 DEF MapInv, IsMap, Node, Index, Cached, Keys
<1>2. ASSUME NEW i \in Instances, AddBegin(i)
      PROVE  MapInv'
  <2>1. i \notin Cached
    BY <1>2 DEF AddBegin, Cache, Holds, Found, Cached, Keys, MapInv, IsMap
  <2>2. /\ UNCHANGED <<hash, nodes, nbuckets, out>> /\ adding' = i /\ i # Null
        /\ rstep' = "read" /\ adding = Null
    BY <1>2, CacheAssumption DEF AddBegin
  <2> QED
    BY <2>1, <2>2 DEF MapInv, IsMap, Node, Index, Cached, Keys
<1>3. CASE AddEnd
  <2>1. hash' = hash /\ adding' = Null /\ rstep' = "no" /\ out' = out
    BY <1>3 DEF AddEnd
  <2>2. IsMap(nodes', nbuckets') /\ out = <<>>
    BY <1>3, AdditionIs
  <2> QED
    BY <2>1, <2>2 DEF MapInv, IsMap, Node, Index
<1>5. CASE TakeOut
  <2>1. hash' = hash /\ adding' = adding /\ rstep = "counted" /\ rstep' = "resize"
    BY <1>5 DEF TakeOut
  <2>2. /\ IsMap(nodes', nbuckets') /\ nodes' = <<>> /\ nbuckets' > 0
        /\ nbuckets \in Nat /\ out' = nodes
    BY <1>5, TakeOutIs, NodesAre DEF MapInv
  <2>3. adding \notin Keys(nodes) /\ adding \in Instances /\ IsMap(nodes, nbuckets)
    BY <2>1 DEF MapInv, Cached
  <2>4. Keys(out') = Keys(nodes) /\ Keys(nodes') = {}
    BY <2>2 DEF Keys
  <2>5. \E n \in Nat : IsMap(out', n)
    BY <2>2, <2>3
  <2>6. (\E n \in Nat : IsMap(out, n))'
    BY <2>1, <2>5 DEF IsMap, Node, Index
  <2>7. IsMap(nodes, nbuckets)'
    BY <2>1, <2>2 DEF IsMap, Node, Index
  <2>8. adding' \notin Keys(out)' /\ adding' \notin Cached'
    BY <2>1, <2>3, <2>4 DEF Keys, Cached
  <2> QED
    BY <2>1, <2>2, <2>3, <2>6, <2>7, <2>8 DEF MapInv
<1>6. CASE PutBack
  <2>1. /\ hash' = hash /\ adding' = adding /\ rstep = "resize" /\ rstep' = "resized"
        /\ out' = <<>>
    BY <1>6 DEF PutBack
  <2>2. /\ IsMap(nodes', nbuckets) /\ nbuckets' = nbuckets /\ nbuckets > 0
        /\ Keys(nodes') = Keys(out)
    BY <1>6, PutBackIs
  <2>3. adding \notin Keys(out) /\ adding \in Instances
    BY <2>1, CacheAssumption DEF MapInv
  <2>4. IsMap(nodes, nbuckets)'
    BY <2>1, <2>2 DEF IsMap, Node, Index
  <2>5. adding' \notin Cached'
    BY <2>1, <2>2, <2>3 DEF Keys, Cached
  <2> QED
    BY <2>1, <2>2, <2>3, <2>4, <2>5 DEF MapInv
<1>4. CASE RemoveInstance
  <2>1. UNCHANGED <<hash, nbuckets, recv>>
        /\ nodes' = Removed(hash, nodes, nbuckets, iter.node)
    BY <1>4 DEF RemoveInstance
  <2>2. IsMap(nodes', nbuckets) /\ Keys(nodes') \subseteq Keys(nodes)
    <3>1. CASE Holds(hash, nodes, nbuckets, iter.node)
      <4>1. PICK p \in DOMAIN nodes : nodes[p] = Node(hash, iter.node, nbuckets)
        BY <3>1 DEF Holds, Found
      <4>2. nodes[p].key = iter.node
        BY <4>1 DEF Node
      <4> QED
        BY <2>1, <4>2, RemovedIs DEF MapInv
    <3>2. CASE ~Holds(hash, nodes, nbuckets, iter.node)
      BY <2>1, <3>2 DEF Removed, MapInv
    <3> QED
      BY <3>1, <3>2
  <2>3. Keys(nodes)' = Keys(nodes')
    BY DEF Keys
  <2>4. nodes = <<>> => nodes' = <<>>
    BY <2>1 DEF Removed, Holds, Found
  <2> QED
    BY <2>1, <2>2, <2>3, <2>4 DEF MapInv, IsMap, Node, Index, Cached
<1> QED
  BY <1>1, <1>2, <1>3, <1>4, <1>5, <1>6
  DEF Next, vars, Tick, Receive, AddCount, Refresh, Ask, GetNone, Begin, Advance, KeepInstance,
      CountDown, EndSweep, ChooseRandom, ChooseNext

LEMMA CachedIsFound ==
  ASSUME MapInv
  PROVE  \A x \in Cached : Cache(x)
<1>1. \A i \in DOMAIN nodes : Cache(nodes[i].key)
  BY DEF Cache, Holds, Found, MapInv, IsMap
<1> QED
  BY <1>1 DEF Cached, Keys

(* A look-up finds whatever an iteration comes to, whatever the hashes and *)
(* however often the map grew and shrank, if the two threads do not        *)
(* overlap (map_set, map_resize, map_remove against map_getref).           *)
THEOREM LookUpIsRight ==
  ASSUME ~Overlap
  PROVE  Spec => []LookUpFindsAll
<1>1. MapInv => LookUpFindsAll
  BY CachedIsFound, KeysAreCounted DEF LookUpFindsAll, MapInv, Cached
<1> QED
  BY <1>1, MapInvInit, MapInvStep, PTL DEF Spec

-----------------------------------------------------------------------------
\* The total is that of the nodes, but for the two steps in which it changes.
CountInv ==
  /\ {total, rtotal, atotal} \subseteq Int
  /\ app # "removed" =>
       total = Len(nodes) + Len(out) + (IF rstep \in {"no", "read"} THEN 0 ELSE 1)
  /\ app = "removed" => atotal = Len(nodes) + 1
  /\ rstep # "no" => app = "idle"
  /\ rstep = "read" => rtotal = Len(nodes)
  /\ app = "choose" => nodes # <<>>
  /\ count \in 0 .. Cardinality(Instances) - 1

\* The removal takes out the node that the iteration stands on.
LEMMA RemovalIs ==
  ASSUME MapInv, RemoveInstance, iter.node \in Cached
  PROVE  \E p \in DOMAIN nodes :
           /\ nodes[p].key = iter.node
           /\ nodes' = RemoveAt(nodes, p)
           /\ IsMap(nodes', nbuckets)
           /\ Len(nodes') = Len(nodes) - 1
<1>1. PICK p \in DOMAIN nodes : nodes[p].key = iter.node
  BY DEF Cached, Keys
<1>2. nodes' = Removed(hash, nodes, nbuckets, nodes[p].key)
  BY <1>1 DEF RemoveInstance
<1> QED
  BY <1>1, <1>2, RemovedIs DEF MapInv

LEMMA CountInvInit == Init => CountInv
<1> SUFFICES ASSUME Init
             PROVE  CountInv
  OBVIOUS
<1>1. Cardinality(Instances) \in Nat \ {0}
  BY CacheAssumption, FS_CardinalityType, FS_EmptySet
<1> QED
  BY <1>1 DEF Init, CountInv

LEMMA CountInvStep ==
  ASSUME ~Overlap, MapInv, CountInv, app = "look" => iter.node \in Cached, [Next]_vars
  PROVE  CountInv'
<1> USE DEF cache, recv, caller
<1>1. Len(nodes) \in Nat /\ (nodes = <<>> <=> Len(nodes) = 0)
  <2>1. nodes \in Seq(NodeRecs(nbuckets))
    BY DEF MapInv, IsMap
  <2> QED
    BY <2>1, EmptySeq
<1>11. /\ rstep # "resize" => out = <<>> /\ Len(out) = 0
       /\ rstep \in {"no", "read", "counted", "resize", "resized"}
       /\ rstep = "no" <=> adding = Null
  <2>1. Len(<<>>) = 0
    OBVIOUS
  <2> QED
    BY <2>1 DEF MapInv
<1>2. CASE UNCHANGED <<cache, recv, app, atotal>>
  BY <1>2 DEF CountInv
<1>3. ASSUME NEW i \in Instances, AddBegin(i)
      PROVE  CountInv'
  <2>1. /\ adding = Null /\ app = "idle" /\ rtotal' = total /\ rstep' = "read"
        /\ UNCHANGED <<nodes, out, total, count, app, atotal>>
    BY <1>3 DEF AddBegin
  <2> QED
    BY <1>1, <1>11, <2>1 DEF CountInv
<1>12. CASE AddCount
  <2>1. /\ rstep = "read" /\ total' = rtotal + 1 /\ rtotal' = 0 /\ rstep' = "counted"
        /\ UNCHANGED <<nodes, out, count, app, atotal>>
    BY <1>12 DEF AddCount
  <2> QED
    BY <1>1, <1>11, <2>1 DEF CountInv
<1>13. CASE TakeOut
  <2>1. /\ rstep = "counted" /\ rstep' = "resize" /\ UNCHANGED <<total, rtotal, count, app, atotal>>
    BY <1>13 DEF TakeOut
  <2>2. Len(nodes') = 0 /\ out' = nodes /\ Len(out) = 0
    BY <1>13, <1>11, <2>1, TakeOutIs
  <2> QED
    BY <1>1, <2>1, <2>2 DEF CountInv
<1>14. CASE PutBack
  <2>1. /\ rstep = "resize" /\ rstep' = "resized" /\ UNCHANGED <<total, rtotal, count, app, atotal>>
        /\ out' = <<>> /\ Len(out') = 0
    BY <1>14 DEF PutBack
  <2>2. Len(nodes) = 0 /\ Len(nodes') = Len(out) /\ Len(out) \in Nat
    BY <1>14, PutBackIs
  <2> QED
    BY <2>1, <2>2 DEF CountInv
<1>4. CASE AddEnd
  <2>1. nodes' # <<>> /\ Len(nodes') = Len(nodes) + 1 /\ out = <<>>
    BY <1>4, AdditionIs
  <2>2. rstep \in {"counted", "resized"} /\ rstep' = "no" /\ app = "idle"
    BY <1>4 DEF AddEnd, CountInv
  <2>3. UNCHANGED <<total, rtotal, out, count, app, atotal>>
    BY <1>4 DEF AddEnd
  <2> QED
    BY <1>1, <1>11, <2>1, <2>2, <2>3 DEF CountInv
<1>5. CASE RemoveInstance
  <2>1. Len(nodes') = Len(nodes) - 1
    BY <1>5, RemovalIs DEF RemoveInstance
  <2>2. /\ app = "look" /\ app' = "removed" /\ atotal' = total
        /\ UNCHANGED <<total, count, recv>>
    BY <1>5 DEF RemoveInstance
  <2> QED
    BY <1>1, <1>11, <2>1, <2>2 DEF CountInv
<1>6. CASE CountDown
  BY <1>1, <1>6, <1>11 DEF CountDown, CountInv
<1>7. CASE EndSweep
  BY <1>1, <1>7, <1>11 DEF EndSweep, CountInv
<1>8. CASE ChooseNext
  <2>1. /\ UNCHANGED <<nodes, total, recv, atotal>> /\ app = "choose" /\ app' = "idle"
        /\ count' = count \/ count' = After(count)
    BY <1>8 DEF ChooseNext
  <2>2. total = Len(nodes) /\ nodes # <<>> /\ count \in Nat
    BY <1>1, <1>11, <2>1 DEF CountInv
  <2>3. After(count) \in 0 .. Len(nodes) - 1
    BY <1>1, <2>2 DEF After
  <2>4. Len(nodes) <= Cardinality(Instances) /\ Cardinality(Instances) \in Nat
    BY KeysAreCounted DEF MapInv
  <2>5. count' \in 0 .. Cardinality(Instances) - 1
    BY <1>1, <2>1, <2>3, <2>4 DEF CountInv
  <2> QED
    BY <2>1, <2>2, <2>5 DEF CountInv
<1>9. CASE \/ \E m \in Methods \cup {"check"} : Begin(m)
           \/ Advance \/ KeepInstance \/ ChooseRandom
  BY <1>9, <1>11 DEF Begin, MayCall, Advance, KeepInstance, ChooseRandom, CountInv
<1>10. CASE Tick \/ GetNone \/ \E i \in Instances : Refresh(i)
  BY <1>10 DEF Tick, GetNone, Refresh, CountInv
<1> QED
  BY <1>2, <1>3, <1>4, <1>5, <1>6, <1>7, <1>8, <1>9, <1>10, <1>12, <1>13, <1>14 DEF Next, vars, Receive, Ask

-----------------------------------------------------------------------------
\* What comes next in the chain of node p, ...
LEMMA FollowerIs ==
  ASSUME NEW ns, NEW n, IsMap(ns, n), NEW p \in DOMAIN ns
  PROVE  LET f == Follower(ns, ns[p].key, Null) IN
         \/ /\ f = Null
            /\ \A q \in DOMAIN ns : ns[q].bucket = ns[p].bucket => q <= p
         \/ /\ f # Null
            /\ \E m \in DOMAIN ns :
                 /\ f = ns[m].key /\ m > p /\ ns[m].bucket = ns[p].bucket
                 /\ \A q \in DOMAIN ns : ns[q].bucket = ns[p].bucket => q <= p \/ q >= m
<1> DEFINE here == CHOOSE i \in DOMAIN ns : ns[i].key = ns[p].key
           later == {j \in DOMAIN ns : j > p /\ ns[j].bucket = ns[p].bucket}
<1>1. here = p
  BY DEF IsMap
<1>2. Follower(ns, ns[p].key, Null) = IF later = {} THEN Null ELSE ns[Min(later)].key
  BY <1>1 DEF Follower
<1>3. \A q \in DOMAIN ns : q \in Nat /\ ns[q].key \in Instances
  BY NodesAre
<1>4. later \subseteq Nat
  BY <1>3
<1>5. CASE later = {}
  <2>1. \A q \in DOMAIN ns : ns[q].bucket = ns[p].bucket => q <= p
    BY <1>3, <1>5
  <2> QED
    BY <1>2, <1>5, <2>1
<1>6. CASE later # {}
  <2>1. PICK m : m = Min(later)
    OBVIOUS
  <2>2. m \in later /\ \A q \in later : m <= q
    BY <1>4, <1>6, <2>1, LeastIs
  <2>3. m \in DOMAIN ns /\ m > p /\ ns[m].bucket = ns[p].bucket
    BY <2>2
  <2>4. \A q \in DOMAIN ns : ns[q].bucket = ns[p].bucket => q <= p \/ q >= m
    BY <1>3, <2>2
  <2>5. ns[m].key # Null
    BY <1>3, <2>3, CacheAssumption
  <2> HIDE DEF later
  <2> QED
    BY <1>2, <1>6, <2>1, <2>3, <2>4, <2>5
<1> QED
  BY <1>5, <1>6

\* ... and behind bucket b.
LEMMA NextBucketIs ==
  ASSUME NEW ns, NEW n, IsMap(ns, n), NEW b \in Nat
  PROVE  LET l == NextBucket(ns, b) IN
         \/ l = 0 /\ \A q \in DOMAIN ns : ns[q].bucket <= b
         \/ /\ l \in 1 .. n
            /\ \A q \in DOMAIN ns : ns[q].bucket <= b \/ ns[q].bucket >= l
            /\ \E p \in DOMAIN ns :
                 /\ FirstIn(ns, l) = ns[p].key /\ ns[p].bucket = l
                 /\ \A q \in DOMAIN ns : ns[q].bucket = l => q >= p
<1> DEFINE later == {ns[i].bucket : i \in DOMAIN ns} \ 0 .. b
           l == NextBucket(ns, b)
<1>1. \A q \in DOMAIN ns : q \in Nat /\ ns[q].bucket \in Nat /\ ns[q].bucket \in 1 .. n
  BY NodesAre DEF NodeRecs
<1>2. later \subseteq Nat
  BY <1>1
<1>3. l = IF later = {} THEN 0 ELSE Min(later)
  BY DEF NextBucket
<1>4. CASE later = {}
  <2>1. \A q \in DOMAIN ns : ns[q].bucket <= b
    BY <1>1, <1>4
  <2> QED
    BY <1>3, <1>4, <2>1
<1>5. CASE later # {}
  <2>1. l \in later /\ \A x \in later : l <= x
    BY <1>2, <1>3, <1>5, LeastIs
  <2> DEFINE chain == {i \in DOMAIN ns : ns[i].bucket = l}
  <2>2. PICK i \in DOMAIN ns : ns[i].bucket = l
    BY <2>1
  <2>3. chain # {} /\ chain \subseteq Nat
    BY <1>1, <2>2
  <2>4. PICK p : p = Min(chain)
    OBVIOUS
  <2>5. p \in chain /\ \A q \in chain : p <= q
    BY <2>3, <2>4, LeastIs
  <2>6. FirstIn(ns, l) = ns[p].key
    BY <2>4 DEF FirstIn
  <2>7. \A q \in DOMAIN ns : ns[q].bucket <= b \/ ns[q].bucket >= l
    BY <1>1, <2>1
  <2>8. l \in 1 .. n
    BY <1>1, <2>2
  <2>9. /\ p \in DOMAIN ns /\ ns[p].bucket = l
        /\ \A q \in DOMAIN ns : ns[q].bucket = l => q >= p
    BY <1>1, <2>5
  <2> HIDE DEF later, l
  <2> QED
    BY <2>6, <2>7, <2>8, <2>9 DEF l
<1> QED
  BY <1>4, <1>5

-----------------------------------------------------------------------------
\* The iteration has come to a key, or will go on there: what lies before it in
\* its chain has not expired.
ReachedAt(key) ==
  \E p \in DOMAIN nodes :
    /\ nodes[p].key = key
    /\ nodes[p].bucket = iter.bucket
    /\ \A q \in DOMAIN nodes :
         nodes[q].bucket = iter.bucket /\ q < p => ~Expired(nodes[q].key)

Swept(b) == \A q \in DOMAIN nodes : nodes[q].bucket <= b => ~Expired(nodes[q].key)

\* What the sweep has behind it has not expired.
SweepInv ==
  /\ iter \in [bucket : 0 .. nbuckets, node : Instances \cup {Null},
                freed : BOOLEAN, link : Instances \cup {Null}]
  /\ app \in {"idle", "sweep", "look", "removed", "choose"}
  /\ app \in {"sweep", "look", "removed"} =>
       /\ \A q \in DOMAIN nodes : nodes[q].bucket < iter.bucket => ~Expired(nodes[q].key)
       /\ iter.node = Null => app = "sweep" /\ iter.bucket = 0 /\ ~iter.freed
       /\ iter.node # Null /\ ~iter.freed =>
            /\ ReachedAt(iter.node)
            /\ app = "sweep" => ~Expired(iter.node)
            /\ app # "removed"
       /\ iter.freed =>
            /\ app # "look"
            /\ IF iter.link = Null THEN Swept(iter.bucket) ELSE ReachedAt(iter.link)
  /\ app = "choose" => \A x \in Cached : ~Expired(x)

LEMMA StandsOnNode ==
  ASSUME SweepInv, app = "look"
  PROVE  ~iter.freed /\ iter.node # Null /\ ReachedAt(iter.node) /\ iter.node \in Cached
<1>1. ~iter.freed /\ iter.node # Null /\ ReachedAt(iter.node)
  BY DEF SweepInv
<1> QED
  BY <1>1 DEF ReachedAt, Cached, Keys

\* Where map_next goes along the chain all before it has been looked at, and
\* when it does not, the whole chain has.
LEMMA LinkIs ==
  ASSUME MapInv, SweepInv, app = "sweep"
  PROVE  /\ Link # Null => ReachedAt(Link) /\ Link \in Instances
         /\ Link = Null => Swept(iter.bucket)
         /\ Links = {Link}
<1>1. \A q \in DOMAIN nodes : /\ q \in Nat /\ nodes[q].bucket \in Nat
                             /\ nodes[q].bucket > 0 /\ nodes[q].key \in Instances
  BY NodesAre DEF MapInv
<1>2. iter.bucket \in Nat /\ iter.link \in Instances \cup {Null}
  BY NodesAre DEF SweepInv, MapInv
<1>6. Links = {Link}
  BY DEF Links, SweepInv, ReachedAt, Cached, Keys
<1>3. CASE iter.node = Null
  <2>1. Link = Null /\ iter.bucket = 0
    BY <1>3 DEF Link, SweepInv
  <2> QED
    BY <1>1, <1>6, <2>1 DEF Swept
<1>4. CASE iter.node # Null /\ iter.freed
  <2>1. Link = iter.link
    BY <1>4 DEF Link
  <2> QED
    BY <1>2, <1>4, <1>6, <2>1 DEF SweepInv
<1>5. CASE iter.node # Null /\ ~iter.freed
  <2>1. Link = Follower(nodes, iter.node, Null)
    BY <1>5 DEF Link
  <2>2. PICK p \in DOMAIN nodes :
          /\ nodes[p].key = iter.node
          /\ nodes[p].bucket = iter.bucket
          /\ \A q \in DOMAIN nodes :
               nodes[q].bucket = iter.bucket /\ q < p => ~Expired(nodes[q].key)
    BY <1>5 DEF SweepInv, ReachedAt
  <2>3. ~Expired(nodes[p].key)
    BY <1>5, <2>2 DEF SweepInv
  <2>4. \A q \in DOMAIN nodes :
          nodes[q].bucket = iter.bucket /\ q <= p => ~Expired(nodes[q].key)
    BY <1>1, <2>2, <2>3
  <2>5. \/ /\ Link = Null
           /\ \A q \in DOMAIN nodes : nodes[q].bucket = iter.bucket => q <= p
        \/ /\ Link # Null
           /\ \E m \in DOMAIN nodes :
                /\ Link = nodes[m].key /\ m > p /\ nodes[m].bucket = iter.bucket
                /\ \A q \in DOMAIN nodes : nodes[q].bucket = iter.bucket => q <= p \/ q >= m
    BY <2>1, <2>2, FollowerIs DEF MapInv
  <2>6. CASE Link = Null
    <3>1. \A q \in DOMAIN nodes : nodes[q].bucket < iter.bucket => ~Expired(nodes[q].key)
      BY DEF SweepInv
    <3>2. \A q \in DOMAIN nodes : nodes[q].bucket = iter.bucket => ~Expired(nodes[q].key)
      BY <2>4, <2>5, <2>6
    <3> QED
      BY <1>1, <1>2, <1>6, <2>6, <3>1, <3>2 DEF Swept
  <2>7. CASE Link # Null
    <3>1. PICK m \in DOMAIN nodes :
            /\ Link = nodes[m].key /\ m > p /\ nodes[m].bucket = iter.bucket
            /\ \A q \in DOMAIN nodes : nodes[q].bucket = iter.bucket => q <= p \/ q >= m
      BY <2>5, <2>7
    <3>2. \A q \in DOMAIN nodes :
            nodes[q].bucket = iter.bucket /\ q < m => ~Expired(nodes[q].key)
      BY <1>1, <2>4, <3>1
    <3> QED
      BY <1>1, <1>6, <2>7, <3>1, <3>2 DEF ReachedAt
  <2> QED
    BY <2>6, <2>7
<1> QED
  BY <1>3, <1>4, <1>5

LEMMA SweepInvInit == Init => SweepInv
<1> SUFFICES ASSUME Init
             PROVE  SweepInv
  OBVIOUS
<1>1. iter = AtStart /\ app = "idle" /\ nbuckets = 0
  BY DEF Init
<1> QED
  BY <1>1 DEF SweepInv, AtStart

LEMMA NextBucketMoves ==
  ASSUME NEW n \in Nat, NEW l \in 1 .. n, NEW x \in Instances,
         NEW it \in [bucket : 0 .. n, node : Instances \cup {Null},
                     freed : BOOLEAN, link : Instances \cup {Null}]
  PROVE  LET new == [[it EXCEPT !.node = x, !.freed = FALSE, !.link = Null]
                       EXCEPT !.bucket = l]
         IN  /\ new \in [bucket : 0 .. n, node : Instances \cup {Null},
                         freed : BOOLEAN, link : Instances \cup {Null}]
             /\ ~new.freed /\ new.node = x /\ new.bucket = l
<1> PICK k : k = [it EXCEPT !.node = x, !.freed = FALSE, !.link = Null]
  OBVIOUS
<1>1. k \in [bucket : 0 .. n, node : Instances \cup {Null},
             freed : BOOLEAN, link : Instances \cup {Null}]
  OBVIOUS
<1>2. k.node = x /\ ~k.freed
  OBVIOUS
<1> DEFINE new == [k EXCEPT !.bucket = l]
<1>3. /\ new \in [bucket : 0 .. n, node : Instances \cup {Null},
                   freed : BOOLEAN, link : Instances \cup {Null}]
      /\ new.node = k.node /\ new.freed = k.freed /\ new.bucket = l
  <2>1. l \in 0 .. n
    OBVIOUS
  <2>2. new \in [bucket : 0 .. n, node : Instances \cup {Null},
                 freed : BOOLEAN, link : Instances \cup {Null}]
    BY <1>1, <2>1
  <2>3. new.node = k.node
    BY <1>1
  <2>4. new.freed = k.freed
    BY <1>1
  <2>5. new.bucket = l
    BY <1>1
  <2> QED
    BY <2>2, <2>3, <2>4, <2>5
<1>4. new.bucket = l /\ new.node = x /\ ~new.freed
  BY <1>2, <1>3
<1> QED
  BY <1>3, <1>4

\* map_next: along the chain, or to the first node of a later bucket.
LEMMA AdvanceKeepsSweep ==
  ASSUME MapInv, SweepInv, Advance
  PROVE  SweepInv'
<1> USE DEF cache, recv
<1>1. app = "sweep" /\ app' = "look" /\ UNCHANGED <<hash, nodes, nbuckets, age>>
  BY DEF Advance
<1>8. \/ Link # Null /\ iter' = Behind(Link)
      \/ /\ Link = Null /\ LaterBucket # 0
         /\ iter' = [Behind(FirstIn(nodes, LaterBucket)) EXCEPT !.bucket = LaterBucket]
  BY <1>1, LinkIs DEF Advance
<1>2. \A i \in Instances : Expired(i)' = Expired(i)
  BY <1>1 DEF Expired
<1>3. \A q \in DOMAIN nodes : nodes[q].key \in Instances
  BY NodesAre DEF MapInv
<1>4. \A q \in DOMAIN nodes : nodes[q].bucket < iter.bucket => ~Expired(nodes[q].key)
  BY <1>1 DEF SweepInv
<1>5. SUFFICES /\ iter' \in [bucket : 0 .. nbuckets, node : Instances \cup {Null},
                             freed : BOOLEAN, link : Instances \cup {Null}]
               /\ ~iter'.freed /\ iter'.node # Null
               /\ \A q \in DOMAIN nodes :
                    nodes[q].bucket < iter'.bucket => ~Expired(nodes[q].key)
               /\ \E p \in DOMAIN nodes :
                    /\ nodes[p].key = iter'.node
                    /\ nodes[p].bucket = iter'.bucket
                    /\ \A q \in DOMAIN nodes :
                         nodes[q].bucket = iter'.bucket /\ q < p => ~Expired(nodes[q].key)
  BY <1>1, <1>2, <1>3 DEF SweepInv, ReachedAt
<1>6. CASE Link # Null
  <2>1. iter' = Behind(Link)
    BY <1>6, <1>8
  <2>2. Link \in Instances /\ ReachedAt(Link)
    BY <1>1, <1>6, LinkIs
  <2>3. /\ iter' \in [bucket : 0 .. nbuckets, node : Instances \cup {Null},
                      freed : BOOLEAN, link : Instances \cup {Null}]
        /\ ~iter'.freed /\ iter'.node = Link /\ iter'.bucket = iter.bucket
    BY <2>1, <2>2 DEF Behind, SweepInv
  <2> QED
    BY <1>4, <1>6, <2>2, <2>3 DEF ReachedAt
<1>7. CASE Link = Null
  <2> PICK l : l = LaterBucket
    OBVIOUS
  <2> PICK node : node = FirstIn(nodes, l)
    OBVIOUS
  <2>1. l # 0 /\ iter' = [Behind(node) EXCEPT !.bucket = l]
    BY <1>7, <1>8
  <2>2. Swept(iter.bucket)
    BY <1>1, <1>7, LinkIs
  <2>3. iter.bucket \in Nat /\ nbuckets \in Nat
    BY NodesAre DEF SweepInv, MapInv
  <2>4. /\ l \in 1 .. nbuckets
        /\ \A q \in DOMAIN nodes : nodes[q].bucket <= iter.bucket \/ nodes[q].bucket >= l
        /\ \E p \in DOMAIN nodes :
             /\ node = nodes[p].key /\ nodes[p].bucket = l
             /\ \A q \in DOMAIN nodes : nodes[q].bucket = l => q >= p
    BY <2>1, <2>3, NextBucketIs DEF LaterBucket, MapInv
  <2>5. \A q \in DOMAIN nodes : q \in Nat /\ nodes[q].bucket \in Nat
    BY NodesAre DEF MapInv
  <2>6. node \in Instances
    BY <1>3, <2>4
  <2>7. /\ iter' \in [bucket : 0 .. nbuckets, node : Instances \cup {Null},
                      freed : BOOLEAN, link : Instances \cup {Null}]
        /\ ~iter'.freed /\ iter'.node = node /\ iter'.bucket = l
    BY <2>1, <2>3, <2>4, <2>6, NextBucketMoves DEF Behind, SweepInv
  <2>8. \A q \in DOMAIN nodes : nodes[q].bucket < l => ~Expired(nodes[q].key)
    BY <2>2, <2>3, <2>4, <2>5 DEF Swept
  <2>9. PICK p \in DOMAIN nodes :
          /\ node = nodes[p].key /\ nodes[p].bucket = l
          /\ \A q \in DOMAIN nodes : nodes[q].bucket = l => q >= p
    BY <2>4
  <2>10. \A q \in DOMAIN nodes :
           nodes[q].bucket = l /\ q < p => ~Expired(nodes[q].key)
    BY <2>5, <2>9
  <2> QED
    BY <2>6, <2>7, <2>8, <2>9, <2>10, CacheAssumption
<1> QED
  BY <1>6, <1>7

\* The node is freed, but its link is what the iteration goes on by.
LEMMA RemovalKeepsSweep ==
  ASSUME MapInv, SweepInv, RemoveInstance
  PROVE  SweepInv'
<1> USE DEF recv
<1>1. app = "look" /\ app' = "removed" /\ UNCHANGED <<hash, nbuckets, age>>
  BY DEF RemoveInstance
<1>2. ~iter.freed /\ iter.node # Null /\ ReachedAt(iter.node) /\ iter.node \in Cached
  BY <1>1, StandsOnNode
<1> PICK link : link = Follower(nodes, iter.node, Null)
  OBVIOUS
<1>3. iter' = [iter EXCEPT !.freed = TRUE, !.link = link]
  BY DEF RemoveInstance, FreedIter
<1>4. PICK p \in DOMAIN nodes :
        /\ nodes[p].key = iter.node
        /\ nodes[p].bucket = iter.bucket
        /\ \A q \in DOMAIN nodes :
             nodes[q].bucket = iter.bucket /\ q < p => ~Expired(nodes[q].key)
  BY <1>2 DEF ReachedAt
<1>5. nodes' = RemoveAt(nodes, p)
  BY <1>4, RemovedIs DEF RemoveInstance, MapInv
<1>6. /\ \A i \in DOMAIN nodes' : nodes'[i] = IF i < p THEN nodes[i] ELSE nodes[i + 1]
      /\ \A i \in DOMAIN nodes : i < p => i \in DOMAIN nodes' /\ nodes'[i] = nodes[i]
      /\ \A i \in DOMAIN nodes : i > p => i - 1 \in DOMAIN nodes' /\ nodes'[i - 1] = nodes[i]
      /\ nodes' \in Seq(NodeRecs(nbuckets)) /\ Len(nodes') = Len(nodes) - 1
  BY <1>5, RemoveAtIs DEF MapInv, IsMap
<1>7. \A q \in DOMAIN nodes : q \in Nat /\ nodes[q].key \in Instances
  BY NodesAre DEF MapInv
<1>8. DOMAIN nodes = 1 .. Len(nodes) /\ Len(nodes) \in Nat /\ DOMAIN nodes' = 1 .. Len(nodes) - 1
  BY <1>6, NodesAre DEF MapInv
\* Where the nodes that are left come from.
<1>9. \A i \in DOMAIN nodes' : \E q \in DOMAIN nodes :
        /\ nodes'[i] = nodes[q]
        /\ (q = i /\ i < p) \/ (q = i + 1 /\ q > p)
  <2> TAKE i \in DOMAIN nodes'
  <2>1. CASE i < p
    <3>1. i \in DOMAIN nodes
      BY <1>8
    <3> QED
      <4>1. nodes'[i] = IF i < p THEN nodes[i] ELSE nodes[i + 1]
        BY <1>6
      <4>2. nodes'[i] = nodes[i]
        BY <2>1, <4>1
      <4> WITNESS i \in DOMAIN nodes
      <4> QED
        BY <2>1, <4>2, Zenon
  <2>2. CASE ~(i < p)
    <3>1. i + 1 \in DOMAIN nodes /\ i + 1 > p
      BY <1>7, <1>8, <2>2
    <3> QED
      BY <1>6, <2>2, <3>1
  <2> QED
    BY <2>1, <2>2
<1>10. \A i \in Instances : Expired(i)' = Expired(i)
  BY <1>1 DEF Expired
<1>11. \A i \in DOMAIN nodes' : nodes'[i].key \in Instances
  BY <1>7, <1>9
<1>12. /\ iter' \in [bucket : 0 .. nbuckets, node : Instances \cup {Null},
                     freed : BOOLEAN, link : Instances \cup {Null}]
       /\ iter'.freed /\ iter'.link = link /\ iter'.bucket = iter.bucket
       /\ iter'.node = iter.node
  <2>1. link \in Instances \cup {Null}
    BY <1>4, <1>7, FollowerIs DEF MapInv
  <2> QED
    BY <1>3, <2>1 DEF SweepInv
<1>13. \A q \in DOMAIN nodes' : nodes'[q].bucket < iter.bucket => ~Expired(nodes'[q].key)
  <2>1. \A q \in DOMAIN nodes : nodes[q].bucket < iter.bucket => ~Expired(nodes[q].key)
    BY <1>1 DEF SweepInv
  <2> QED
    BY <1>9, <2>1
<1>14. CASE link = Null
  <2>1. \A q \in DOMAIN nodes : nodes[q].bucket = iter.bucket => q <= p
    <3>1. link = Follower(nodes, nodes[p].key, Null)
      BY <1>4
    <3>2. \A q \in DOMAIN nodes : nodes[q].bucket = nodes[p].bucket => q <= p
      BY <1>14, <3>1, FollowerIs DEF MapInv
    <3> QED
      BY <1>4, <3>2
  <2>2. \A i \in DOMAIN nodes' : nodes'[i].bucket = iter.bucket => ~Expired(nodes'[i].key)
    BY <1>4, <1>7, <1>9, <2>1
  <2>3. \A i \in DOMAIN nodes' : nodes'[i].bucket <= iter.bucket => ~Expired(nodes'[i].key)
    <3>1. \A i \in DOMAIN nodes' : nodes'[i].bucket \in Nat
      BY <1>9, NodesAre DEF MapInv
    <3>2. iter.bucket \in Nat
      BY NodesAre DEF SweepInv, MapInv
    <3> QED
      BY <1>13, <2>2, <3>1, <3>2
  <2>4. Swept(iter.bucket)'
    BY <1>10, <1>11, <1>12, <2>3 DEF Swept
  <2> QED
    BY <1>1, <1>2, <1>10, <1>11, <1>12, <1>13, <1>14, <2>4 DEF SweepInv
<1>15. CASE link # Null
  <2>1. PICK m \in DOMAIN nodes :
          /\ link = nodes[m].key /\ m > p /\ nodes[m].bucket = iter.bucket
          /\ \A q \in DOMAIN nodes : nodes[q].bucket = iter.bucket => q <= p \/ q >= m
    BY <1>4, <1>15, FollowerIs DEF MapInv
  <2>2. m - 1 \in DOMAIN nodes' /\ nodes'[m - 1] = nodes[m]
    BY <1>6, <2>1
  <2>3. \A i \in DOMAIN nodes' :
          nodes'[i].bucket = iter.bucket /\ i < m - 1 => ~Expired(nodes'[i].key)
    <3> SUFFICES ASSUME NEW i \in DOMAIN nodes', nodes'[i].bucket = iter.bucket, i < m - 1
                 PROVE  ~Expired(nodes'[i].key)
      OBVIOUS
    <3>1. PICK q \in DOMAIN nodes :
            /\ nodes'[i] = nodes[q]
            /\ (q = i /\ i < p) \/ (q = i + 1 /\ q > p)
      BY <1>9
    <3>2. nodes[q].bucket = iter.bucket
      BY <3>1
    <3>3. q <= p \/ q >= m
      BY <2>1, <3>2
    <3>4. q < p
      BY <1>7, <1>8, <2>1, <3>1, <3>3
    <3> QED
      BY <1>4, <3>1, <3>2, <3>4
  <2>4. ReachedAt(link)'
    BY <1>10, <1>11, <1>12, <2>1, <2>2, <2>3 DEF ReachedAt
  <2>5. ReachedAt(iter.link)'
    BY <1>12, <2>4
  <2> QED
    BY <1>1, <1>2, <1>10, <1>11, <1>12, <1>13, <1>15, <2>5 DEF SweepInv
<1> QED
  BY <1>14, <1>15

LEMMA SweepInvStep ==
  ASSUME ~Overlap, MapInv, CountInv, SweepInv, [Next]_vars
  PROVE  SweepInv'
<1> USE DEF cache, recv, caller
<1>1. CASE Advance
  BY <1>1, AdvanceKeepsSweep
<1>2. CASE RemoveInstance
  BY <1>2, RemovalKeepsSweep
<1>3. CASE /\ UNCHANGED <<hash, nodes, nbuckets, age, iter>>
           /\ app' = app \/ app' \in {"idle"}
  BY <1>3 DEF SweepInv, ReachedAt, Swept, Expired, Cached, Keys
<1>4. CASE /\ app = "idle" /\ app' = "idle" /\ iter' = iter
           /\ nbuckets \in Nat /\ nbuckets' \in Nat /\ nbuckets' >= nbuckets
  <2>1. iter.bucket \in 0 .. nbuckets'
    BY <1>4 DEF SweepInv
  <2>2. iter' \in [bucket : 0 .. nbuckets', node : Instances \cup {Null},
                  freed : BOOLEAN, link : Instances \cup {Null}]
    BY <1>4, <2>1 DEF SweepInv
  <2> QED
    BY <1>4, <2>2 DEF SweepInv
<1>5. ASSUME NEW m, Begin(m)
      PROVE  SweepInv'
  <2>1. /\ UNCHANGED <<hash, nodes, nbuckets, age>> /\ app' = "sweep"
        /\ iter' = [bucket |-> 0, node |-> Null, freed |-> FALSE, link |-> Null]
    BY <1>5 DEF Begin, AtStart
  <2>2. nbuckets \in Nat /\ \A q \in DOMAIN nodes : ~(nodes[q].bucket < 0)
    BY NodesAre DEF MapInv
  <2> QED
    BY <2>1, <2>2 DEF SweepInv
<1>6. CASE KeepInstance
  <2>1. /\ UNCHANGED <<hash, nodes, nbuckets, age, iter>> /\ app = "look" /\ app' = "sweep"
        /\ ~Expired(iter.node)
    BY <1>6, StandsOnNode, CachedIsFound DEF KeepInstance
  <2>2. ~iter.freed /\ iter.node # Null /\ ReachedAt(iter.node)
    BY <2>1, StandsOnNode
  <2> QED
    BY <2>1, <2>2 DEF SweepInv, ReachedAt, Expired
<1>7. CASE CountDown
  <2>1. UNCHANGED <<hash, nodes, nbuckets, age, iter>> /\ app = "removed" /\ app' = "sweep"
    BY <1>7 DEF CountDown
  <2>2. iter.node # Null /\ iter.freed
    BY <2>1 DEF SweepInv
  <2> QED
    BY <2>1, <2>2 DEF SweepInv, ReachedAt, Swept, Expired
<1>8. CASE EndSweep
  <2>1. /\ UNCHANGED <<hash, nodes, nbuckets, age>> /\ app = "sweep" /\ app' \in {"idle", "choose"}
        /\ Null \in Links /\ LaterBucket = 0
        /\ iter' = [bucket |-> 0, node |-> Null, freed |-> FALSE, link |-> Null]
    BY <1>8 DEF EndSweep, AtStart
  <2>2. Swept(iter.bucket)
    BY <2>1, LinkIs, CacheAssumption
  <2>3. iter.bucket \in Nat /\ nbuckets \in Nat
    BY NodesAre DEF SweepInv, MapInv
  <2>4. \A q \in DOMAIN nodes : nodes[q].bucket <= iter.bucket
    BY <2>1, <2>3, NextBucketIs DEF LaterBucket, MapInv
  <2>5. \A x \in Cached : ~Expired(x)
    BY <2>2, <2>4 DEF Swept, Cached, Keys
  <2>6. (\A x \in Cached : ~Expired(x))'
    BY <2>1, <2>5 DEF Cached, Keys, Expired
  <2> QED
    BY <2>1, <2>3, <2>6 DEF SweepInv
<1>9. CASE AddCount \/ TakeOut \/ PutBack \/ AddEnd
  <2>1. app = "idle"
    BY <1>9 DEF AddCount, TakeOut, PutBack, AddEnd, CountInv
  <2>2. app' = "idle" /\ iter' = iter
    BY <1>9, <2>1 DEF AddCount, TakeOut, PutBack, AddEnd
  <2>3. nbuckets' = nbuckets \/ (nbuckets' \in Nat /\ nbuckets' >= nbuckets)
    <3>1. CASE TakeOut
      BY <3>1, TakeOutIs
    <3>2. CASE AddCount \/ PutBack \/ AddEnd
      <4>1. nbuckets' = nbuckets
        BY <3>2, AdditionIs DEF AddCount, PutBack
      <4> QED
        BY <4>1
    <3> QED
      BY <1>9, <3>1, <3>2
  <2>4. nbuckets \in Nat
    BY NodesAre DEF MapInv
  <2> QED
    BY <1>4, <2>1, <2>2, <2>3, <2>4
<1>10. CASE Tick \/ \E i \in Instances : Refresh(i)
  <2>1. app = "idle" /\ app' = "idle" /\ iter' = iter /\ nbuckets' = nbuckets
    BY <1>10 DEF Tick, Refresh
  <2>2. nbuckets \in Nat /\ nbuckets <= nbuckets
    BY NodesAre DEF MapInv
  <2> QED
    BY <1>4, <2>1, <2>2
<1>11. CASE GetNone \/ \E i \in Instances : AddBegin(i)
  BY <1>3, <1>11 DEF GetNone, AddBegin
<1>12. CASE ChooseRandom \/ ChooseNext
  BY <1>3, <1>12 DEF ChooseRandom, ChooseNext
<1>13. CASE UNCHANGED vars
  BY <1>3, <1>13 DEF vars
<1> QED
  BY <1>1, <1>2, <1>5, <1>6, <1>7, <1>8, <1>9, <1>10, <1>11, <1>12, <1>13
  DEF Next, Receive, Ask

LEMMA CacheInvHolds ==
  ASSUME ~Overlap
  PROVE  Spec => [](MapInv /\ CountInv /\ SweepInv)
<1>1. Init => MapInv /\ CountInv /\ SweepInv
  BY MapInvInit, CountInvInit, SweepInvInit
<1>2. MapInv /\ CountInv /\ SweepInv /\ [Next]_vars => (MapInv /\ CountInv /\ SweepInv)'
  <2> SUFFICES ASSUME MapInv, CountInv, SweepInv, [Next]_vars
               PROVE  MapInv' /\ CountInv' /\ SweepInv'
    OBVIOUS
  <2>1. app = "look" => iter.node \in Cached
    BY StandsOnNode
  <2> QED
    BY <2>1, MapInvStep, CountInvStep, SweepInvStep
<1> QED
  BY <1>1, <1>2, PTL DEF Spec

(* The total is the number of instances in the map, although it is counted *)
(* apart from it, by additions and by removals under an iteration, if the  *)
(* two threads do not overlap (add_dependency_to_local,                    *)
(* mico_service_get_instance).                                             *)
THEOREM TotalIsRight ==
  ASSUME ~Overlap
  PROVE  Spec => []TotalIsSize
<1>1. MapInv /\ CountInv => TotalIsSize
  <2> SUFFICES ASSUME MapInv, CountInv, adding = Null, app # "removed"
               PROVE  total = Len(nodes)
    BY DEF TotalIsSize
  <2>1. rstep = "no" /\ out = <<>> /\ Len(<<>>) = 0
    BY DEF MapInv
  <2>2. Len(nodes) \in Nat
    BY NodesAre DEF MapInv
  <2> QED
    BY <2>1, <2>2 DEF CountInv
<1> QED
  BY <1>1, CacheInvHolds, PTL

(* A sweep misses no expired instance, although it removes the nodes its   *)
(* iteration stands on and goes on by a freed link                         *)
(* (mico_service_get_instance over map_remove and map_next).               *)
THEOREM SweepMissesNone ==
  ASSUME ~Overlap
  PROVE  Spec => []SweepIsComplete
<1>1. SweepInv => SweepIsComplete
  BY DEF SweepInv, SweepIsComplete
<1> QED
  BY <1>1, CacheInvHolds, PTL
-----------------------------------------------------------------------------
TypesInv ==
  /\ age \in [Instances -> 0 .. Timeout]
  /\ call \in Methods \cup {"check"}
  /\ got \in Instances \cup {Null}
  /\ turn \subseteq Instances

\* The number of entries is what the choice is made by.
LEMMA ChoiceIs ==
  ASSUME MapInv, CountInv, ChooseRandom \/ ChooseNext
  PROVE  /\ app = "choose" /\ UNCHANGED <<hash, nodes, nbuckets, age>>
         /\ total = Len(nodes) /\ Len(nodes) \in Nat \ {0} /\ count \in Nat
         /\ got' = Null \/ got' \in Cached
<1>1. /\ app = "choose" /\ UNCHANGED <<hash, nodes, nbuckets, age>>
  BY DEF ChooseRandom, ChooseNext, recv, cache
<1>2. total = Len(nodes) /\ nodes # <<>> /\ count \in Nat
  <2>1. rstep = "no" /\ out = <<>> /\ Len(out) = 0
    BY <1>1 DEF CountInv, MapInv
  <2>2. Len(nodes) \in Nat
    BY NodesAre DEF MapInv
  <2> QED
    BY <1>1, <2>1, <2>2 DEF CountInv
<1>3. Len(nodes) \in Nat \ {0}
  <2>1. nodes \in Seq(NodeRecs(nbuckets))
    BY DEF MapInv, IsMap
  <2> QED
    BY <1>2, <2>1, EmptySeq
<1>4. \A k \in 0 .. Len(nodes) - 1 : KeyAt(nodes, k) \in Cached
  BY KeyAtIs DEF MapInv, Cached
<1>5. CASE ChooseRandom
  <2>1. PICK index \in 0 .. total - 1 :
          got' = IF index < Len(nodes) THEN KeyAt(nodes, index) ELSE Null
    BY <1>5 DEF ChooseRandom
  <2> QED
    BY <1>1, <1>2, <1>3, <1>4, <2>1
<1>6. CASE ChooseNext
  <2>1. got' = IF count < Len(nodes) THEN KeyAt(nodes, count) ELSE Null
    BY <1>6 DEF ChooseNext
  <2>2. count < Len(nodes) => count \in 0 .. Len(nodes) - 1
    BY <1>2, <1>3
  <2> QED
    BY <1>1, <1>2, <1>3, <1>4, <2>1, <2>2
<1> QED
  BY <1>5, <1>6

LEMMA TypesInvInit == Init => TypesInv
  BY CacheAssumption DEF Init, TypesInv

LEMMA TypesInvStep ==
  ASSUME MapInv, CountInv, TypesInv, [Next]_vars
  PROVE  TypesInv'
<1> USE DEF cache, recv, caller
<1>1. CASE UNCHANGED <<age, call, got, turn>>
  BY <1>1 DEF TypesInv
<1>2. Timeout \in Nat /\ Timeout > 0
  BY CacheAssumption
<1>3. CASE Tick
  <2>1. age' = [i \in Instances |-> IF age[i] < Timeout THEN age[i] + 1 ELSE Timeout]
        /\ UNCHANGED <<call, got, turn>>
    BY <1>3 DEF Tick
  <2>2. \A i \in Instances : age[i] \in 0 .. Timeout
    BY DEF TypesInv
  <2>3. \A x \in 0 .. Timeout : (IF x < Timeout THEN x + 1 ELSE Timeout) \in 0 .. Timeout
    BY <1>2
  <2> QED
    BY <2>1, <2>2, <2>3 DEF TypesInv
<1>4. ASSUME NEW i \in Instances, Refresh(i)
      PROVE  TypesInv'
  BY <1>2, <1>4 DEF Refresh, TypesInv
<1>5. CASE AddCount \/ TakeOut \/ PutBack \/ AddEnd
  <2>1. CASE AddCount
    <3>1. adding \in Instances
      BY <2>1 DEF AddCount, MapInv
    <3> QED
      BY <1>2, <2>1, <3>1 DEF AddCount, TypesInv
  <2>2. CASE TakeOut \/ PutBack \/ AddEnd
    BY <2>2 DEF TakeOut, PutBack, AddEnd, TypesInv
  <2> QED
    BY <1>5, <2>1, <2>2
<1>6. ASSUME NEW m \in Methods \cup {"check"}, Begin(m)
      PROVE  TypesInv'
  BY <1>6 DEF Begin, TypesInv
<1>7. CASE GetNone \/ RemoveInstance \/ EndSweep
  BY <1>7 DEF GetNone, RemoveInstance, EndSweep, TypesInv
<1>8. CASE ChooseRandom \/ ChooseNext
  <2>1. got' \in Instances \cup {Null} /\ age' = age
    BY <1>8, ChoiceIs, KeysAreCounted DEF MapInv, Cached
  <2>2. call' = call
    BY <1>8 DEF ChooseRandom, ChooseNext
  <2>3. turn' = turn \/ (got' # Null /\ (turn' = {got'} \/ turn' = turn \cup {got'}))
    <3>1. CASE ChooseRandom
      BY <3>1 DEF ChooseRandom
    <3>2. CASE ChooseNext /\ count < Len(nodes)
      <4>1. got' = KeyAt(nodes, count) /\ (turn' = {got'} \/ turn' = turn \cup {got'})
        BY <3>2 DEF ChooseNext
      <4>2. count \in 0 .. Len(nodes) - 1
        BY <3>2, ChoiceIs
      <4>3. got' \in Instances
        BY <4>1, <4>2, KeyAtIs, KeysAreCounted DEF MapInv
      <4> QED
        BY <4>1, <4>3, CacheAssumption
    <3>3. CASE ChooseNext /\ ~(count < Len(nodes))
      BY <3>3 DEF ChooseNext
    <3> QED
      BY <1>8, <3>1, <3>2, <3>3
  <2> QED
    BY <2>1, <2>2, <2>3 DEF TypesInv
<1> QED
  BY <1>1, <1>3, <1>4, <1>5, <1>6, <1>7, <1>8
  DEF Next, vars, Receive, AddBegin, Ask, Advance, KeepInstance, CountDown

LEMMA TypesInvHolds ==
  ASSUME ~Overlap
  PROVE  Spec => []TypesInv
<1>1. MapInv /\ CountInv /\ TypesInv /\ [Next]_vars => TypesInv'
  BY TypesInvStep
<1> QED
  BY <1>1, TypesInvInit, CacheInvHolds, PTL DEF Spec

(* The cache and the call for an instance keep to their types, and count   *)
(* stays a position that the map could have (service_local_cache).         *)
THEOREM TypesAreRight ==
  ASSUME ~Overlap
  PROVE  Spec => []TypeOK
<1>1. MapInv /\ CountInv /\ SweepInv /\ TypesInv => TypeOK
  <2> SUFFICES ASSUME MapInv, CountInv, SweepInv, TypesInv
               PROVE  TypeOK
    OBVIOUS
  <2>1. /\ nodes \in Seq([key : Instances, bucket : 1 .. nbuckets])
        /\ nbuckets \in Nat /\ hash \in [Instances -> Hashes]
        /\ adding \in Instances \cup {Null}
        /\ rstep \in {"no", "read", "counted", "resize", "resized"}
    BY DEF MapInv, IsMap, NodeRecs
  <2>4. Keys(out) \subseteq Instances
    <3>1. CASE rstep = "resize"
      BY <3>1, KeysAreCounted DEF MapInv
    <3>2. CASE rstep # "resize"
      BY <3>2 DEF MapInv, Keys
    <3> QED
      BY <3>1, <3>2
  <2>2. {total, rtotal, atotal} \subseteq Int /\ count \in 0 .. Cardinality(Instances) - 1
    BY DEF CountInv
  <2>3. /\ app \in {"idle", "sweep", "look", "removed", "choose"}
        /\ iter.bucket \in 0 .. nbuckets
        /\ {iter.node, iter.link} \subseteq Instances \cup {Null}
    BY DEF SweepInv
  <2> QED
    BY <2>1, <2>2, <2>3, <2>4 DEF TypesInv, TypeOK
<1> QED
  BY <1>1, CacheInvHolds, TypesInvHolds, PTL

(* No instance that has expired is returned, although the sweep for them   *)
(* and the choice of one are separate walks through the map                *)
(* (mico_service_get_instance).                                            *)
THEOREM FreshIsChosen ==
  ASSUME ~Overlap
  PROVE  Spec => ChosenIsFresh
<1>1. ASSUME MapInv, CountInv, SweepInv, TypesInv, [Next]_vars, Chosen, got' # Null
      PROVE  age[got'] < Timeout
  <2>1. ChooseRandom \/ ChooseNext
    BY <1>1
    DEF Chosen, Next, vars, cache, recv, caller, Tick, Receive, Refresh, AddBegin, AddCount, TakeOut, PutBack, AddEnd,
        Ask, GetNone, Begin, Advance, KeepInstance, RemoveInstance, CountDown, EndSweep
  <2>2. got' \in Cached /\ app = "choose"
    BY <1>1, <2>1, ChoiceIs
  <2>3. ~Expired(got') /\ got' \in Instances
    BY <1>1, <2>2, KeysAreCounted DEF SweepInv, MapInv, Cached
  <2>4. age[got'] \in 0 .. Timeout /\ Timeout \in Nat
    BY <1>1, <2>3, CacheAssumption DEF TypesInv
  <2> QED
    BY <2>3, <2>4 DEF Expired
<1>2. MapInv /\ CountInv /\ SweepInv /\ TypesInv /\ [Next]_vars
      => (Chosen /\ got' # Null => age[got'] < Timeout)
  BY <1>1
<1> QED
  BY <1>2, CacheInvHolds, TypesInvHolds, PTL DEF Spec, ChosenIsFresh

-----------------------------------------------------------------------------
\* The positions from s to before c, round n of them, all of them if s is c.
Since(s, c, n) == IF s < c THEN s .. c - 1 ELSE (s .. n - 1) \cup (0 .. c - 1)

\* What METHOD_ONE returned are the keys from some position up to count.
TurnInv ==
  \/ turn = {}
  \/ /\ count < Len(nodes)
     /\ \E s \in 0 .. Len(nodes) - 1 :
          turn = {KeyAt(nodes, k) : k \in Since(s, count, Len(nodes))}

LEMMA SinceIs ==
  ASSUME NEW n \in Nat \ {0}, NEW c \in 0 .. n - 1, NEW s \in 0 .. n - 1
  PROVE  /\ (c + 1) % n \in 0 .. n - 1
         /\ Since(c, (c + 1) % n, n) = {c}
         /\ Since(s, c, n) \subseteq 0 .. n - 1
         /\ c \in Since(s, c, n) => Since(s, c, n) = 0 .. n - 1
         /\ c \notin Since(s, c, n) => Since(s, (c + 1) % n, n) = Since(s, c, n) \cup {c}
<1> PICK d : d = (c + 1) % n
  OBVIOUS
<1>1. d = IF c = n - 1 THEN 0 ELSE c + 1
  OBVIOUS
<1>2. d \in 0 .. n - 1 /\ Since(s, c, n) \subseteq 0 .. n - 1
  BY <1>1 DEF Since
<1>3. Since(c, d, n) = {c}
  <2>1. CASE c = n - 1
    <3>1. Since(c, d, n) = (c .. n - 1) \cup (0 .. 0 - 1)
      BY <1>1, <2>1 DEF Since
    <3> QED
      BY <2>1, <3>1
  <2>2. CASE c # n - 1
    <3>1. Since(c, d, n) = c .. (c + 1) - 1
      BY <1>1, <2>2 DEF Since
    <3> QED
      BY <3>1
  <2> QED
    BY <2>1, <2>2
<1>4. c \in Since(s, c, n) => Since(s, c, n) = 0 .. n - 1
  <2>1. CASE s = c
    <3>1. Since(s, c, n) = (c .. n - 1) \cup (0 .. c - 1)
      BY <2>1 DEF Since
    <3> QED
      BY <3>1
  <2>2. CASE s # c
    BY <2>2 DEF Since
  <2> QED
    BY <2>1, <2>2
<1>5. c \notin Since(s, c, n) => Since(s, d, n) = Since(s, c, n) \cup {c}
  <2>1. CASE s = c
    BY <2>1 DEF Since
  <2>2. CASE s < c /\ c # n - 1
    <3>1. Since(s, c, n) = s .. c - 1 /\ Since(s, d, n) = s .. (c + 1) - 1
      BY <1>1, <2>2 DEF Since
    <3> QED
      BY <2>2, <3>1
  <2>3. CASE s < c /\ c = n - 1
    <3>1. d = 0 /\ ~(s < 0)
      BY <1>1, <2>3
    <3>2. Since(s, c, n) = s .. c - 1
      BY <2>3 DEF Since
    <3>3. Since(s, d, n) = (s .. n - 1) \cup (0 .. 0 - 1)
      BY <3>1 DEF Since
    <3> QED
      BY <2>3, <3>2, <3>3
  <2>4. CASE s > c
    <3>1. d = c + 1 /\ ~(s < c) /\ ~(s < d)
      BY <1>1, <2>4
    <3>2. /\ Since(s, c, n) = (s .. n - 1) \cup (0 .. c - 1)
          /\ Since(s, d, n) = (s .. n - 1) \cup (0 .. (c + 1) - 1)
      BY <3>1 DEF Since
    <3>3. 0 .. (c + 1) - 1 = (0 .. c - 1) \cup {c}
      OBVIOUS
    <3> QED
      BY <3>2, <3>3
  <2> QED
    BY <2>1, <2>2, <2>3, <2>4
<1> QED
  BY <1>2, <1>3, <1>4, <1>5

\* METHOD_ONE returns an instance again only when it has returned all.
LEMMA TurnOfNext ==
  ASSUME MapInv, CountInv, TurnInv, ChooseNext, count < Len(nodes)
  PROVE  /\ TurnInv'
         /\ got' \in turn => turn = Cached
<1> PICK n : n = Len(nodes)
  OBVIOUS
<1> PICK c : c = count
  OBVIOUS
<1>1. n \in Nat \ {0} /\ c \in 0 .. n - 1 /\ total = n
  BY ChoiceIs
<1>2. /\ got' = KeyAt(nodes, c) /\ count' = (c + 1) % n /\ nodes' = nodes
      /\ turn' = IF got' \in turn THEN {got'} ELSE turn \cup {got'}
  BY <1>1 DEF ChooseNext, After
<1> DEFINE at(k) == KeyAt(nodes, k)
<1>3. /\ \A k \in 0 .. n - 1 : at(k) \in Cached
      /\ \A k, l \in 0 .. n - 1 : at(k) = at(l) => k = l
      /\ \A x \in Cached : \E k \in 0 .. n - 1 : at(k) = x
  BY KeyAtIs DEF MapInv, Cached
<1>4. (c + 1) % n \in 0 .. n - 1 /\ Since(c, (c + 1) % n, n) = {c}
  BY <1>1, SinceIs
<1>5. TurnInv' <=> \/ turn' = {}
                   \/ /\ (c + 1) % n < n
                      /\ \E s \in 0 .. n - 1 :
                           turn' = {at(k) : k \in Since(s, (c + 1) % n, n)}
  BY <1>2 DEF TurnInv
<1>6. (c + 1) % n < n
  BY <1>1, <1>4
<1> HIDE DEF at
<1>7. turn' = {got'} => TurnInv'
  <2>1. {at(k) : k \in Since(c, (c + 1) % n, n)} = {at(c)}
    BY <1>4
  <2>2. got' = at(c)
    BY <1>2 DEF at
  <2> QED
    BY <1>1, <1>5, <1>6, <2>1, <2>2
<1>8. CASE turn = {}
  BY <1>2, <1>7, <1>8
<1>9. CASE turn # {}
  <2>1. PICK s \in 0 .. n - 1 : turn = {at(k) : k \in Since(s, c, n)}
    BY <1>9 DEF TurnInv, at
  <2>2. /\ Since(s, c, n) \subseteq 0 .. n - 1
        /\ c \in Since(s, c, n) => Since(s, c, n) = 0 .. n - 1
        /\ c \notin Since(s, c, n) => Since(s, (c + 1) % n, n) = Since(s, c, n) \cup {c}
    BY <1>1, SinceIs
  <2>3. got' = at(c)
    BY <1>2 DEF at
  <2>4. got' \in turn => c \in Since(s, c, n)
    BY <1>1, <1>3, <2>1, <2>2, <2>3
  <2>5. got' \in turn => turn = Cached
    BY <1>3, <2>1, <2>2, <2>4
  <2>6. CASE got' \notin turn
    <3>1. c \notin Since(s, c, n)
      BY <2>1, <2>3, <2>6
    <3>2. turn' = {at(k) : k \in Since(s, (c + 1) % n, n)}
      BY <1>2, <2>1, <2>2, <2>3, <2>6, <3>1
    <3> QED
      BY <1>5, <1>6, <2>5, <3>2
  <2> QED
    BY <1>2, <1>7, <2>5, <2>6
<1> QED
  BY <1>8, <1>9

LEMMA TurnInvStep ==
  ASSUME MapInv, CountInv, TurnInv, [Next]_vars
  PROVE  /\ TurnInv'
         /\ Chosen /\ call = "one" /\ got' \in turn => turn = Cached
<1> USE DEF cache, recv, caller
<1>1. CASE ChooseNext /\ count < Len(nodes)
  BY <1>1, TurnOfNext
<1>2. CASE /\ UNCHANGED <<nodes, count, turn>>
           /\ Chosen /\ call = "one" => got' = Null /\ Null \notin turn
  BY <1>2 DEF TurnInv
<1>3. CASE turn' = {} /\ ~Chosen
  BY <1>3 DEF TurnInv
<1>4. Null \notin turn
  <2>1. ASSUME NEW s \in 0 .. Len(nodes) - 1, count < Len(nodes)
        PROVE  Null \notin {KeyAt(nodes, k) : k \in Since(s, count, Len(nodes))}
    <3>1. Len(nodes) \in Nat
      BY NodesAre DEF MapInv
    <3>2. Len(nodes) \in Nat \ {0} /\ count \in 0 .. Len(nodes) - 1
      BY <2>1, <3>1 DEF CountInv
    <3>3. Since(s, count, Len(nodes)) \subseteq 0 .. Len(nodes) - 1
      BY <2>1, <3>2, SinceIs
    <3>4. \A k \in 0 .. Len(nodes) - 1 : KeyAt(nodes, k) \in Instances
      BY KeyAtIs, KeysAreCounted DEF MapInv
    <3> QED
      BY <3>3, <3>4, CacheAssumption
  <2> QED
    BY <2>1 DEF TurnInv
<1>5. CASE ChooseNext /\ ~(count < Len(nodes))
  BY <1>2, <1>4, <1>5 DEF ChooseNext
<1>6. CASE ChooseRandom
  BY <1>2, <1>6 DEF ChooseRandom
<1>7. CASE TakeOut \/ PutBack \/ AddEnd
  BY <1>3, <1>7 DEF TakeOut, PutBack, AddEnd, Chosen
<1>8. CASE RemoveInstance
  BY <1>3, <1>8 DEF RemoveInstance, Chosen
<1>9. CASE Tick \/ GetNone \/ AddCount \/ \E i \in Instances : Refresh(i) \/ AddBegin(i)
  BY <1>2, <1>9 DEF Tick, GetNone, AddCount, MayCall, Refresh, AddBegin, Chosen
<1>10. CASE \/ \E m \in Methods \cup {"check"} : Begin(m)
            \/ Advance \/ KeepInstance
            \/ CountDown
            \/ EndSweep
  BY <1>2, <1>10 DEF Begin, Advance, KeepInstance, CountDown, EndSweep, Chosen
<1>11. CASE UNCHANGED vars
  BY <1>2, <1>11 DEF vars, Chosen
<1> QED
  BY <1>1, <1>5, <1>6, <1>7, <1>8, <1>9, <1>10, <1>11 DEF Next, Receive, Ask

(* While no instance comes or goes, METHOD_ONE returns none again before   *)
(* it has returned all, whatever the order of the buckets, and though      *)
(* count is kept from one call to the next (mico_service_get_instance).    *)
THEOREM TurnsAreTaken ==
  ASSUME ~Overlap
  PROVE  Spec => TakesTurns
<1>1. Init => TurnInv
  BY DEF Init, TurnInv
<1>2. MapInv /\ CountInv /\ TurnInv /\ [Next]_vars
      => TurnInv' /\ (Chosen /\ call = "one" /\ got' \in turn => turn = Cached)
  BY TurnInvStep
<1> QED
  BY <1>1, <1>2, CacheInvHolds, PTL DEF Spec, TakesTurns
===============================================================================
