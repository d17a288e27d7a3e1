------------------------ MODULE DistributionProofs ------------------------
(***************************************************************************)
(* Distribution, for every cluster: the loops of distributeByHash and      *)
(* distributeByNodeHash find a pod, whatever the divisions round away.     *)
(***************************************************************************)
EXTENDS Distribution, FiniteSetTheorems, WellFoundedInduction, TLAPS

-----------------------------------------------------------------------------
(* Numbers *)

(* Min is the least element. *)
LEMMA MinIs ==
    ASSUME NEW S, S \subseteq Nat, S # {}
    PROVE  Min(S) \in S /\ \A y \in S : Min(S) <= y
<1>1. PICK x \in S : \A y \in S : ~(<<y, x>> \in OpToRel(<, Nat))
  BY NatLessThanWellFounded, WFMin
<1>2. ASSUME NEW y \in S PROVE x <= y
  <2>1. x \in Nat /\ y \in Nat
    OBVIOUS
  <2>2. y < x => <<y, x>> \in OpToRel(<, Nat)
    BY <2>1 DEF OpToRel
  <2>3. ~(y < x)
    BY <1>1, <2>2
  <2>4. QED
    BY <2>1, <2>3
<1>3. QED
  BY <1>2 DEF Min

(* Induction over the naturals, with a set in the place of a predicate. *)
LEMMA NatSetInduction ==
    ASSUME NEW T, T \subseteq Nat, 0 \in T, \A n \in T : n + 1 \in T
    PROVE  \A n \in Nat : n \in T
<1> DEFINE U == Nat \ T
<1> SUFFICES ASSUME U # {} PROVE FALSE
  OBVIOUS
<1>1. U \subseteq Nat
  OBVIOUS
<1> HIDE DEF U
<1>2. Min(U) \in U /\ \A y \in U : Min(U) <= y
  BY <1>1, MinIs
<1> DEFINE x == Min(U)
<1> HIDE DEF x
<1>3. x \in Nat /\ x \notin T /\ x # 0 /\ \A y \in U : x <= y
  BY <1>2 DEF U, x
<1>4. x - 1 \in Nat /\ (x - 1) + 1 = x /\ ~(x <= x - 1)
  BY <1>3
<1>5. x - 1 \in T
  BY <1>3, <1>4 DEF U
<1>6. QED
  BY <1>3, <1>4, <1>5

LEMMA ProductNat ==
    ASSUME NEW a \in Nat, NEW b \in Nat
    PROVE  a * b \in Nat
OBVIOUS

LEMMA ProductGrows ==
    ASSUME NEW a \in Nat, NEW b \in Nat, NEW c \in Nat, a <= b
    PROVE  a * c <= b * c
OBVIOUS

LEMMA InInterval ==
    ASSUME NEW n \in Nat
    PROVE  /\ \A S : S \subseteq 1..n => S \subseteq Nat
           /\ n # 0 => n \in 1..n
OBVIOUS

(* What n equal parts of a line leave over is less than n. *)
LEMMA PartsFill ==
    ASSUME NEW t \in Nat, NEW n \in Nat \ {0}
    PROVE  /\ t \div n \in Nat
           /\ n * (t \div n) \in Nat
           /\ n * (t \div n) <= t
           /\ n * (t \div n) >= t - n + 1
<1> DEFINE q == t \div n
           r == t % n
<1>1. q \in Nat /\ r \in Nat /\ r < n /\ t = n * q + r
  OBVIOUS
<1> HIDE DEF q, r
<1>2. n * q \in Nat
  BY <1>1, ProductNat
<1> DEFINE z == n * q
<1> HIDE DEF z
<1>3. z \in Nat /\ t = z + r
  BY <1>1, <1>2 DEF z
<1>4. z <= t /\ z >= t - n + 1
  BY <1>1, <1>3
<1>5. QED
  BY <1>1, <1>3, <1>4 DEF z, q

-----------------------------------------------------------------------------
(* Sorted *)

Rank(S) == [x \in S |-> Cardinality({y \in S : y <= x})]

LEMMA RankIncreases ==
    ASSUME NEW S, IsFiniteSet(S), S \subseteq Nat,
           NEW x \in S, NEW z \in S, x < z
    PROVE  Rank(S)[x] < Rank(S)[z]
<1> DEFINE X == {y \in S : y <= x}
           Z == {y \in S : y <= z}
<1>1. x \in Nat /\ z \in Nat
  OBVIOUS
<1>2. X \subseteq Z
  <2>1. ASSUME NEW y \in S, y <= x PROVE y <= z
    BY <1>1, <2>1
  <2>2. QED
    BY <2>1
<1>3. z \in Z /\ z \notin X
  BY <1>1
<1>4. IsFiniteSet(Z) /\ IsFiniteSet(X)
  BY FS_Subset
<1> HIDE DEF X, Z
<1>5. /\ Cardinality(X) <= Cardinality(Z)
      /\ Cardinality(X) # Cardinality(Z)
      /\ Cardinality(X) \in Nat /\ Cardinality(Z) \in Nat
  BY <1>2, <1>3, <1>4, FS_Subset, FS_CardinalityType
<1>6. Cardinality(X) < Cardinality(Z)
  BY <1>5
<1>7. QED
  BY <1>6 DEF Rank, X, Z

LEMMA RankRange ==
    ASSUME NEW S, IsFiniteSet(S), S \subseteq Nat, NEW x \in S
    PROVE  Rank(S)[x] \in 1..Cardinality(S)
<1> DEFINE X == {y \in S : y <= x}
<1>1. x \in X /\ X \subseteq S
  OBVIOUS
<1> HIDE DEF X
<1>2. /\ IsFiniteSet(X) /\ Cardinality(X) \in Nat /\ Cardinality(S) \in Nat
      /\ Cardinality(X) <= Cardinality(S) /\ Cardinality(X) # 0
  BY <1>1, FS_Subset, FS_CardinalityType, FS_EmptySet
<1>3. Cardinality(X) \in 1..Cardinality(S)
  BY <1>2
<1>4. QED
  BY <1>3 DEF Rank, X

(* Every place in the order is taken. *)
LEMMA RankOnto ==
    ASSUME NEW S, IsFiniteSet(S), S \subseteq Nat, NEW i \in 1..Cardinality(S)
    PROVE  \E x \in S : Rank(S)[x] = i
<1> DEFINE n == Cardinality(S)
           T == 1..n
           f == Rank(S)
<1>1. n \in Nat /\ IsFiniteSet(T) /\ Cardinality(T) = n
  <2>1. n \in Nat
    BY FS_CardinalityType
  <2> HIDE DEF n
  <2>2. IsFiniteSet(1..n) /\ Cardinality(1..n) = IF 1 > n THEN 0 ELSE n - 1 + 1
    BY <2>1, FS_Interval
  <2>3. QED
    BY <2>1, <2>2
<1>2. f \in [S -> T]
  BY RankRange DEF Rank
<1>3. ASSUME NEW x \in S, NEW z \in S, f[x] = f[z] PROVE x = z
  <2>1. x \in Nat /\ z \in Nat /\ f[x] \in Nat /\ f[z] \in Nat
    <3>1. Rank(S)[x] \in 1..Cardinality(S) /\ Rank(S)[z] \in 1..Cardinality(S)
      BY RankRange
    <3>2. QED
      BY <3>1
  <2>2. (x < z => f[x] < f[z]) /\ (z < x => f[z] < f[x])
    BY RankIncreases
  <2> HIDE DEF f
  <2>3. QED
    BY <1>3, <2>1, <2>2
<1> HIDE DEF T, n, f
<1>4. f \in Injection(S, T)
  BY <1>2, <1>3 DEF Injection, IsInjective
<1>5. f \in Surjection(S, T)
  BY <1>1, <1>4, FS_Injection DEF n
<1>6. QED
  BY <1>5 DEF Surjection, T, n, f

(* Sorted lists the set. *)
LEMMA SortedIs ==
    ASSUME NEW S, IsFiniteSet(S), S \subseteq Nat
    PROVE  /\ Cardinality(S) \in Nat
           /\ Sorted(S) \in [1..Cardinality(S) -> S]
           /\ Len(Sorted(S)) = Cardinality(S)
           /\ Sorted(S) = <<>> <=> S = {}
<1>1. Cardinality(S) \in Nat /\ (Cardinality(S) = 0 <=> S = {})
  BY FS_CardinalityType, FS_EmptySet
<1>2. ASSUME NEW i \in 1..Cardinality(S)
      PROVE  (CHOOSE x \in S : Cardinality({y \in S : y <= x}) = i) \in S
  <2>1. PICK x \in S : Rank(S)[x] = i
    BY RankOnto
  <2>2. Cardinality({y \in S : y <= x}) = i
    BY <2>1 DEF Rank
  <2>3. QED
    BY <2>2
<1>3. Sorted(S) \in [1..Cardinality(S) -> S]
  BY <1>2 DEF Sorted
<1> DEFINE n == Cardinality(S)
           s == Sorted(S)
<1> HIDE DEF n, s
<1>4. n \in Nat /\ s \in [1..n -> S]
  BY <1>1, <1>3 DEF n, s
<1>5. Len(s) = n
  BY <1>4
<1>6. s = <<>> <=> n = 0
  BY <1>4
<1>7. QED
  BY <1>1, <1>3, <1>5, <1>6 DEF n, s

LEMMA RankInjective ==
    ASSUME NEW S, IsFiniteSet(S), S \subseteq Nat, NEW x \in S, NEW z \in S,
           Rank(S)[x] = Rank(S)[z]
    PROVE  x = z
<1> DEFINE f == Rank(S)
<1>1. x \in Nat /\ z \in Nat /\ f[x] \in Nat /\ f[z] \in Nat
  <2>1. Rank(S)[x] \in 1..Cardinality(S) /\ Rank(S)[z] \in 1..Cardinality(S)
    BY RankRange
  <2>2. QED
    BY <2>1
<1>2. (x < z => f[x] < f[z]) /\ (z < x => f[z] < f[x])
  BY RankIncreases
<1> HIDE DEF f
<1>3. f[x] = f[z]
  BY DEF f
<1>4. QED
  BY <1>1, <1>2, <1>3

(* Sorted has each element at its rank, and nowhere else. *)
LEMMA SortedAt ==
    ASSUME NEW S, IsFiniteSet(S), S \subseteq Nat, NEW x \in S, NEW i \in 1..Cardinality(S)
    PROVE  Sorted(S)[i] = x <=> i = Rank(S)[x]
<1> DEFINE c == CHOOSE y \in S : Cardinality({z \in S : z <= y}) = i
<1>1. Sorted(S)[i] = c
  BY DEF Sorted
<1>2. c \in S /\ Cardinality({z \in S : z <= c}) = i
  <2>1. PICK y \in S : Rank(S)[y] = i
    BY RankOnto
  <2>2. Cardinality({z \in S : z <= y}) = i
    BY <2>1 DEF Rank
  <2>3. QED
    BY <2>2
<1> HIDE DEF c
<1>3. Rank(S)[c] = i
  BY <1>2 DEF Rank
<1>4. i = Rank(S)[x] => c = x
  BY <1>2, <1>3, RankInjective
<1>5. QED
  BY <1>1, <1>3, <1>4

-----------------------------------------------------------------------------
(* distributeByHash *)

LEMMA SomePods ==
    ASSUME NEW as \in SUBSET Pods
    PROVE  /\ IsFiniteSet(as) /\ as \subseteq Nat /\ NoPod \notin as
           /\ Cardinality(as) \in Nat
           /\ as # {} => Cardinality(as) # 0
  BY FS_Subset, FS_CardinalityType, FS_EmptySet, DistributionAssumption DEF NoPod

LEMMA ConstantsNat ==
    /\ MaxPrefix \in Nat /\ Scale \in Nat \ {0} /\ Total \in Nat
    /\ \A prefix \in HashPrefixes : prefix \in Nat /\ prefix * Scale \in Nat
<1>1. MaxPrefix \in Nat /\ Scale \in Nat \ {0}
  BY DistributionAssumption
<1>2. Total \in Nat
  BY <1>1, ProductNat DEF Total
<1>3. \A prefix \in HashPrefixes : prefix \in Nat
  BY <1>1 DEF HashPrefixes
<1>4. QED
  BY <1>1, <1>2, <1>3, ProductNat

(* The line beyond a prefix other than the last is longer than Scale. *)
LEMMA LineBeyond ==
    ASSUME NEW prefix \in HashPrefixes, prefix # MaxPrefix
    PROVE  prefix * Scale <= Total - Scale
<1>1. prefix \in Nat /\ prefix + 1 \in Nat /\ prefix + 1 <= MaxPrefix /\ MaxPrefix \in Nat
  BY ConstantsNat DEF HashPrefixes
<1>2. (prefix + 1) * Scale <= MaxPrefix * Scale
  BY <1>1, ConstantsNat, ProductGrows
<1>3. (prefix + 1) * Scale = prefix * Scale + Scale
  BY <1>1, ConstantsNat
<1>4. QED
  BY <1>1, <1>2, <1>3, ConstantsNat DEF Total

LEMMA HashRange ==
    ASSUME NEW as \in SUBSET Pods, NEW prefix
    PROVE  DistributeByHash(prefix, as) \in as \cup {NoPod}
<1> DEFINE n == Cardinality(as)
           ends == IntervalEnds(prefix, n)
<1>1. Sorted(as) \in [1..n -> as]
  BY SomePods, SortedIs
<1>2. ends \subseteq 1..n /\ n \in Nat
  BY SomePods DEF IntervalEnds
<1> HIDE DEF n
<1>3. CASE ends # {}
  <2>1. Min(ends) \in 1..n
    <3>1. ends \subseteq Nat
      BY <1>2
    <3> HIDE DEF ends
    <3>2. QED
      BY <1>2, <1>3, <3>1, MinIs
  <2>2. Sorted(as)[Min(ends)] \in as
    BY <1>1, <2>1
  <2>3. QED
    BY <1>3, <2>2 DEF DistributeByHash, n
<1>4. CASE ends = {}
  BY <1>4 DEF DistributeByHash, n
<1>5. QED
  BY <1>3, <1>4

(* distributeByHash finds a pod for every infohash that does not start     *)
(* with fffff, although the division of the line loses its end: as long as *)
(* there are no more pods than the scale of the line, what it loses is     *)
(* shorter than the step from one prefix to the next.                      *)
THEOREM HashCovers ==
    ASSUME NEW as \in SUBSET Pods, as # {}, Cardinality(as) <= Scale,
           NEW prefix \in HashPrefixes, prefix # MaxPrefix
    PROVE  DistributeByHash(prefix, as) \in as
<1> DEFINE n == Cardinality(as)
           x == prefix * Scale
           z == n * (Total \div n)
<1>1. n \in Nat \ {0} /\ n <= Scale /\ Scale \in Nat /\ Total \in Nat /\ x \in Nat
  BY SomePods, ConstantsNat
<1>2. x <= Total - Scale
  BY LineBeyond
<1>3. z \in Nat /\ z >= Total - n + 1
  BY <1>1, PartsFill
<1> HIDE DEF n, x, z
<1>4. x < z
  BY <1>1, <1>2, <1>3
<1>5. n \in IntervalEnds(prefix, n)
  BY <1>1, <1>4 DEF IntervalEnds, x, z
<1> DEFINE ends == IntervalEnds(prefix, n)
<1>6. ends # {} /\ ends \subseteq 1..n /\ ends \subseteq Nat
  BY <1>1, <1>5 DEF IntervalEnds
<1>7. DistributeByHash(prefix, as) = Sorted(as)[Min(ends)]
  BY <1>6 DEF DistributeByHash, n
<1> HIDE DEF ends
<1>8. Min(ends) \in 1..n
  BY <1>6, MinIs
<1>9. Sorted(as) \in [1..n -> as]
  BY SomePods, SortedIs DEF n
<1>10. QED
  BY <1>7, <1>8, <1>9

-----------------------------------------------------------------------------
(* distributeByNodeHash *)

(* The local definitions of DistributeByNodeHash. *)
NodesOf(as, allowed) == {NodeOf[a] : a \in as} \cap allowed
NodeList(as, allowed) == Sorted(NodesOf(as, allowed))
Width(as, allowed) == Total \div Len(NodeList(as, allowed))
PodList(as, allowed, i) == Sorted(On(NodeList(as, allowed)[i], as))
Hits(prefix, as, allowed, i) ==
    {j \in 1..Len(PodList(as, allowed, i)) :
        prefix * Scale < (i - 1) * Width(as, allowed)
                            + j * (Width(as, allowed) \div Len(PodList(as, allowed, i)))}
HitNodes(prefix, as, allowed) ==
    {i \in 1..Len(NodeList(as, allowed)) : Hits(prefix, as, allowed, i) # {}}

LEMMA NodeHashIs ==
    ASSUME NEW prefix, NEW as, NEW allowed
    PROVE  DistributeByNodeHash(prefix, as, allowed) =
               LET first == Min(HitNodes(prefix, as, allowed))
               IN  IF NodeList(as, allowed) = <<>> \/ HitNodes(prefix, as, allowed) = {}
                   THEN NoPod
                   ELSE PodList(as, allowed, first)[Min(Hits(prefix, as, allowed, first))]
  BY DEF DistributeByNodeHash, NodeList, NodesOf, Width, PodList, Hits, HitNodes

LEMMA NodesFacts ==
    ASSUME NEW as \in SUBSET Pods, NEW allowed
    PROVE  /\ IsFiniteSet(NodesOf(as, allowed)) /\ NodesOf(as, allowed) \subseteq Nat
           /\ Cardinality(NodesOf(as, allowed)) \in Nat
           /\ Len(NodeList(as, allowed)) = Cardinality(NodesOf(as, allowed))
           /\ NodeList(as, allowed) \in
                 [1..Cardinality(NodesOf(as, allowed)) -> NodesOf(as, allowed)]
           /\ NodeList(as, allowed) = <<>> <=> NodesOf(as, allowed) = {}
<1>1. NodesOf(as, allowed) \subseteq Nodes
  BY DistributionAssumption DEF NodesOf
<1> DEFINE N == NodesOf(as, allowed)
<1> HIDE DEF N
<1>2. IsFiniteSet(N) /\ N \subseteq Nat
  BY <1>1, FS_Subset, DistributionAssumption DEF N
<1>3. QED
  BY <1>2, SortedIs DEF NodeList, N

LEMMA PodListFacts ==
    ASSUME NEW as \in SUBSET Pods, NEW allowed,
           NEW i \in 1..Len(NodeList(as, allowed))
    PROVE  LET node == NodeList(as, allowed)[i]
               L == Cardinality(On(node, as))
           IN  /\ node \in NodesOf(as, allowed)
               /\ On(node, as) \in SUBSET as
               /\ L \in Nat \ {0}
               /\ Len(PodList(as, allowed, i)) = L
               /\ PodList(as, allowed, i) \in [1..L -> On(node, as)]
<1> DEFINE node == NodeList(as, allowed)[i]
           L == Cardinality(On(node, as))
<1>1. node \in NodesOf(as, allowed)
  BY NodesFacts
<1>2. PICK a \in as : NodeOf[a] = node
  BY <1>1 DEF NodesOf
<1>3. a \in On(node, as) /\ On(node, as) \subseteq as /\ On(node, as) \in SUBSET Pods
  BY <1>2 DEF On
<1> DEFINE O == On(node, as)
<1> HIDE DEF node, O
<1>4. /\ IsFiniteSet(O) /\ O \subseteq Nat /\ O # {}
      /\ Cardinality(O) \in Nat /\ Cardinality(O) # 0
  BY <1>3, SomePods DEF O
<1>5. Len(Sorted(O)) = Cardinality(O) /\ Sorted(O) \in [1..Cardinality(O) -> O]
  BY <1>4, SortedIs
<1>6. QED
  BY <1>1, <1>3, <1>4, <1>5 DEF PodList, node, O

(* The pods on nodes that the role allows. *)
UsablePods(as, allowed) == {a \in as : NodeOf[a] \in allowed}

LEMMA NodeHashRange ==
    ASSUME NEW as \in SUBSET Pods, NEW allowed, NEW prefix
    PROVE  /\ DistributeByNodeHash(prefix, as, allowed) \in UsablePods(as, allowed) \cup {NoPod}
           /\ HitNodes(prefix, as, allowed) # {} =>
                 DistributeByNodeHash(prefix, as, allowed) \in UsablePods(as, allowed)
           /\ HitNodes(prefix, as, allowed) # {} =>
                 /\ Min(HitNodes(prefix, as, allowed)) \in 1..Len(NodeList(as, allowed))
                 /\ DistributeByNodeHash(prefix, as, allowed)
                      \in On(NodeList(as, allowed)[Min(HitNodes(prefix, as, allowed))], as)
           /\ HitNodes(prefix, as, allowed) = {} =>
                 DistributeByNodeHash(prefix, as, allowed) = NoPod
<1> DEFINE H == HitNodes(prefix, as, allowed)
           first == Min(H)
           hits == Hits(prefix, as, allowed, first)
           node == NodeList(as, allowed)[first]
<1>1. CASE H = {} \/ NodeList(as, allowed) = <<>>
  <2>1. NodeList(as, allowed) = <<>> => H = {}
    BY DEF HitNodes
  <2>2. QED
    BY <1>1, <2>1, NodeHashIs
<1>2. CASE H # {} /\ NodeList(as, allowed) # <<>>
  <2>1. H \subseteq 1..Len(NodeList(as, allowed)) /\ Len(NodeList(as, allowed)) \in Nat
    BY NodesFacts DEF HitNodes
  <2>2. first \in H
    <3>1. H \subseteq Nat /\ H # {}
      BY <1>2, <2>1, InInterval
    <3> HIDE DEF H
    <3>2. QED
      BY <3>1, MinIs
  <2>3. first \in 1..Len(NodeList(as, allowed)) /\ hits # {}
    BY <2>2 DEF HitNodes
  <2> HIDE DEF H, first
  <2>4. /\ node \in NodesOf(as, allowed)
        /\ On(node, as) \in SUBSET as
        /\ Cardinality(On(node, as)) \in Nat
        /\ Len(PodList(as, allowed, first)) = Cardinality(On(node, as))
        /\ PodList(as, allowed, first) \in [1..Cardinality(On(node, as)) -> On(node, as)]
    BY <2>3, PodListFacts
  <2>5. hits \subseteq 1..Cardinality(On(node, as))
    BY <2>4 DEF Hits
  <2>6. Min(hits) \in hits
    <3>1. hits \subseteq Nat
      BY <2>4, <2>5, InInterval
    <3> HIDE DEF hits
    <3>2. QED
      BY <2>3, <3>1, MinIs
  <2>7. PodList(as, allowed, first)[Min(hits)] \in On(node, as)
    BY <2>4, <2>5, <2>6
  <2>8. DistributeByNodeHash(prefix, as, allowed) = PodList(as, allowed, first)[Min(hits)]
    BY <1>2, NodeHashIs DEF H, first
  <2>9. On(node, as) \subseteq UsablePods(as, allowed)
    BY <2>4 DEF On, UsablePods, NodesOf
  <2>10. QED
    BY <1>2, <2>3, <2>7, <2>8, <2>9 DEF H, first
<1>3. QED
  BY <1>1, <1>2

(* Every node but one has a pod that is not on that one. *)
LEMMA NodesAndPods ==
    ASSUME NEW as \in SUBSET Pods, NEW allowed, NEW node \in NodesOf(as, allowed)
    PROVE  Cardinality(NodesOf(as, allowed)) + Cardinality(On(node, as)) - 1 <= Cardinality(as)
<1> DEFINE N == NodesOf(as, allowed)
           O == On(node, as)
           R == as \ O
           Q == {a \in R : NodeOf[a] \in allowed}
           f == [a \in Q |-> NodeOf[a]]
<1>1. /\ IsFiniteSet(as) /\ IsFiniteSet(O) /\ IsFiniteSet(R) /\ IsFiniteSet(Q)
      /\ O \subseteq as /\ Q \subseteq R
  BY SomePods, FS_Subset DEF On
<1>2. f \in Surjection(Q, N \ {node})
  <2>1. f \in [Q -> N \ {node}]
    BY DEF NodesOf, On
  <2>2. ASSUME NEW m \in N \ {node} PROVE \E a \in Q : f[a] = m
    BY DEF NodesOf, On
  <2>3. QED
    BY <2>1, <2>2 DEF Surjection
<1>3. O \cup R = as /\ O \cap R = {}
  BY <1>1
<1>4. IsFiniteSet(N)
  BY NodesFacts
<1> HIDE DEF N, O, R, Q, f
<1>5. Cardinality(N \ {node}) <= Cardinality(Q)
  BY <1>1, <1>2, FS_Surjection
<1>6. Cardinality(Q) <= Cardinality(R)
  BY <1>1, FS_Subset
<1>7. Cardinality(as) = Cardinality(O) + Cardinality(R) - Cardinality({})
  BY <1>1, <1>3, FS_Union
<1>8. Cardinality(N \ {node}) = Cardinality(N) - 1
  BY <1>4, FS_RemoveElement DEF N
<1>9. /\ Cardinality(N) \in Nat /\ Cardinality(Q) \in Nat /\ Cardinality(R) \in Nat
      /\ Cardinality(O) \in Nat /\ Cardinality({}) = 0
  BY <1>1, <1>4, FS_CardinalityType, FS_EmptySet
<1>10. Cardinality(N) + Cardinality(O) - 1 <= Cardinality(as)
  BY <1>5, <1>6, <1>7, <1>8, <1>9
<1>11. QED
  BY <1>10 DEF N, O

(* The last pod of the last node ends beyond every prefix but the last. *)
LEMMA LastNodeHits ==
    ASSUME NEW as \in SUBSET Pods, Cardinality(as) <= Scale,
           NEW allowed, NodesOf(as, allowed) # {},
           NEW prefix \in HashPrefixes, prefix # MaxPrefix
    PROVE  HitNodes(prefix, as, allowed) # {}
<1> DEFINE m == Cardinality(NodesOf(as, allowed))
           node == NodeList(as, allowed)[m]
           L == Cardinality(On(node, as))
           w == Width(as, allowed)
           x == prefix * Scale
           y == (m - 1) * w
           z == L * (w \div L)
<1>1. m \in Nat \ {0} /\ Len(NodeList(as, allowed)) = m
  <2>1. m # 0
    BY NodesFacts, FS_EmptySet
  <2>2. QED
    BY <2>1, NodesFacts
<1>2. m \in 1..Len(NodeList(as, allowed))
  BY <1>1, InInterval
<1>3. /\ node \in NodesOf(as, allowed) /\ L \in Nat \ {0}
      /\ Len(PodList(as, allowed, m)) = L
  BY <1>2, PodListFacts
<1>4. m + L - 1 <= Scale /\ Cardinality(as) \in Nat
  <2>1. m + L - 1 <= Cardinality(as)
    BY <1>3, NodesAndPods
  <2>2. Cardinality(as) \in Nat
    BY SomePods
  <2>3. m \in Nat /\ L \in Nat /\ Scale \in Nat
    BY <1>1, <1>3, ConstantsNat
  <2> DEFINE c == Cardinality(as)
  <2>4. c \in Nat /\ c <= Scale /\ m + L - 1 <= c
    BY <2>1, <2>2
  <2> HIDE DEF m, L, c
  <2>5. m + L - 1 <= Scale
    BY <2>3, <2>4
  <2>6. QED
    BY <2>2, <2>5
<1>5. w \in Nat /\ m * w \in Nat /\ m * w >= Total - m + 1
  BY <1>1, ConstantsNat, PartsFill DEF Width
<1>6. x \in Nat /\ x <= Total - Scale
  BY ConstantsNat, LineBeyond
<1> HIDE DEF m, node, L, w, x
<1>7. z \in Nat /\ z >= w - L + 1
  BY <1>3, <1>5, PartsFill
<1>8. y \in Nat /\ y + w = m * w
  BY <1>1, <1>5, ProductNat
<1> HIDE DEF y, z
<1>9. x < y + z
  <2> DEFINE v == m * w
  <2>1. v \in Nat /\ v >= Total - m + 1 /\ y + w = v
    BY <1>5, <1>8
  <2> HIDE DEF v
  <2>2. QED
    BY <1>1, <1>3, <1>4, <1>5, <1>6, <1>7, <1>8, <2>1, ConstantsNat
<1>10. L \in Hits(prefix, as, allowed, m)
  <2>1. L \in 1..Len(PodList(as, allowed, m))
    BY <1>3, InInterval
  <2>2. prefix * Scale < (m - 1) * Width(as, allowed)
                            + L * (Width(as, allowed) \div Len(PodList(as, allowed, m)))
    BY <1>3, <1>9 DEF x, y, z, w
  <2>3. QED
    BY <2>1, <2>2 DEF Hits
<1>11. QED
  BY <1>2, <1>10 DEF HitNodes

(* distributeByNodeHash finds a pod on a node that the role allows, if     *)
(* there is one, for every infohash that does not start with fffff; both   *)
(* levels of division may round.  It never finds any other.                *)
THEOREM NodeHashCovers ==
    ASSUME NEW as \in SUBSET Pods, Cardinality(as) <= Scale, NEW allowed,
           NEW prefix \in HashPrefixes, prefix # MaxPrefix
    PROVE  IF UsablePods(as, allowed) = {}
           THEN DistributeByNodeHash(prefix, as, allowed) = NoPod
           ELSE DistributeByNodeHash(prefix, as, allowed) \in UsablePods(as, allowed)
<1>1. UsablePods(as, allowed) # {} => NodesOf(as, allowed) # {}
  BY DEF UsablePods, NodesOf
<1>2. QED
  BY <1>1, LastNodeHits, NodeHashRange

-----------------------------------------------------------------------------
(* Shares *)

LEMMA ProductsOrder ==
    ASSUME NEW a \in Nat, NEW b \in Nat, NEW c \in Nat \ {0}
    PROVE  a < b <=> a * c < b * c
<1>1. a <= b => a * c <= b * c
  BY ProductGrows
<1>2. b <= a => b * c <= a * c
  BY ProductGrows
<1>3. a < b => a * c < b * c
  <2>1. ASSUME a < b PROVE a * c < b * c
    <3>1. a + 1 \in Nat /\ a + 1 <= b
      BY <2>1
    <3>2. (a + 1) * c <= b * c
      BY <3>1, ProductGrows
    <3>3. (a + 1) * c = a * c + c
      OBVIOUS
    <3>4. a * c \in Nat /\ b * c \in Nat
      BY ProductNat
    <3>5. QED
      BY <3>2, <3>3, <3>4
  <2>2. QED
    BY <2>1
<1>4. a * c \in Nat /\ b * c \in Nat
  BY ProductNat
<1>5. QED
  BY <1>2, <1>3, <1>4

(* The least multiple of s that is not below A. *)
LEMMA NextMultiple ==
    ASSUME NEW A \in Nat, NEW s \in Nat \ {0}
    PROVE  \E c \in Nat : A <= c * s /\ c * s < A + s
<1> DEFINE t == A + s - 1
           c == t \div s
           y == s * c
<1>1. t \in Nat
  OBVIOUS
<1>2. c \in Nat /\ y \in Nat /\ y <= t /\ y >= t - s + 1
  BY <1>1, PartsFill
<1>3. y = c * s
  BY <1>2
<1> HIDE DEF c, y
<1>4. A <= y /\ y < A + s
  BY <1>2
<1>5. QED
  BY <1>2, <1>3, <1>4

(* Of the multiples of s, a stretch of q steps and a bit has q or q + 1.   *)
LEMMA MultiplesIn ==
    ASSUME NEW s \in Nat \ {0}, NEW A \in Nat, NEW B \in Nat, NEW q \in Nat, NEW K \in Nat,
           A + q * s <= B, B < A + q * s + s, B <= K * s
    PROVE  Cardinality({k \in 0..(K - 1) : A <= k * s /\ k * s < B}) \in q..(q + 1)
<1>1. PICK c \in Nat : A <= c * s /\ c * s < A + s
  BY NextMultiple
<1> DEFINE I == {k \in 0..(K - 1) : A <= k * s /\ k * s < B}
           cs == c * s
           qs == q * s
<1>2. cs \in Nat /\ qs \in Nat /\ K * s \in Nat
  BY ProductNat
<1>3. ASSUME NEW k \in Nat PROVE k * s \in Nat /\ (A <= k * s <=> c <= k)
  <2>1. k * s \in Nat
    BY ProductNat
  <2>2. c <= k => c * s <= k * s
    BY ProductGrows
  <2>3. k < c => k * s <= c * s - s
    <3>1. ASSUME k < c PROVE k * s <= c * s - s
      <4>1. k + 1 \in Nat /\ k + 1 <= c
        BY <3>1
      <4>2. (k + 1) * s <= c * s
        BY <4>1, ProductGrows
      <4>3. (k + 1) * s = k * s + s
        OBVIOUS
      <4>4. QED
        BY <1>2, <2>1, <4>2, <4>3
    <3>2. QED
      BY <3>1
  <2>4. A <= cs /\ cs < A + s
    BY <1>1
  <2> DEFINE ks == k * s
  <2>5. ks \in Nat /\ (c <= k => cs <= ks) /\ (k < c => ks <= cs - s)
    BY <2>1, <2>2, <2>3
  <2> HIDE DEF ks, cs
  <2>6. A <= ks <=> c <= k
    BY <1>2, <2>4, <2>5
  <2>7. QED
    BY <2>5, <2>6 DEF ks
<1>4. \E d \in Nat : /\ d \in {c + q, c + q + 1}
                    /\ \A k \in Nat : k * s < B <=> k < d
  <2>1. (c + q) * s = cs + qs /\ (c + q + 1) * s = cs + qs + s
    OBVIOUS
  <2>2. A <= cs /\ cs < A + s /\ A + qs <= B /\ B < A + qs + s
    BY <1>1
  <2> HIDE DEF cs, qs
  <2>3. c + q \in Nat /\ c + q + 1 \in Nat
    OBVIOUS
  <2>4. CASE cs + qs < B
    <3> DEFINE d == c + q + 1
    <3>1. B <= d * s /\ (d - 1) * s < B
      <4>1. d * s = cs + qs + s /\ (d - 1) * s = cs + qs
        BY <2>1
      <4>2. B <= cs + qs + s
        BY <1>2, <2>2
      <4>3. QED
        BY <2>4, <4>1, <4>2
    <3>2. ASSUME NEW k \in Nat PROVE k * s < B <=> k < d
      <4>1. k < d => k * s <= (d - 1) * s
        <5>1. k < d => k <= c + q
          OBVIOUS
        <5>2. d - 1 = c + q
          OBVIOUS
        <5>3. QED
          BY <5>1, <5>2, <2>3, ProductGrows
      <4>2. d <= k => d * s <= k * s
        BY <2>3, ProductGrows
      <4>3. k * s \in Nat /\ d * s \in Nat /\ (d - 1) * s \in Nat
        BY <2>3, ProductNat
      <4>4. d \in Nat
        BY <2>3
      <4> HIDE DEF d
      <4>5. QED
        BY <3>1, <4>1, <4>2, <4>3, <4>4
    <3>3. QED
      BY <2>3, <3>2
  <2>5. CASE ~(cs + qs < B)
    <3> DEFINE d == c + q
    <3>1. B <= d * s /\ d * s - s < B
      <4>1. d * s = cs + qs
        BY <2>1
      <4>2. QED
        BY <1>2, <2>2, <2>5, <4>1
    <3>2. ASSUME NEW k \in Nat PROVE k * s < B <=> k < d
      <4>1. k < d => k * s <= d * s - s
        <5>1. ASSUME k < d PROVE k * s <= d * s - s
          <6>1. k + 1 \in Nat /\ k + 1 <= d
            BY <5>1
          <6>2. (k + 1) * s <= d * s
            BY <2>3, <6>1, ProductGrows
          <6>3. (k + 1) * s = k * s + s
            OBVIOUS
          <6>4. k * s \in Nat /\ d * s \in Nat
            BY <2>3, ProductNat
          <6>5. QED
            BY <6>2, <6>3, <6>4
        <5>2. QED
          BY <5>1
      <4>2. d <= k => d * s <= k * s
        BY <2>3, ProductGrows
      <4>3. k * s \in Nat /\ d * s \in Nat
        BY <2>3, ProductNat
      <4>4. d \in Nat
        BY <2>3
      <4> HIDE DEF d
      <4>5. QED
        BY <3>1, <4>1, <4>2, <4>3, <4>4
    <3>3. QED
      BY <2>3, <3>2
  <2>6. QED
    BY <2>4, <2>5
<1>5. PICK d \in Nat : /\ d \in {c + q, c + q + 1}
                     /\ \A k \in Nat : k * s < B <=> k < d
  BY <1>4
<1>6. d <= K
  <2>1. ~(K * s < B)
    BY <1>2
  <2>2. ~(K < d)
    BY <1>5, <2>1
  <2>3. QED
    BY <2>2
<1>7. I = c..(d - 1)
  <2>1. ASSUME NEW k \in Nat PROVE k \in I <=> k \in c..(d - 1)
    BY <1>3, <1>5, <1>6
  <2>2. I \subseteq Nat /\ c..(d - 1) \subseteq Nat
    OBVIOUS
  <2> HIDE DEF I
  <2>3. QED
    BY <2>1, <2>2
<1> HIDE DEF I, cs, qs
<1>8. Cardinality(c..(d - 1)) = IF c > d - 1 THEN 0 ELSE (d - 1) - c + 1
  BY FS_Interval
<1>9. Cardinality(I) = d - c
  BY <1>5, <1>7, <1>8
<1>10. QED
  BY <1>5, <1>9 DEF I

(* The bounds of a row that x is below. *)
Below(m, b, x) == {j \in 1..m : x < b[j]}

(* The first of an increasing row of bounds that x is below. *)
LEMMA FirstBelow ==
    ASSUME NEW m \in Nat, NEW b \in [0..m -> Nat], NEW x \in Nat, b[0] = 0,
           \A i \in 1..m : b[i - 1] <= b[i], NEW i \in 1..m
    PROVE  (Below(m, b, x) # {} /\ Min(Below(m, b, x)) = i) <=> (b[i - 1] <= x /\ x < b[i])
<1> DEFINE H == Below(m, b, x)
<1>1. \A j \in 0..m, k \in 0..m : j <= k => b[j] <= b[k]
  <2> DEFINE U == {d \in Nat : \A j \in 0..m : j + d <= m => b[j] <= b[j + d]}
  <2>1. 0 \in U
    OBVIOUS
  <2>2. ASSUME NEW d \in U PROVE d + 1 \in U
    <3>1. d \in Nat /\ d + 1 \in Nat
      OBVIOUS
    <3>2. ASSUME NEW j \in 0..m, j + (d + 1) <= m PROVE b[j] <= b[j + (d + 1)]
      <4>1. b[j] <= b[j + d]
        BY <3>1, <3>2
      <4>2. j + (d + 1) \in 1..m /\ (j + (d + 1)) - 1 = j + d /\ j + d \in 0..m
        BY <3>1, <3>2
      <4>3. b[j + d] <= b[j + (d + 1)]
        BY <4>2
      <4>4. b[j] \in Nat /\ b[j + d] \in Nat /\ b[j + (d + 1)] \in Nat
        BY <4>2
      <4>5. QED
        BY <4>1, <4>3, <4>4
    <3>3. QED
      BY <3>1, <3>2
  <2>3. U \subseteq Nat
    OBVIOUS
  <2> HIDE DEF U
  <2>4. \A d \in Nat : d \in U
    BY <2>1, <2>2, <2>3, NatSetInduction
  <2>5. ASSUME NEW j \in 0..m, NEW k \in 0..m, j <= k PROVE b[j] <= b[k]
    <3>1. k - j \in Nat /\ j + (k - j) = k
      BY <2>5
    <3>2. k - j \in U
      BY <2>4, <3>1
    <3>3. QED
      BY <3>1, <3>2 DEF U
  <2>6. QED
    BY <2>5
<1>2. H \subseteq Nat /\ H = {j \in 1..m : x < b[j]}
  BY DEF Below
<1> HIDE DEF H
<1>3. ASSUME H # {}, Min(H) = i PROVE b[i - 1] <= x /\ x < b[i]
  <2>1. i \in H /\ \A j \in H : i <= j
    BY <1>2, <1>3, MinIs
  <2>2. i - 1 \notin H
    BY <2>1
  <2>3. QED
    BY <1>2, <2>1, <2>2
<1>4. ASSUME b[i - 1] <= x, x < b[i] PROVE H # {} /\ Min(H) = i
  <2>1. i \in H
    BY <1>2, <1>4
  <2>2. ASSUME NEW j \in H PROVE i <= j
    <3>1. j \in 1..m /\ x < b[j]
      BY <1>2
    <3>2. j <= i - 1 => b[j] <= b[i - 1]
      BY <1>1, <3>1
    <3>3. b[j] \in Nat /\ b[i - 1] \in Nat
      BY <3>1
    <3>4. QED
      BY <1>4, <3>1, <3>2, <3>3
  <2>3. Min(H) \in H /\ Min(H) <= i
    BY <1>2, <2>1, MinIs
  <2>4. i <= Min(H) /\ Min(H) \in Nat
    BY <1>2, <2>2, <2>3
  <2>5. QED
    BY <2>1, <2>3, <2>4
<1>5. QED
  BY <1>3, <1>4 DEF H

(* The prefixes of the i-th of n equal parts of the line. *)
LEMMA HashPart ==
    ASSUME NEW as \in SUBSET Pods, NEW a \in as, NEW prefix \in HashPrefixes
    PROVE  LET n == Cardinality(as)
               w == Total \div n
               i == Rank(as)[a]
           IN  DistributeByHash(prefix, as) = a <=>
                   (i - 1) * w <= prefix * Scale /\ prefix * Scale < i * w
<1> DEFINE n == Cardinality(as)
           w == Total \div n
           i == Rank(as)[a]
           x == prefix * Scale
           b == [j \in 0..n |-> j * w]
           H == IntervalEnds(prefix, n)
<1>1. n \in Nat \ {0} /\ IsFiniteSet(as) /\ as \subseteq Nat /\ NoPod \notin as
  BY SomePods
<1>2. i \in 1..n
  BY <1>1, RankRange
<1>3. w \in Nat /\ x \in Nat
  BY <1>1, ConstantsNat, PartsFill
<1>4. H = {j \in 1..n : x < j * w}
  BY DEF IntervalEnds
<1>5. \A j \in 1..n : Sorted(as)[j] = a <=> j = i
  BY <1>1, SortedAt
<1>6. DistributeByHash(prefix, as) = IF H = {} THEN NoPod ELSE Sorted(as)[Min(H)]
  BY DEF DistributeByHash
<1> HIDE DEF n, w, i, x, H
<1>7. b \in [0..n -> Nat] /\ b[0] = 0
  <2>1. \A j \in 0..n : j * w \in Nat
    BY <1>1, <1>3, ProductNat
  <2>2. 0 * w = 0 /\ 0 \in 0..n
    BY <1>1, <1>3
  <2>3. QED
    BY <2>1, <2>2
<1>8. ASSUME NEW j \in 1..n PROVE b[j - 1] <= b[j] /\ b[j] = j * w /\ b[j - 1] = (j - 1) * w
  <2>1. j \in Nat /\ j - 1 \in Nat /\ j - 1 <= j /\ j \in 0..n /\ j - 1 \in 0..n
    BY <1>1
  <2>2. (j - 1) * w <= j * w
    BY <1>3, <2>1, ProductGrows
  <2>3. QED
    BY <2>1, <2>2
<1>9. H = Below(n, b, x)
  BY <1>4, <1>8 DEF Below
<1>10. (H # {} /\ Min(H) = i) <=> (b[i - 1] <= x /\ x < b[i])
  <2> HIDE DEF b
  <2>1. n \in Nat /\ b[0] = 0 /\ \A j \in 1..n : b[j - 1] <= b[j]
    BY <1>1, <1>7, <1>8
  <2>2. b \in [0..n -> Nat] /\ x \in Nat /\ i \in 1..n
    BY <1>2, <1>3, <1>7
  <2>3. QED
    BY <1>9, <2>1, <2>2, FirstBelow
<1>11. H # {} => Min(H) \in 1..n
  <2>1. H \subseteq 1..n /\ H \subseteq Nat
    BY <1>1, <1>4
  <2>2. QED
    BY <2>1, MinIs
<1>12. DistributeByHash(prefix, as) = a <=> (H # {} /\ Min(H) = i)
  BY <1>1, <1>5, <1>6, <1>11
<1>13. QED
  BY <1>2, <1>8, <1>10, <1>12 DEF n, w, i, x

(* A part of the line is q = MaxPrefix \div n steps long and less than one *)
(* step more.                                                              *)
LEMMA PartLength ==
    ASSUME NEW n \in Nat \ {0}
    PROVE  LET q == MaxPrefix \div n
               w == Total \div n
           IN  q \in Nat /\ w \in Nat /\ q * Scale <= w /\ w < q * Scale + Scale
<1> DEFINE q == MaxPrefix \div n
           w == Total \div n
           nw == n * w
           nq == n * q
<1>1. q \in Nat /\ nq \in Nat /\ nq <= MaxPrefix /\ nq >= MaxPrefix - n + 1
  BY ConstantsNat, PartsFill
<1>2. w \in Nat /\ nw \in Nat /\ nw <= Total /\ nw >= Total - n + 1
  BY ConstantsNat, PartsFill
<1>3. nq * Scale <= Total
  BY <1>1, ConstantsNat, ProductGrows DEF Total
<1>4. Total <= (nq + n) * Scale - Scale
  <2>1. nq + n - 1 \in Nat /\ MaxPrefix <= nq + n - 1
    BY <1>1, ConstantsNat
  <2>2. MaxPrefix * Scale <= (nq + n - 1) * Scale
    BY <2>1, ConstantsNat, ProductGrows
  <2>3. (nq + n - 1) * Scale = (nq + n) * Scale - Scale
    BY <1>1, ConstantsNat
  <2>4. QED
    BY <2>2, <2>3 DEF Total
<1> HIDE DEF q, w
<1>5. nq * Scale = n * (q * Scale) /\ (nq + n) * Scale = n * (q * Scale + Scale)
  BY <1>1, ConstantsNat
<1> DEFINE qs == q * Scale
<1>6. qs \in Nat
  BY <1>1, ConstantsNat, ProductNat
<1>7. n * qs <= Total /\ Total <= n * (qs + Scale) - Scale
  BY <1>3, <1>4, <1>5
<1>8. qs <= w
  <2>1. SUFFICES ASSUME w + 1 <= qs PROVE FALSE
    BY <1>2, <1>6
  <2>2. (w + 1) * n <= qs * n
    BY <1>2, <1>6, <2>1, ProductGrows
  <2>3. (w + 1) * n = nw + n /\ qs * n = n * qs
    BY <1>2, <1>6
  <2> HIDE DEF nw, qs
  <2> DEFINE v == n * qs
  <2>4. nw + n <= v /\ v <= Total /\ v \in Nat
    BY <1>6, <1>7, <2>2, <2>3, ProductNat
  <2> HIDE DEF v
  <2>5. QED
    BY <1>2, <2>4, ConstantsNat
<1>9. w < qs + Scale
  <2>1. SUFFICES ASSUME qs + Scale <= w PROVE FALSE
    BY <1>2, <1>6, ConstantsNat
  <2>2. qs + Scale \in Nat
    BY <1>6, ConstantsNat
  <2>3. (qs + Scale) * n <= w * n
    BY <1>2, <2>1, <2>2, ProductGrows
  <2>4. w * n = nw /\ (qs + Scale) * n = n * (qs + Scale)
    BY <1>2, <2>2
  <2> DEFINE v == n * (qs + Scale)
  <2>5. v \in Nat
    BY <2>2, ProductNat
  <2>6. v <= nw /\ Total <= v - Scale
    BY <1>7, <2>3, <2>4
  <2> HIDE DEF nw, v
  <2>7. QED
    BY <1>2, <2>5, <2>6, ConstantsNat
<1>10. QED
  BY <1>1, <1>2, <1>8, <1>9 DEF q, w, qs

(* No pod gets more than its share of the torrents, nor less, although the *)
(* parts of the line are rounded and prefixes come in steps of Scale:      *)
(* distributeByHash gives each of n pods MaxPrefix / n prefixes, rounded   *)
(* down or up, for any number of pods.                                     *)
THEOREM HashEven ==
    ASSUME NEW as \in SUBSET Pods, NEW a \in as
    PROVE  LET q == MaxPrefix \div Cardinality(as)
           IN  Cardinality({k \in 0..(MaxPrefix - 1) : DistributeByHash(k, as) = a}) \in q..(q + 1)
<1> DEFINE n == Cardinality(as)
           q == MaxPrefix \div n
           w == Total \div n
           i == Rank(as)[a]
           A == (i - 1) * w
           B == i * w
<1>1. n \in Nat \ {0} /\ IsFiniteSet(as) /\ as \subseteq Nat
  BY SomePods
<1>2. i \in 1..n
  BY <1>1, RankRange
<1>3. q \in Nat /\ w \in Nat /\ q * Scale <= w /\ w < q * Scale + Scale
  BY <1>1, PartLength
<1>4. n * w <= Total
  BY <1>1, ConstantsNat, PartsFill
<1>5. ASSUME NEW k \in 0..(MaxPrefix - 1)
      PROVE  DistributeByHash(k, as) = a <=> (A <= k * Scale /\ k * Scale < B)
  <2>1. k \in HashPrefixes
    BY ConstantsNat DEF HashPrefixes
  <2>2. QED
    BY <2>1, HashPart
<1> HIDE DEF n, q, w, i
<1>6. A \in Nat /\ B \in Nat /\ B = A + w
  <2>1. i \in Nat /\ i - 1 \in Nat
    BY <1>1, <1>2
  <2>2. A \in Nat /\ B \in Nat
    BY <1>3, <2>1, ProductNat
  <2>3. QED
    BY <1>3, <2>1, <2>2
<1>7. B <= MaxPrefix * Scale
  <2>1. i * w <= n * w
    BY <1>1, <1>2, <1>3, ProductGrows
  <2>2. i * w \in Nat /\ n * w \in Nat
    BY <1>1, <1>2, <1>3, ProductNat
  <2>3. QED
    BY <1>4, <2>1, <2>2, ConstantsNat DEF Total
<1> DEFINE I == {k \in 0..(MaxPrefix - 1) : A <= k * Scale /\ k * Scale < B}
<1>8. {k \in 0..(MaxPrefix - 1) : DistributeByHash(k, as) = a} = I
  BY <1>5
<1> HIDE DEF A, B
<1>9. A + q * Scale <= B /\ B < A + q * Scale + Scale
  <2> DEFINE qs == q * Scale
  <2>1. qs \in Nat /\ qs <= w /\ w < qs + Scale
    BY <1>3, ConstantsNat, ProductNat
  <2> HIDE DEF qs
  <2>2. A + qs <= B /\ B < A + qs + Scale
    BY <1>3, <1>6, <2>1, ConstantsNat
  <2>3. QED
    BY <2>2 DEF qs
<1>10. Cardinality(I) \in q..(q + 1)
  BY <1>3, <1>6, <1>7, <1>9, ConstantsNat, MultiplesIn
<1>11. QED
  BY <1>8, <1>10 DEF n, q

(* Where the part of the i-th node ends, behind its last pod. *)
PodsOn(as, allowed, i) == Len(PodList(as, allowed, i))
NodeEnd(as, allowed, i) ==
    (i - 1) * Width(as, allowed)
        + PodsOn(as, allowed, i) * (Width(as, allowed) \div PodsOn(as, allowed, i))

LEMMA Counts ==
    ASSUME NEW as \in SUBSET Pods, NEW allowed, NEW i \in 1..Len(NodeList(as, allowed))
    PROVE  /\ Len(NodeList(as, allowed)) \in Nat \ {0} /\ Cardinality(as) \in Nat
           /\ i \in Nat /\ i - 1 \in Nat /\ i <= Len(NodeList(as, allowed))
           /\ PodsOn(as, allowed, i) \in Nat \ {0}
           /\ Len(NodeList(as, allowed)) + PodsOn(as, allowed, i) - 1 <= Cardinality(as)
<1> DEFINE m == Len(NodeList(as, allowed))
           node == NodeList(as, allowed)[i]
           N == NodesOf(as, allowed)
           O == On(node, as)
<1>1. m = Cardinality(N) /\ m \in Nat /\ Cardinality(as) \in Nat
  BY NodesFacts, SomePods
<1>2. node \in N /\ Cardinality(O) \in Nat \ {0} /\ PodsOn(as, allowed, i) = Cardinality(O)
  BY PodListFacts DEF PodsOn
<1>3. Cardinality(N) + Cardinality(O) - 1 <= Cardinality(as)
  BY <1>2, NodesAndPods
<1>4. i \in 1..m
  OBVIOUS
<1> HIDE DEF m, N, O
<1>5. m \in Nat \ {0} /\ i \in Nat /\ i - 1 \in Nat /\ i <= m
  BY <1>1, <1>4
<1>6. QED
  BY <1>1, <1>2, <1>3, <1>5 DEF m

LEMMA HitsIff ==
    ASSUME NEW as \in SUBSET Pods, NEW allowed, NEW prefix \in HashPrefixes,
           NEW i \in 1..Len(NodeList(as, allowed))
    PROVE  i \in HitNodes(prefix, as, allowed) <=> prefix * Scale < NodeEnd(as, allowed, i)
<1> DEFINE m == Len(NodeList(as, allowed))
           w == Width(as, allowed)
           L == PodsOn(as, allowed, i)
           p == w \div L
           y == (i - 1) * w
           x == prefix * Scale
<1>1. m \in Nat \ {0}
  BY Counts
<1>2. L \in Nat \ {0}
  BY Counts
<1>3. w \in Nat
  BY <1>1, ConstantsNat, PartsFill DEF Width
<1>4. Hits(prefix, as, allowed, i) = {j \in 1..L : x < y + j * p}
  BY DEF Hits, PodsOn
<1>5. x \in Nat
  BY ConstantsNat
<1> HIDE DEF m, w, L, x
<1>6. p \in Nat /\ y \in Nat /\ L * p \in Nat
  <2>1. i - 1 \in Nat
    BY Counts
  <2>2. QED
    BY <1>2, <1>3, <2>1, PartsFill, ProductNat
<1> HIDE DEF p, y
<1>7. \A j \in 1..L : j * p \in Nat /\ j * p <= L * p
  BY <1>2, <1>6, ProductNat, ProductGrows
<1>8. Hits(prefix, as, allowed, i) # {} <=> x < y + L * p
  <2>1. L \in 1..L
    BY <1>2
  <2>2. ASSUME NEW j \in 1..L, x < y + j * p PROVE x < y + L * p
    <3> DEFINE jp == j * p
               Lp == L * p
    <3>1. jp \in Nat /\ Lp \in Nat /\ jp <= Lp /\ x < y + jp
      BY <1>6, <1>7, <2>2
    <3> HIDE DEF jp, Lp
    <3>2. x < y + Lp
      BY <1>5, <1>6, <3>1
    <3>3. QED
      BY <3>2 DEF Lp
  <2>3. QED
    BY <1>4, <2>1, <2>2
<1>9. QED
  BY <1>8 DEF HitNodes, NodeEnd, w, L, p, y, x

(* As long as the roundings of all nodes and pods together are shorter     *)
(* than what a step leaves between a prefix and the ideal end of a node's  *)
(* part, they move no prefix to another node.                              *)
LEMMA NodeEndExact ==
    ASSUME NEW as \in SUBSET Pods, NEW allowed, NEW prefix \in HashPrefixes,
           NEW i \in 1..Len(NodeList(as, allowed)),
           Len(NodeList(as, allowed)) * Cardinality(as) <= Scale
    PROVE  prefix * Scale < NodeEnd(as, allowed, i)
               <=> prefix * Len(NodeList(as, allowed)) < i * MaxPrefix
<1> DEFINE m == Len(NodeList(as, allowed))
           c == Cardinality(as)
           w == Width(as, allowed)
           L == PodsOn(as, allowed, i)
           z == L * (w \div L)
           y == (i - 1) * w
           x == prefix * Scale
           e == NodeEnd(as, allowed, i)
<1>1. m \in Nat \ {0} /\ c \in Nat /\ m * c <= Scale
  BY Counts
<1>2. L \in Nat \ {0} /\ m + L - 1 <= c
  BY Counts
<1>3. w \in Nat /\ m * w \in Nat /\ m * w <= Total /\ m * w >= Total - m + 1
  BY <1>1, ConstantsNat, PartsFill DEF Width
<1>4. z \in Nat /\ z <= w /\ z >= w - L + 1
  BY <1>2, <1>3, PartsFill
<1>5. e = y + z
  BY DEF NodeEnd
<1>6. x \in Nat /\ prefix \in Nat /\ i \in Nat /\ i - 1 \in Nat /\ i <= m
  BY Counts, ConstantsNat
<1> HIDE DEF m, c, w, L, z, x, e
<1>7. y \in Nat /\ y + w = i * w /\ i * w \in Nat
  <2>1. y \in Nat /\ i * w \in Nat
    BY <1>3, <1>6, ProductNat
  <2>2. QED
    BY <1>3, <1>6, <2>1
<1> DEFINE iw == i * w
           imw == i * (m * w)
           it == i * Total
           pm == prefix * m
           iM == i * MaxPrefix
<1>8. /\ imw \in Nat /\ it \in Nat /\ pm \in Nat /\ iM \in Nat
      /\ m * iw = imw /\ m * x = pm * Scale /\ it = iM * Scale
  <2>1. imw \in Nat /\ it \in Nat /\ pm \in Nat /\ iM \in Nat
    BY <1>1, <1>3, <1>6, ConstantsNat, ProductNat
  <2>2. m * iw = imw
    BY <1>1, <1>3, <1>6
  <2>3. m * x = pm * Scale
    BY <1>1, <1>6, ConstantsNat DEF x
  <2>4. it = iM * Scale
    BY <1>6, ConstantsNat DEF Total
  <2>5. QED
    BY <2>1, <2>2, <2>3, <2>4
<1>9. y <= iw - w /\ e <= iw /\ e >= iw - L + 1 /\ e \in Nat /\ iw \in Nat
  <2> HIDE DEF y
  <2>1. iw \in Nat /\ y + w = iw
    BY <1>7
  <2> HIDE DEF iw
  <2>2. QED
    BY <1>2, <1>3, <1>4, <1>5, <1>7, <2>1
<1>10. ASSUME x < e PROVE pm < iM
  <2>1. x < iw
    BY <1>6, <1>9, <1>10
  <2>2. x * m < iw * m
    BY <1>1, <1>6, <1>9, <2>1, ProductsOrder
  <2>3. x * m = pm * Scale /\ iw * m = imw
    BY <1>1, <1>6, <1>8, <1>9
  <2>4. imw <= it
    <3>1. m * w \in Nat /\ m * w <= Total /\ i \in Nat /\ Total \in Nat
      BY <1>3, <1>6, ConstantsNat
    <3>2. (m * w) * i <= Total * i
      BY <3>1, ProductGrows
    <3>3. (m * w) * i = imw /\ Total * i = it
      BY <3>1
    <3>4. QED
      BY <3>2, <3>3
  <2>5. pm * Scale \in Nat /\ iM * Scale \in Nat
    BY <1>8, ConstantsNat, ProductNat
  <2> DEFINE a == pm * Scale
             b == iM * Scale
  <2>6. a \in Nat /\ b \in Nat /\ a < imw /\ imw <= b
    BY <1>8, <2>2, <2>3, <2>4, <2>5
  <2> HIDE DEF a, b, imw
  <2>7. a < b
    BY <1>8, <2>6
  <2>8. pm * Scale < iM * Scale
    BY <2>7 DEF a, b
  <2> HIDE DEF pm, iM
  <2>9. QED
    BY <1>8, <2>8, ConstantsNat, ProductsOrder
<1>11. ASSUME pm < iM PROVE x < e
  <2>1. pm * Scale + Scale <= it
    <3>1. pm + 1 \in Nat /\ pm + 1 <= iM
      BY <1>8, <1>11
    <3>2. (pm + 1) * Scale <= iM * Scale
      BY <1>8, <3>1, ConstantsNat, ProductGrows
    <3>3. (pm + 1) * Scale = pm * Scale + Scale
      BY <1>8, ConstantsNat
    <3>4. QED
      BY <1>8, <3>2, <3>3
  <2>2. m * x + Scale <= it
    BY <1>8, <2>1
  <2>3. it <= imw + i * (m - 1)
    <3> DEFINE mw == m * w
    <3>1. mw \in Nat /\ Total <= mw + (m - 1) /\ Total \in Nat /\ m - 1 \in Nat
      BY <1>1, <1>3, ConstantsNat
    <3>2. mw + (m - 1) \in Nat
      BY <3>1
    <3>3. Total * i <= (mw + (m - 1)) * i
      BY <1>6, <3>1, <3>2, ProductGrows
    <3>4. Total * i = it /\ (mw + (m - 1)) * i = i * mw + i * (m - 1)
      BY <1>6, <3>1
    <3>5. QED
      BY <3>3, <3>4
  <2>4. i * (m - 1) <= m * (m - 1)
    BY <1>1, <1>6, ProductGrows
  <2>5. m * (iw - L + 1) <= m * e
    <3>1. iw - L + 1 <= e
      BY <1>9
    <3>2. CASE iw - L + 1 \in Nat
      <4>1. (iw - L + 1) * m <= e * m
        BY <1>1, <1>9, <3>1, <3>2, ProductGrows
      <4>2. QED
        BY <1>1, <1>9, <3>2, <4>1
    <3>3. CASE iw - L + 1 \notin Nat
      <4>1. iw - L + 1 \in Int /\ iw - L + 1 < 0
        BY <1>2, <1>9, <3>3
      <4> DEFINE g == iw - L + 1
      <4>2. g \in Int /\ g < 0
        BY <4>1
      <4> HIDE DEF g
      <4>3. m * g <= 0
        BY <1>1, <4>2
      <4>4. m * e \in Nat /\ m * g \in Int
        BY <1>1, <1>9, <4>2, ProductNat
      <4>5. m * g <= m * e
        BY <4>3, <4>4
      <4>6. QED
        BY <4>5 DEF g
    <3>4. QED
      BY <3>2, <3>3
  <2>6. m * (iw - L + 1) = imw - m * (L - 1)
    BY <1>1, <1>2, <1>8, <1>9
  <2>7. m * (m - 1) + m * (L - 1) <= Scale - m
    <3>1. m + L - 1 \in Nat
      BY <1>1, <1>2
    <3>2. (m + L - 1) * m <= c * m
      BY <1>1, <1>2, <3>1, ProductGrows
    <3>3. (m + L - 1) * m = m * (m - 1) + m * (L - 1) + m /\ c * m = m * c
      BY <1>1, <1>2
    <3> DEFINE u == m * (m - 1)
               v == m * (L - 1)
    <3>4. u \in Nat /\ v \in Nat /\ m * c \in Nat
      BY <1>1, <1>2, ProductNat
    <3>5. u + v + m <= m * c
      BY <3>2, <3>3
    <3> HIDE DEF u, v
    <3> DEFINE mc == m * c
    <3>6. mc \in Nat /\ u + v + m <= mc /\ mc <= Scale
      BY <1>1, <3>4, <3>5
    <3> HIDE DEF mc
    <3>7. u + v <= Scale - m
      BY <1>1, <3>4, <3>6, ConstantsNat
    <3>8. QED
      BY <3>7 DEF u, v
  <2>8. m * x < m * e
    <3> DEFINE u == m * (m - 1)
               v == m * (L - 1)
               t == i * (m - 1)
               mx == m * x
               me == m * e
               mf == m * (iw - L + 1)
    <3>1. u \in Nat /\ v \in Nat /\ t \in Nat /\ mx \in Nat /\ me \in Nat /\ m \in Nat \ {0}
      BY <1>1, <1>2, <1>6, <1>9, ProductNat
    <3>2. mx + Scale <= it /\ it <= imw + t /\ t <= u /\ imw - v <= me /\ u + v <= Scale - m
      BY <2>2, <2>3, <2>4, <2>5, <2>6, <2>7
    <3>3. imw \in Nat /\ it \in Nat /\ Scale \in Nat
      BY <1>8, ConstantsNat
    <3> HIDE DEF u, v, t, mx, me, it, imw
    <3>4. mx < me
      BY <3>1, <3>2, <3>3
    <3>5. QED
      BY <3>4 DEF mx, me
  <2>9. x * m < e * m
    BY <1>1, <1>6, <1>9, <2>8
  <2>10. QED
    BY <1>1, <1>6, <1>9, <2>9, ProductsOrder
<1>12. QED
  BY <1>10, <1>11 DEF x, e, m

(* The node of a prefix depends on the number of nodes only. *)
Ideal(m) == [j \in 0..m |-> j * MaxPrefix]

LEMMA IdealNode ==
    ASSUME NEW as \in SUBSET Pods, NEW allowed, NEW prefix \in HashPrefixes,
           Len(NodeList(as, allowed)) * Cardinality(as) <= Scale
    PROVE  HitNodes(prefix, as, allowed)
             = Below(Len(NodeList(as, allowed)), Ideal(Len(NodeList(as, allowed))),
                     prefix * Len(NodeList(as, allowed)))
<1> DEFINE m == Len(NodeList(as, allowed))
           H == HitNodes(prefix, as, allowed)
<1>1. ASSUME NEW j \in 1..m PROVE j \in H <=> prefix * m < j * MaxPrefix
  BY HitsIff, NodeEndExact
<1>2. m \in Nat /\ H \subseteq 1..m
  BY NodesFacts DEF HitNodes
<1> HIDE DEF m, H
<1>3. \A j \in 1..m : Ideal(m)[j] = j * MaxPrefix
  BY <1>2 DEF Ideal
<1>4. H = Below(m, Ideal(m), prefix * m)
  BY <1>1, <1>2, <1>3 DEF Below
<1>5. QED
  BY <1>4 DEF m, H

LEMMA IdealBounds ==
    ASSUME NEW m \in Nat
    PROVE  /\ Ideal(m) \in [0..m -> Nat] /\ Ideal(m)[0] = 0
           /\ \A j \in 1..m : /\ Ideal(m)[j - 1] <= Ideal(m)[j]
                              /\ Ideal(m)[j - 1] = (j - 1) * MaxPrefix
                              /\ Ideal(m)[j] = j * MaxPrefix
<1>1. \A j \in 0..m : j * MaxPrefix \in Nat
  BY ConstantsNat, ProductNat
<1>2. 0 * MaxPrefix = 0 /\ 0 \in 0..m
  BY ConstantsNat
<1>3. Ideal(m) \in [0..m -> Nat] /\ Ideal(m)[0] = 0
  BY <1>1, <1>2 DEF Ideal
<1>4. ASSUME NEW j \in 1..m
      PROVE  /\ Ideal(m)[j - 1] <= Ideal(m)[j]
             /\ Ideal(m)[j - 1] = (j - 1) * MaxPrefix
             /\ Ideal(m)[j] = j * MaxPrefix
  <2>1. j \in Nat /\ j - 1 \in Nat /\ j - 1 <= j /\ j \in 0..m /\ j - 1 \in 0..m
    OBVIOUS
  <2>2. (j - 1) * MaxPrefix <= j * MaxPrefix
    BY <2>1, ConstantsNat, ProductGrows
  <2>3. QED
    BY <2>1, <2>2 DEF Ideal
<1>5. QED
  BY <1>3, <1>4

(* No node gets more than its share of the torrents, nor less: with m      *)
(* nodes, each is given MaxPrefix / m prefixes, rounded down or up,        *)
(* however many pods it has, as long as nodes times pods stay within the   *)
(* scale of the line.                                                      *)
THEOREM NodeHashEven ==
    ASSUME NEW as \in SUBSET Pods, NEW allowed, NEW node \in NodesOf(as, allowed),
           Cardinality(NodesOf(as, allowed)) * Cardinality(as) <= Scale
    PROVE  LET q == MaxPrefix \div Cardinality(NodesOf(as, allowed))
           IN  Cardinality({k \in 0..(MaxPrefix - 1) :
                               DistributeByNodeHash(k, as, allowed) \in On(node, as)})
                 \in q..(q + 1)
<1> DEFINE N == NodesOf(as, allowed)
           m == Cardinality(N)
           q == MaxPrefix \div m
           i == Rank(N)[node]
           A == (i - 1) * MaxPrefix
           B == i * MaxPrefix
<1>1. /\ IsFiniteSet(N) /\ N \subseteq Nat /\ m \in Nat
      /\ Len(NodeList(as, allowed)) = m
  BY NodesFacts
<1>2. i \in 1..m
  BY <1>1, RankRange
<1>3. \A j \in 1..m : NodeList(as, allowed)[j] = node <=> j = i
  BY <1>1, SortedAt DEF NodeList
<1>4. m \in Nat \ {0} /\ i \in Nat /\ i - 1 \in Nat /\ i <= m
  <2> HIDE DEF m, i
  <2>1. QED
    BY <1>1, <1>2
<1>5. ASSUME NEW k \in 0..(MaxPrefix - 1)
      PROVE  DistributeByNodeHash(k, as, allowed) \in On(node, as) <=> (A <= k * m /\ k * m < B)
  <2> DEFINE H == HitNodes(k, as, allowed)
             p == DistributeByNodeHash(k, as, allowed)
  <2>1. k \in HashPrefixes /\ k \in Nat
    BY ConstantsNat DEF HashPrefixes
  <2>2. H = Below(m, Ideal(m), k * m)
    BY <1>1, <2>1, IdealNode
  <2>3. /\ H # {} => Min(H) \in 1..m /\ p \in On(NodeList(as, allowed)[Min(H)], as)
        /\ H = {} => p = NoPod
    BY <1>1, NodeHashRange
  <2>4. NoPod \notin On(node, as)
    BY SomePods DEF On
  <2> HIDE DEF N, m, i, H, p
  <2>5. k * m \in Nat
    BY <1>4, <2>1, ProductNat
  <2>6. (H # {} /\ Min(H) = i) <=> (Ideal(m)[i - 1] <= k * m /\ k * m < Ideal(m)[i])
    <3> DEFINE b == Ideal(m)
               x == k * m
    <3>1. /\ b \in [0..m -> Nat] /\ b[0] = 0 /\ x \in Nat /\ m \in Nat
          /\ \A j \in 1..m : b[j - 1] <= b[j]
      BY <1>1, <2>5, IdealBounds
    <3>2. H = Below(m, b, x)
      BY <2>2
    <3> HIDE DEF b, x
    <3>3. (H # {} /\ Min(H) = i) <=> (b[i - 1] <= x /\ x < b[i])
      BY <1>2, <3>1, <3>2, FirstBelow
    <3>4. QED
      BY <3>3 DEF b, x
  <2>7. p \in On(node, as) <=> (H # {} /\ Min(H) = i)
    <3>1. ASSUME H # {}, p \in On(node, as) PROVE Min(H) = i
      <4>1. NodeOf[p] = node /\ NodeOf[p] = NodeList(as, allowed)[Min(H)]
        BY <2>3, <3>1 DEF On
      <4>2. QED
        BY <1>3, <2>3, <3>1, <4>1
    <3>2. ASSUME H # {}, Min(H) = i PROVE p \in On(node, as)
      BY <1>2, <1>3, <2>3, <3>2
    <3>3. QED
      BY <2>3, <2>4, <3>1, <3>2
  <2>8. Ideal(m)[i - 1] = A /\ Ideal(m)[i] = B
    BY <1>1, <1>2, IdealBounds
  <2>9. QED
    BY <2>6, <2>7, <2>8 DEF p
<1>6. q \in Nat /\ m * q \in Nat /\ m * q <= MaxPrefix /\ m * q >= MaxPrefix - m + 1
  BY <1>4, ConstantsNat, PartsFill
<1> DEFINE I == {k \in 0..(MaxPrefix - 1) : A <= k * m /\ k * m < B}
<1>7. {k \in 0..(MaxPrefix - 1) : DistributeByNodeHash(k, as, allowed) \in On(node, as)} = I
  BY <1>5
<1> HIDE DEF N, m, q, i
<1>8. A \in Nat /\ B \in Nat /\ B = A + MaxPrefix /\ B <= MaxPrefix * m
  <2>1. A \in Nat /\ B \in Nat /\ m * MaxPrefix \in Nat
    BY <1>4, ConstantsNat, ProductNat
  <2>2. i * MaxPrefix <= m * MaxPrefix
    BY <1>4, ConstantsNat, ProductGrows
  <2>3. B = A + MaxPrefix
    BY <1>4, ConstantsNat
  <2>4. m * MaxPrefix = MaxPrefix * m
    BY <1>4, ConstantsNat
  <2>5. QED
    BY <2>1, <2>2, <2>3, <2>4
<1> HIDE DEF A, B
<1>9. A + q * m <= B /\ B < A + q * m + m
  <2> DEFINE qm == q * m
  <2>1. qm = m * q
    BY <1>4, <1>6
  <2>2. qm \in Nat /\ qm <= MaxPrefix /\ qm >= MaxPrefix - m + 1
    BY <1>6, <2>1
  <2> HIDE DEF qm
  <2>3. A + qm <= B /\ B < A + qm + m
    BY <1>4, <1>8, <2>2, ConstantsNat
  <2>4. QED
    BY <2>3 DEF qm
<1>10. Cardinality(I) \in q..(q + 1)
  BY <1>4, <1>6, <1>8, <1>9, ConstantsNat, MultiplesIn
<1>11. QED
  BY <1>7, <1>10 DEF N, m, q

(* What GetFallback counts on: a torrent whose pod is excluded stays on    *)
(* its node as long as the node has another pod, and no torrent of any     *)
(* other node moves, as long as nodes times pods stay within the scale.    *)
THEOREM ExclusionKeepsNode ==
    ASSUME NEW as \in SUBSET Pods, NEW allowed, NEW prefix \in HashPrefixes, NEW gone \in as,
           Cardinality(NodesOf(as, allowed)) * Cardinality(as) <= Scale,
           Cardinality(On(NodeOf[gone], as)) > 1,
           DistributeByNodeHash(prefix, as, allowed) # NoPod
    PROVE  LET p == DistributeByNodeHash(prefix, as \ {gone}, allowed)
           IN  p # NoPod /\ NodeOf[p] = NodeOf[DistributeByNodeHash(prefix, as, allowed)]
<1> DEFINE left == as \ {gone}
           N == NodesOf(as, allowed)
           m == Cardinality(N)
           H == HitNodes(prefix, as, allowed)
           G == HitNodes(prefix, left, allowed)
<1>1. PICK other \in as : other # gone /\ NodeOf[other] = NodeOf[gone]
  <2> DEFINE O == On(NodeOf[gone], as)
  <2>1. SUFFICES ASSUME \A a \in O : a = gone PROVE FALSE
    BY DEF On
  <2>2. gone \in O
    BY DEF On
  <2>3. O = {gone}
    BY <2>1, <2>2
  <2>4. Cardinality(O) = 1
    BY <2>3, FS_Singleton
  <2>5. QED
    BY <2>4
<1>2. NodesOf(left, allowed) = N
  BY <1>1 DEF NodesOf
<1>3. left \in SUBSET Pods /\ left \subseteq as
  OBVIOUS
<1>4. NodeList(left, allowed) = NodeList(as, allowed)
  BY <1>2 DEF NodeList
<1>5. Len(NodeList(as, allowed)) = m /\ m \in Nat
  BY NodesFacts
<1>6. m * Cardinality(left) <= Scale
  <2> DEFINE c == Cardinality(as)
             d == Cardinality(left)
  <2>1. d \in Nat /\ c \in Nat /\ d <= c /\ m * c <= Scale
    BY <1>3, SomePods, FS_Subset
  <2> HIDE DEF c, d, m
  <2>2. d * m <= c * m
    BY <1>5, <2>1, ProductGrows
  <2>3. d * m = m * d /\ c * m = m * c
    BY <1>5, <2>1
  <2>4. m * d \in Nat /\ m * c \in Nat /\ Scale \in Nat
    BY <1>5, <2>1, ProductNat, ConstantsNat
  <2> DEFINE u == m * d
             v == m * c
  <2>5. u \in Nat /\ v \in Nat /\ u <= v /\ v <= Scale
    BY <2>1, <2>2, <2>3, <2>4
  <2> HIDE DEF u, v
  <2>6. u <= Scale
    BY <2>4, <2>5
  <2>7. QED
    BY <2>6 DEF u, d
<1>7. H = G
  <2>1. H = Below(m, Ideal(m), prefix * m)
    BY <1>5, IdealNode
  <2>2. G = Below(m, Ideal(m), prefix * m)
    BY <1>3, <1>4, <1>5, <1>6, IdealNode
  <2>3. QED
    BY <2>1, <2>2
<1>8. H # {}
  BY NodeHashRange
<1>9. DistributeByNodeHash(prefix, as, allowed) \in On(NodeList(as, allowed)[Min(H)], as)
  BY <1>8, NodeHashRange
<1>10. DistributeByNodeHash(prefix, left, allowed) \in On(NodeList(left, allowed)[Min(G)], left)
  BY <1>3, <1>7, <1>8, NodeHashRange
<1>11. NoPod \notin left
  BY <1>3, SomePods
<1> HIDE DEF H, G
<1>12. QED
  BY <1>4, <1>7, <1>9, <1>10, <1>11 DEF On
=============================================================================
