-------------------------- MODULE AlgorithmProofs --------------------------
(***************************************************************************)
(* The properties of MCAlgorithms, for clusters, URLs and playlists of any *)
(* size.                                                                   *)
(***************************************************************************)
EXTENDS MCAlgorithms, DistributionProofs, SequenceTheorems

Distributions == [kind : {"distribution"}, key : HashPrefixes,
                  as : (SUBSET Pods) \ {{}}, allowed : SUBSET Nodes]

(* The services that AddMod adds. *)
ModCalls == [name : Mods, extra : {<<>>, <<"f">>}, path : {<<>>} \cup Plain(Tokens, MaxModPath)]

URLs == [kind : {"url"}, hash : HexWords \cup Mods,
         origin : Plain(Tokens \cup {"?"}, MaxOrigin) \cup Plain(Tokens, 2), mods : Seq(ModCalls)]

Manifests == [kind : {"manifest"}, rules : RuleLists, body : Seq(Lines)]

Inputs == Distributions \cup URLs \cup Manifests

InputOK == input \in Inputs

LEMMA InputsStay == InputOK /\ [Next]_input => InputOK'
<1> SUFFICES ASSUME input \in Inputs, [Next]_input PROVE input' \in Inputs
  BY DEF InputOK
<1> DEFINE MC == ModCalls
<1>1. ASSUME AddMod PROVE input' \in Inputs
  <2>1. input \in URLs
    BY <1>1 DEF AddMod, Inputs, Distributions, Manifests
  <2>2. PICK m \in Mods, e \in {<<>>, <<"f">>}, p \in {<<>>} \cup Plain(Tokens, MaxModPath) :
          input' = [input EXCEPT !.mods = Append(@, [name |-> m, extra |-> e, path |-> p])]
    BY <1>1 DEF AddMod
  <2> DEFINE c == [name |-> m, extra |-> e, path |-> p]
  <2>3. c \in ModCalls
    BY DEF ModCalls
  <2> HIDE DEF c
  <2>4. input.mods \in Seq(ModCalls) /\ input' = [input EXCEPT !.mods = Append(input.mods, c)]
    BY <2>1, <2>2 DEF URLs, c
  <2>5. Append(input.mods, c) \in Seq(ModCalls)
    BY <2>3, <2>4
  <2>6. input' \in URLs
    BY <2>1, <2>4, <2>5 DEF URLs
  <2>7. QED
    BY <2>6 DEF Inputs
<1>2. ASSUME AddLine PROVE input' \in Inputs
  <2>1. input \in Manifests
    BY <1>2 DEF AddLine, Inputs, Distributions, URLs
  <2>2. PICK l \in Lines : input' = [input EXCEPT !.body = Append(@, l)]
    BY <1>2 DEF AddLine
  <2>3. Append(input.body, l) \in Seq(Lines)
    BY <2>1 DEF Manifests
  <2>4. input' \in Manifests
    BY <2>1, <2>2, <2>3 DEF Manifests
  <2>5. QED
    BY <2>4 DEF Inputs
<1>3. QED
  BY <1>1, <1>2 DEF Next, Stop

LEMMA AlwaysInputs == Spec => []InputOK
<1>1. Init => InputOK
  <2> SUFFICES ASSUME Init PROVE input \in Inputs
    BY DEF InputOK
  <2>1. CASE input \in [kind : {"distribution"}, key : HashPrefixes,
                        as : (SUBSET Pods) \ {{}}, allowed : SUBSET Nodes]
    BY <2>1 DEF Inputs, Distributions
  <2>2. CASE \/ input \in [kind : {"url"}, hash : HexWords,
                           origin : Plain(Tokens \cup {"?"}, MaxOrigin), mods : {<<>>}]
             \/ input \in [kind : {"url"}, hash : Mods, origin : Plain(Tokens, 2), mods : {<<>>}]
    <3>1. <<>> \in Seq(ModCalls)
      OBVIOUS
    <3>2. input \in URLs
      BY <2>2, <3>1 DEF URLs
    <3>3. QED
      BY <3>2 DEF Inputs
  <2>3. CASE input \in [kind : {"manifest"}, rules : RuleLists, body : {<<>>}]
    <3>1. <<>> \in Seq(Lines)
      OBVIOUS
    <3>2. input \in Manifests
      BY <2>3, <3>1 DEF Manifests
    <3>3. QED
      BY <3>2 DEF Inputs
  <2>4. QED
    BY <2>1, <2>2, <2>3 DEF Init
<1>2. QED
  BY <1>1, InputsStay, PTL DEF Spec

-----------------------------------------------------------------------------
(* Distribution *)

(* A cluster within bounds: the code has 1000 for Scale. *)
LEMMA WithinScale ==
    ASSUME Cardinality(Pods) * Cardinality(Nodes) <= Scale,
           NEW as \in SUBSET Pods, as # {}, NEW allowed
    PROVE  /\ Cardinality(as) <= Scale
           /\ Cardinality(NodesOf(as, allowed)) * Cardinality(as) <= Scale
<1> DEFINE c == Cardinality(as)
           m == Cardinality(NodesOf(as, allowed))
           C == Cardinality(Pods)
           M == Cardinality(Nodes)
<1>1. /\ C \in Nat /\ M \in Nat \ {0} /\ c \in Nat /\ m \in Nat
      /\ c <= C /\ m <= M
  <2>1. IsFiniteSet(Pods) /\ IsFiniteSet(Nodes) /\ NodesOf(as, allowed) \subseteq Nodes /\ Nodes # {}
    BY DistributionAssumption DEF NodesOf
  <2>2. C \in Nat /\ M \in Nat /\ M # 0
    BY <2>1, FS_CardinalityType, FS_EmptySet
  <2>3. c \in Nat /\ c <= C
    BY <2>1, FS_Subset, FS_CardinalityType
  <2>4. m \in Nat /\ m <= M
    BY <2>1, FS_Subset, FS_CardinalityType
  <2>5. QED
    BY <2>2, <2>3, <2>4
<1> HIDE DEF c, m, C, M
<1>2. c * M <= C * M /\ m * c <= M * c
  BY <1>1, ProductGrows
<1>3. c * M = M * c /\ c <= c * M
  <2>1. 1 * c <= M * c
    BY <1>1, ProductGrows
  <2>2. QED
    BY <1>1, <2>1
<1> DEFINE x == c * M
           y == C * M
           z == m * c
<1>4. x \in Nat /\ y \in Nat /\ z \in Nat
  BY <1>1, ProductNat
<1>5. c <= x /\ z <= x /\ x <= y /\ y <= Scale
  BY <1>2, <1>3 DEF C, M
<1> HIDE DEF x, y, z
<1>6. c <= Scale /\ z <= Scale
  BY <1>1, <1>4, <1>5, ConstantsNat
<1>7. QED
  BY <1>6 DEF z, c, m

LEMMA InputIsDistribution ==
    ASSUME input \in Inputs, IsDistribution
    PROVE  /\ input.key \in HashPrefixes /\ input.as \in SUBSET Pods /\ input.as # {}
           /\ Usable = UsablePods(input.as, input.allowed)
<1>1. input \in Distributions
  BY DEF Inputs, URLs, Manifests, IsDistribution
<1>2. QED
  BY <1>1 DEF Distributions, Usable, UsablePods

(* Every torrent has a pod, and every pod and every node its share of the  *)
(* torrents, by distributeByHash and by distributeByNodeHash, for every    *)
(* cluster whose pods times nodes stay within the scale of the hash line:  *)
(* the roundings on both levels move the end of no node's part past a      *)
(* prefix.                                                                 *)
THEOREM SharesAreEven ==
    ASSUME Cardinality(Pods) * Cardinality(Nodes) <= Scale
    PROVE  Spec => []EvenPartition
<1>1. InputOK => EvenPartition
  <2> SUFFICES ASSUME input \in Inputs, IsDistribution PROVE EvenPartition
    BY DEF EvenPartition, InputOK
  <2> DEFINE as == input.as
             allowed == input.allowed
             N == NodesOf(as, allowed)
  <2>1. /\ input.key \in HashPrefixes /\ as \in SUBSET Pods /\ as # {}
        /\ Usable = UsablePods(as, allowed)
    BY InputIsDistribution
  <2>2. Cardinality(as) <= Scale /\ Cardinality(N) * Cardinality(as) <= Scale
    BY <2>1, WithinScale
  <2>3. {NodeOf[a] : a \in Usable} = N
    BY <2>1 DEF UsablePods, NodesOf
  <2>4. ASSUME input.key < MaxPrefix
        PROVE  /\ ByHash(input.key) \in input.as
               /\ IF Usable = {} THEN ByNode(input.key) = NoPod ELSE ByNode(input.key) \in Usable
    <3>1. input.key # MaxPrefix
      BY <2>1, <2>4, ConstantsNat
    <3>2. DistributeByHash(input.key, as) \in as
      BY <2>1, <2>2, <3>1, HashCovers
    <3>3. IF Usable = {} THEN DistributeByNodeHash(input.key, as, allowed) = NoPod
          ELSE DistributeByNodeHash(input.key, as, allowed) \in Usable
      BY <2>1, <2>2, <3>1, NodeHashCovers
    <3>4. QED
      BY <3>2, <3>3 DEF ByHash, ByNode
  <2>5. ASSUME NEW a \in as PROVE FairShare(ByHash, {a}, Cardinality(as))
    <3> DEFINE q == MaxPrefix \div Cardinality(as)
    <3>1. Cardinality({k \in 0..(MaxPrefix - 1) : DistributeByHash(k, as) = a}) \in q..(q + 1)
      BY <2>1, HashEven
    <3>2. {k \in 0..(MaxPrefix - 1) : DistributeByHash(k, as) \in {a}}
            = {k \in 0..(MaxPrefix - 1) : DistributeByHash(k, as) = a}
      OBVIOUS
    <3>3. QED
      BY <3>1, <3>2 DEF FairShare, Share, ByHash
  <2>6. ASSUME NEW n \in N PROVE FairShare(ByNode, On(n, as), Cardinality(N))
    <3> DEFINE q == MaxPrefix \div Cardinality(N)
    <3>1. Cardinality({k \in 0..(MaxPrefix - 1) :
                          DistributeByNodeHash(k, as, allowed) \in On(n, as)}) \in q..(q + 1)
      BY <2>1, <2>2, NodeHashEven
    <3>2. QED
      BY <3>1 DEF FairShare, Share, ByNode
  <2>7. QED
    BY <2>3, <2>4, <2>5, <2>6 DEF EvenPartition
<1>2. QED
  BY <1>1, AlwaysInputs, PTL

(* A torrent whose pod is excluded stays on its node as long as the node   *)
(* has another pod, and no torrent of any other node moves, for every      *)
(* cluster whose pods times nodes stay within the scale.                   *)
THEOREM ExclusionStays ==
    ASSUME Cardinality(Pods) * Cardinality(Nodes) <= Scale
    PROVE  Spec => []ExclusionStaysOnNode
<1>1. InputOK => ExclusionStaysOnNode
  <2> SUFFICES ASSUME input \in Inputs, IsDistribution, NEW q \in input.as,
                      Cardinality(On(NodeOf[q], input.as)) > 1, ByNode(input.key) # NoPod
               PROVE  LET p == DistributeByNodeHash(input.key, input.as \ {q}, input.allowed)
                      IN  p # NoPod /\ NodeOf[p] = NodeOf[ByNode(input.key)]
    BY DEF ExclusionStaysOnNode, InputOK
  <2> DEFINE as == input.as
             allowed == input.allowed
  <2>1. input.key \in HashPrefixes /\ as \in SUBSET Pods /\ as # {}
    BY InputIsDistribution
  <2>2. Cardinality(NodesOf(as, allowed)) * Cardinality(as) <= Scale
    BY <2>1, WithinScale
  <2>3. DistributeByNodeHash(input.key, as, allowed) # NoPod
    BY DEF ByNode
  <2>4. QED
    BY <2>1, <2>2, <2>3, ExclusionKeepsNode DEF ByNode
<1>2. QED
  BY <1>1, AlwaysInputs, PTL

-----------------------------------------------------------------------------
(* Recursion over the elements of a sequence *)

Iterates(f, g, s, N) == f[0] = s /\ \A n \in 1..N : f[n] = g[n][f[n - 1]]

LEMMA IteratesExist ==
    ASSUME NEW S, NEW s \in S, NEW N \in Nat, NEW g \in [1..N -> [S -> S]]
    PROVE  \E f \in [0..N -> S] : Iterates(f, g, s, N)
<1> DEFINE T == {n \in Nat : n <= N => \E f \in [0..n -> S] : Iterates(f, g, s, n)}
<1>1. 0 \in T
  <2> DEFINE f == [n \in 0..0 |-> s]
  <2>1. f \in [0..0 -> S] /\ Iterates(f, g, s, 0)
    BY DEF Iterates
  <2>2. QED
    BY <2>1
<1>2. ASSUME NEW n \in T PROVE n + 1 \in T
  <2>1. n \in Nat /\ n + 1 \in Nat
    OBVIOUS
  <2> SUFFICES ASSUME n + 1 <= N PROVE \E f \in [0..(n + 1) -> S] : Iterates(f, g, s, n + 1)
    BY <2>1
  <2>2. PICK f \in [0..n -> S] : Iterates(f, g, s, n)
    BY <2>1
  <2> DEFINE v == g[n + 1][f[n]]
             h == [k \in 0..(n + 1) |-> IF k = n + 1 THEN v ELSE f[k]]
  <2>3. v \in S
    <3>1. n + 1 \in 1..N /\ n \in 0..n
      BY <2>1
    <3>2. f[n] \in S /\ g[n + 1] \in [S -> S]
      BY <2>2, <3>1
    <3>3. QED
      BY <3>2
  <2>4. h \in [0..(n + 1) -> S]
    <3> HIDE DEF v
    <3>1. QED
      BY <2>1, <2>2, <2>3
  <2>5. h[0] = s
    BY <2>1, <2>2 DEF Iterates
  <2>6. ASSUME NEW k \in 1..(n + 1) PROVE h[k] = g[k][h[k - 1]]
    <3>1. CASE k = n + 1
      <4>1. h[k] = v /\ h[k - 1] = f[n]
        BY <2>1, <3>1
      <4>2. QED
        BY <3>1, <4>1
    <3>2. CASE k # n + 1
      <4>1. k \in 1..n /\ h[k] = f[k] /\ h[k - 1] = f[k - 1]
        BY <2>1, <3>2
      <4>2. QED
        BY <2>2, <4>1 DEF Iterates
    <3>3. QED
      BY <3>1, <3>2
  <2>7. QED
    BY <2>4, <2>5, <2>6 DEF Iterates
<1>3. N \in T
  <2>1. T \subseteq Nat
    OBVIOUS
  <2> HIDE DEF T
  <2>2. QED
    BY <1>1, <1>2, <2>1, NatSetInduction
<1>4. QED
  BY <1>3

(* What holds before a loop and is kept by every round holds after each. *)
LEMMA LoopInduction ==
    ASSUME NEW N \in Nat, NEW T, 0 \in T, \A n \in 1..N : n - 1 \in T => n \in T
    PROVE  \A n \in 0..N : n \in T
<1> DEFINE U == {n \in Nat : n <= N => n \in T}
<1>1. 0 \in U
  OBVIOUS
<1>2. ASSUME NEW n \in U PROVE n + 1 \in U
  <2>1. n + 1 <= N => (n + 1 \in 1..N /\ (n + 1) - 1 = n)
    OBVIOUS
  <2>2. QED
    BY <2>1
<1>3. \A n \in Nat : n \in U
  <2>1. U \subseteq Nat
    OBVIOUS
  <2> HIDE DEF U
  <2>2. QED
    BY <1>1, <1>2, <2>1, NatSetInduction
<1>4. QED
  BY <1>3

-----------------------------------------------------------------------------
(* Playlists *)

(* All lines a playlist can have, with tokens of a set. *)
AnyLine(tokens) ==
    [t : {"offset", "extinf"}, sec : Int \cup {BadNumber}] \cup [t : {"url"}, token : tokens]
    \cup {OtherLine}

LEMMA LineKinds ==
    ASSUME NEW tokens, NEW l \in AnyLine(tokens)
    PROVE  /\ l.t \in {"offset", "extinf", "url", "other"}
           /\ l.t \in {"offset", "extinf"} => l.sec \in Int \cup {BadNumber}
           /\ l.t = "url" => l = SegmentLine(l.token) /\ l.token \in tokens
<1>1. CASE l \in [t : {"offset", "extinf"}, sec : Int \cup {BadNumber}]
  BY <1>1
<1>2. CASE l \in [t : {"url"}, token : tokens]
  BY <1>2 DEF SegmentLine
<1>3. CASE l = OtherLine
  BY <1>3 DEF OtherLine
<1>4. QED
  BY <1>1, <1>2, <1>3 DEF AnyLine

LEMMA SessionOffsetIsInt ==
    ASSUME NEW tokens, NEW body \in Seq(AnyLine(tokens))
    PROVE  ParseSessionOffset(body) \in Int
<1> DEFINE I == {i \in 1..Len(body) : body[i].t = "offset"}
           k == IF I # {} THEN Min(I) ELSE 0
<1>1. ParseSessionOffset(body) = IF k = 0 \/ body[k].sec = BadNumber THEN 0 ELSE body[k].sec
  BY DEF ParseSessionOffset, SelectInSeq
<1>2. I # {} => Min(I) \in I
  <2>1. I \subseteq Nat
    OBVIOUS
  <2> HIDE DEF I
  <2>2. QED
    BY <2>1, MinIs
<1>3. ASSUME k # 0 PROVE body[k].sec \in Int \cup {BadNumber}
  <2>1. k \in I
    BY <1>2, <1>3
  <2>2. k \in 1..Len(body) /\ body[k].t = "offset" /\ body[k] \in AnyLine(tokens)
    BY <2>1
  <2>3. QED
    BY <2>2, LineKinds
<1> HIDE DEF k
<1>4. QED
  BY <1>1, <1>3

(* The recursion of stripSessionOffsetLine. *)
Kept(body, k) ==
    /\ k[0] = <<>>
    /\ \A n \in 1..Len(body) :
          k[n] = IF body[n].t = "offset" THEN k[n - 1] ELSE Append(k[n - 1], body[n])

LEMMA StripIs ==
    ASSUME NEW S, NEW body \in Seq(S)
    PROVE  \E k : Kept(body, k) /\ StripSessionOffsetLine(body) = k[Len(body)]
<1> DEFINE N == Len(body)
           F(k) == [n \in 0..N |->
                      IF n = 0 THEN <<>>
                      ELSE IF body[n].t = "offset" THEN k[n - 1] ELSE Append(k[n - 1], body[n])]
           g == [n \in 1..N |-> [a \in Seq(S) |-> IF body[n].t = "offset" THEN a ELSE Append(a, body[n])]]
<1>1. N \in Nat
  OBVIOUS
<1>2. \E k : k = F(k)
  <2>1. g \in [1..N -> [Seq(S) -> Seq(S)]] /\ <<>> \in Seq(S)
    OBVIOUS
  <2>2. PICK k \in [0..N -> Seq(S)] : Iterates(k, g, <<>>, N)
    <3> HIDE DEF g
    <3>1. QED
      BY <1>1, <2>1, IteratesExist
  <2>3. ASSUME NEW n \in 0..N PROVE k[n] = F(k)[n]
    <3>1. CASE n = 0
      BY <2>2, <3>1 DEF Iterates
    <3>2. CASE n # 0
      <4>1. n \in 1..N /\ k[n - 1] \in Seq(S)
        BY <1>1, <2>2, <3>2
      <4>2. k[n] = g[n][k[n - 1]]
        BY <2>2, <4>1 DEF Iterates
      <4>3. QED
        BY <3>2, <4>1, <4>2
    <3>3. QED
      BY <3>1, <3>2
  <2>4. k = F(k)
    BY <2>2, <2>3
  <2>5. QED
    BY <2>4
<1> DEFINE c == CHOOSE k : k = F(k)
<1>3. StripSessionOffsetLine(body) = c[N]
  BY DEF StripSessionOffsetLine
<1>4. c = F(c)
  BY <1>2
<1>5. Kept(body, c)
  <2> HIDE DEF c
  <2>1. c[0] = <<>>
    BY <1>1, <1>4
  <2>2. ASSUME NEW n \in 1..N
        PROVE  c[n] = IF body[n].t = "offset" THEN c[n - 1] ELSE Append(c[n - 1], body[n])
    <3>1. n \in 0..N /\ n # 0
      BY <1>1
    <3>2. QED
      BY <1>4, <3>1
  <2>3. QED
    BY <2>1, <2>2 DEF Kept
<1>6. QED
  BY <1>3, <1>5

(* The duration that counts for the line after line n. *)
LEMMA DurationSteps ==
    ASSUME NEW tokens, NEW body \in Seq(AnyLine(tokens))
    PROVE  /\ DurationAt(body, 1) = 0
           /\ \A n \in 1..Len(body) :
                 DurationAt(body, n + 1) =
                    IF body[n].t = "url" THEN 0
                    ELSE IF body[n].t = "extinf" /\ body[n].sec # BadNumber THEN body[n].sec
                    ELSE DurationAt(body, n)
<1> DEFINE G(i) == {j \in Since(body, i) : body[j].t = "extinf" /\ body[j].sec # BadNumber}
<1>1. \A i : DurationAt(body, i) = IF G(i) = {} THEN 0 ELSE body[Max(G(i))].sec
  BY DEF DurationAt
<1>2. G(1) = {}
  BY DEF Since
<1>3. ASSUME NEW n \in 1..Len(body)
      PROVE  DurationAt(body, n + 1) =
                IF body[n].t = "url" THEN 0
                ELSE IF body[n].t = "extinf" /\ body[n].sec # BadNumber THEN body[n].sec
                ELSE DurationAt(body, n)
  <2>1. n \in Nat /\ n >= 1 /\ (n + 1) - 1 = n
    OBVIOUS
  <2>2. CASE body[n].t = "url"
    <3>1. Since(body, n + 1) = {}
      <4>1. ASSUME NEW j \in 1..n PROVE n \in j..n
        BY <2>1
      <4>2. QED
        BY <2>1, <2>2, <4>1 DEF Since
    <3>2. QED
      BY <1>1, <2>2, <3>1
  <2>3. CASE body[n].t # "url"
    <3>1. Since(body, n + 1) = Since(body, n) \cup {n}
      <4>1. ASSUME NEW j \in Since(body, n + 1), j # n PROVE j \in Since(body, n)
        <5>1. j \in 1..(n - 1) /\ \A i \in j..n : body[i].t # "url"
          BY <2>1, <4>1 DEF Since
        <5>2. \A i \in j..(n - 1) : i \in j..n
          BY <2>1, <5>1
        <5>3. QED
          BY <5>1, <5>2 DEF Since
      <4>2. ASSUME NEW j \in Since(body, n) PROVE j \in Since(body, n + 1)
        <5>1. j \in 1..(n - 1) /\ \A i \in j..(n - 1) : body[i].t # "url"
          BY DEF Since
        <5>2. \A i \in j..n : i = n \/ i \in j..(n - 1)
          BY <2>1, <5>1
        <5>3. j \in 1..n
          BY <2>1, <5>1
        <5>4. QED
          BY <2>1, <2>3, <5>1, <5>2, <5>3 DEF Since
      <4>3. n \in Since(body, n + 1)
        <5>1. \A i \in n..n : i = n
          BY <2>1
        <5>2. QED
          BY <2>1, <2>3, <5>1 DEF Since
      <4>4. QED
        BY <4>1, <4>2, <4>3
    <3>2. CASE body[n].t = "extinf" /\ body[n].sec # BadNumber
      <4>1. n \in G(n + 1)
        BY <3>1, <3>2
      <4>2. \A j \in G(n + 1) : j \in Int /\ n >= j
        BY <2>1 DEF Since
      <4> HIDE DEF G
      <4>3. Max(G(n + 1)) = n
        <5> DEFINE x == CHOOSE x \in G(n + 1) : \A y \in G(n + 1) : x >= y
        <5>1. x \in G(n + 1) /\ \A y \in G(n + 1) : x >= y
          BY <4>1, <4>2
        <5>2. Max(G(n + 1)) = x
          BY DEF Max
        <5> HIDE DEF x
        <5>3. QED
          BY <2>1, <4>1, <4>2, <5>1, <5>2
      <4>4. QED
        BY <1>1, <2>3, <3>2, <4>1, <4>3
    <3>3. CASE ~(body[n].t = "extinf" /\ body[n].sec # BadNumber)
      <4>1. G(n + 1) = G(n)
        BY <3>1, <3>3
      <4> HIDE DEF G
      <4>2. QED
        BY <1>1, <2>3, <3>3, <4>1
    <3>4. QED
      BY <3>2, <3>3
  <2>4. QED
    BY <2>2, <2>3
<1>4. QED
  BY <1>1, <1>2, <1>3

LEMMA DurationIsInt ==
    ASSUME NEW tokens, NEW body \in Seq(AnyLine(tokens))
    PROVE  \A n \in 0..Len(body) : DurationAt(body, n + 1) \in Int
<1> DEFINE T == {n \in 0..Len(body) : DurationAt(body, n + 1) \in Int}
<1>1. Len(body) \in Nat
  OBVIOUS
<1>2. 0 \in T
  BY <1>1, DurationSteps
<1>3. ASSUME NEW n \in 1..Len(body), n - 1 \in T PROVE n \in T
  <2>1. n \in 0..Len(body) /\ (n - 1) + 1 = n /\ body[n] \in AnyLine(tokens)
    BY <1>1
  <2>2. DurationAt(body, n) \in Int
    BY <1>3, <2>1
  <2>3. body[n].t = "extinf" /\ body[n].sec # BadNumber => body[n].sec \in Int
    BY <2>1, LineKinds
  <2>4. DurationAt(body, n + 1) \in Int
    BY <2>2, <2>3, DurationSteps
  <2>5. QED
    BY <2>1, <2>4
<1> HIDE DEF T
<1>4. \A n \in 0..Len(body) : n \in T
  BY <1>1, <1>2, <1>3, LoopInduction
<1>5. QED
  BY <1>4 DEF T

LEMMA FilmTimeSteps ==
    ASSUME NEW tokens, NEW body \in Seq(AnyLine(tokens))
    PROVE  /\ FilmTime(body)[0] = ParseSessionOffset(body)
           /\ \A n \in 1..Len(body) :
                 FilmTime(body)[n] = FilmTime(body)[n - 1]
                                      + (IF body[n].t = "url" THEN DurationAt(body, n) ELSE 0)
<1> DEFINE N == Len(body)
           d(n) == IF body[n].t = "url" THEN DurationAt(body, n) ELSE 0
           F(k) == [n \in 0..N |-> IF n = 0 THEN ParseSessionOffset(body) ELSE k[n - 1] + d(n)]
           g == [n \in 1..N |-> [a \in Int |-> a + d(n)]]
<1>1. N \in Nat
  OBVIOUS
<1>2. ASSUME NEW n \in 1..N PROVE d(n) \in Int
  <2>1. n - 1 \in 0..N /\ (n - 1) + 1 = n
    BY <1>1
  <2>2. DurationAt(body, n) \in Int
    BY <2>1, DurationIsInt
  <2>3. QED
    BY <2>2
<1>3. \E k : k = F(k)
  <2>1. g \in [1..N -> [Int -> Int]]
    <3> HIDE DEF d
    <3>1. QED
      BY <1>2
  <2>2. PICK k \in [0..N -> Int] : Iterates(k, g, ParseSessionOffset(body), N)
    <3> HIDE DEF g
    <3>1. QED
      BY <1>1, <2>1, IteratesExist, SessionOffsetIsInt
  <2> HIDE DEF d
  <2>3. ASSUME NEW n \in 0..N PROVE k[n] = F(k)[n]
    <3>1. CASE n = 0
      BY <2>2, <3>1 DEF Iterates
    <3>2. CASE n # 0
      <4>1. n \in 1..N /\ k[n - 1] \in Int
        BY <1>1, <2>2, <3>2
      <4>2. k[n] = g[n][k[n - 1]]
        BY <2>2, <4>1 DEF Iterates
      <4>3. QED
        BY <3>2, <4>1, <4>2
    <3>3. QED
      BY <3>1, <3>2
  <2>4. k = F(k)
    BY <2>2, <2>3
  <2>5. QED
    BY <2>4
<1> DEFINE c == CHOOSE k : k = F(k)
<1>4. FilmTime(body) = c
  BY DEF FilmTime
<1>5. c = F(c)
  BY <1>3
<1> HIDE DEF c
<1>6. c[0] = ParseSessionOffset(body)
  BY <1>1, <1>5
<1>7. ASSUME NEW n \in 1..N PROVE c[n] = c[n - 1] + d(n)
  <2>1. n \in 0..N /\ n # 0
    BY <1>1
  <2> HIDE DEF d
  <2>2. QED
    BY <1>5, <2>1
<1>8. QED
  BY <1>4, <1>6, <1>7

Rewriting(tokens) == [out : Seq(AnyLine(tokens)), movieTime : Int, pending : Int]

LEMMA RewriteLineKeeps ==
    ASSUME NEW tokens, NEW a \in Rewriting(tokens), NEW l \in AnyLine(tokens),
           NEW rule, rule.token \in tokens, NEW primary
    PROVE  RewriteLine(a, l, rule, primary) \in Rewriting(tokens)
<1>1. a.out \in Seq(AnyLine(tokens)) /\ a.movieTime \in Int /\ a.pending \in Int
  BY DEF Rewriting
<1>2. \A x \in AnyLine(tokens) : Append(a.out, x) \in Seq(AnyLine(tokens))
  BY <1>1
<1>3. CASE l.t = "offset"
  BY <1>3 DEF RewriteLine
<1>4. CASE l.t = "extinf"
  <2>1. l.sec # BadNumber => l.sec \in Int
    BY <1>4, LineKinds
  <2> DEFINE p == IF l.sec = BadNumber THEN a.pending ELSE l.sec
             o == Append(a.out, l)
  <2>2. p \in Int /\ o \in Seq(AnyLine(tokens))
    BY <1>1, <1>2, <2>1
  <2>3. RewriteLine(a, l, rule, primary) = [a EXCEPT !.out = o, !.pending = p]
    BY <1>4 DEF RewriteLine
  <2> HIDE DEF p, o
  <2>4. QED
    BY <2>2, <2>3 DEF Rewriting
<1>5. CASE l.t = "other"
  <2> DEFINE o == Append(a.out, l)
  <2>1. RewriteLine(a, l, rule, primary) = [a EXCEPT !.out = o] /\ o \in Seq(AnyLine(tokens))
    BY <1>2, <1>5 DEF RewriteLine
  <2> HIDE DEF o
  <2>2. QED
    BY <2>1 DEF Rewriting
<1>6. CASE l.t = "url"
  <2> DEFINE x == IF InGrace(a, rule.duration) THEN SwapToken(l, primary, rule.token) ELSE l
             o == Append(a.out, x)
             s == a.movieTime + a.pending
  <2>1. x \in AnyLine(tokens)
    BY DEF SwapToken, SegmentLine, AnyLine
  <2>2. o \in Seq(AnyLine(tokens)) /\ s \in Int
    <3> HIDE DEF x
    <3>1. QED
      BY <1>1, <1>2, <2>1
  <2>3. RewriteLine(a, l, rule, primary) = [out |-> o, movieTime |-> s, pending |-> 0]
    BY <1>6 DEF RewriteLine
  <2> HIDE DEF o, s
  <2>4. QED
    BY <2>2, <2>3 DEF Rewriting
<1>7. QED
  BY <1>3, <1>4, <1>5, <1>6, LineKinds

LEMMA RewriteSteps ==
    ASSUME NEW tokens, NEW body \in Seq(AnyLine(tokens)), NEW rule, rule.token \in tokens, NEW primary
    PROVE  LET r == RewriteLines(body, rule, primary) IN
           /\ r \in [0..Len(body) -> Rewriting(tokens)]
           /\ r[0] = [out |-> <<>>, movieTime |-> ParseSessionOffset(body), pending |-> 0]
           /\ \A n \in 1..Len(body) : r[n] = RewriteLine(r[n - 1], body[n], rule, primary)
<1> DEFINE N == Len(body)
           S == Rewriting(tokens)
           start == [out |-> <<>>, movieTime |-> ParseSessionOffset(body), pending |-> 0]
           F(k) == [n \in 0..N |-> IF n = 0 THEN start ELSE RewriteLine(k[n - 1], body[n], rule, primary)]
           g == [n \in 1..N |-> [a \in S |-> RewriteLine(a, body[n], rule, primary)]]
<1>1. N \in Nat
  OBVIOUS
<1>2. start \in S
  <2>1. <<>> \in Seq(AnyLine(tokens)) /\ ParseSessionOffset(body) \in Int
    BY SessionOffsetIsInt
  <2>2. QED
    BY <2>1 DEF Rewriting
<1>3. \A n \in 1..N, a \in S : RewriteLine(a, body[n], rule, primary) \in S
  <2>1. \A n \in 1..N : body[n] \in AnyLine(tokens)
    OBVIOUS
  <2>2. QED
    BY <2>1, RewriteLineKeeps
<1> HIDE DEF start, S
<1>4. \E k : k = F(k)
  <2>1. g \in [1..N -> [S -> S]]
    BY <1>3
  <2>2. PICK k \in [0..N -> S] : Iterates(k, g, start, N)
    <3> HIDE DEF g
    <3>1. QED
      BY <1>1, <1>2, <2>1, IteratesExist
  <2>3. ASSUME NEW n \in 0..N PROVE k[n] = F(k)[n]
    <3>1. CASE n = 0
      BY <2>2, <3>1 DEF Iterates
    <3>2. CASE n # 0
      <4>1. n \in 1..N /\ k[n - 1] \in S
        BY <1>1, <2>2, <3>2
      <4>2. k[n] = g[n][k[n - 1]]
        BY <2>2, <4>1 DEF Iterates
      <4>3. QED
        BY <3>2, <4>1, <4>2
    <3>3. QED
      BY <3>1, <3>2
  <2>4. k = F(k)
    BY <2>2, <2>3
  <2>5. QED
    BY <2>4
<1> DEFINE c == CHOOSE k : k = F(k)
<1>5. RewriteLines(body, rule, primary) = c
  BY DEF RewriteLines, start
<1>6. c = F(c)
  BY <1>4
<1> HIDE DEF c
<1>7. c[0] = start
  BY <1>1, <1>6
<1>8. ASSUME NEW n \in 1..N PROVE c[n] = RewriteLine(c[n - 1], body[n], rule, primary)
  <2>1. n \in 0..N /\ n # 0
    BY <1>1
  <2>2. QED
    BY <1>6, <2>1
<1>9. \A n \in 0..N : c[n] \in S
  <2> DEFINE T == {n \in 0..N : c[n] \in S}
  <2>1. 0 \in T
    BY <1>1, <1>2, <1>7
  <2>2. \A n \in 1..N : n - 1 \in T => n \in T
    BY <1>1, <1>3, <1>8
  <2> HIDE DEF T
  <2>3. \A n \in 0..N : n \in T
    BY <1>1, <2>1, <2>2, LoopInduction
  <2>4. QED
    BY <2>3 DEF T
<1>10. c \in [0..N -> S]
  BY <1>6, <1>9
<1>11. QED
  BY <1>5, <1>7, <1>8, <1>10 DEF start, S

(* All rules a token can carry, as ExtractRules returns them. *)
AnyRule(words, tokens) == [kind : words, scope : words, duration : Int, token : tokens]

(* The rules that findGraceRule looks for. *)
UsableRules(rules) ==
    {k \in DOMAIN rules : /\ rules[k].kind = "grace" /\ rules[k].scope = "manifest"
                          /\ rules[k].token # NoToken /\ rules[k].duration > 0}

LEMMA GraceRuleIs ==
    ASSUME NEW words, NEW tokens, NEW rules \in Seq(AnyRule(words, tokens))
    PROVE  LET U == UsableRules(rules) IN
           /\ U = {} => FindGraceRule(rules) = NoRule
           /\ U # {} => /\ FindGraceRule(rules) = rules[Min(U)]
                        /\ rules[Min(U)] # NoRule
                        /\ rules[Min(U)].duration \in Int /\ rules[Min(U)].token \in tokens
<1> DEFINE U == UsableRules(rules)
           k == IF U # {} THEN Min(U) ELSE 0
<1>1. DOMAIN rules = 1..Len(rules)
  OBVIOUS
<1>2. FindGraceRule(rules) = IF k = 0 THEN NoRule ELSE rules[k]
  BY <1>1 DEF FindGraceRule, SelectInSeq, UsableRules
<1>3. ASSUME U # {}
      PROVE  /\ Min(U) # 0 /\ rules[Min(U)].duration > 0
             /\ rules[Min(U)].duration \in Int /\ rules[Min(U)].token \in tokens
  <2>1. U \subseteq Nat
    BY <1>1 DEF UsableRules
  <2>2. Min(U) \in U
    <3> HIDE DEF U
    <3>1. QED
      BY <1>3, <2>1, MinIs
  <2>3. Min(U) \in 1..Len(rules) /\ rules[Min(U)].duration > 0
    BY <1>1, <2>2 DEF UsableRules
  <2>4. rules[Min(U)] \in AnyRule(words, tokens)
    BY <2>3
  <2>5. QED
    BY <2>3, <2>4 DEF AnyRule
<1> HIDE DEF U
<1>4. QED
  BY <1>2, <1>3 DEF NoRule, U

(* Within the grace period, the loop's state after each line: the film     *)
(* time, the duration that counts for the next line, and the lines so far, *)
(* as GraceLine has them, without the session offset.                      *)
LEMMA RewriteFollows ==
    ASSUME NEW tokens, NEW body \in Seq(AnyLine(tokens)), NEW rule, rule.token \in tokens,
           rule.duration \in Int, NEW primary, ParseSessionOffset(body) < rule.duration
    PROVE  RewriteLines(body, rule, primary)[Len(body)].out = GraceManifest(body, rule, primary)
<1> DEFINE N == Len(body)
           L == [i \in DOMAIN body |-> GraceLine(body, i, rule, primary)]
           r == RewriteLines(body, rule, primary)
<1>1. N \in Nat /\ DOMAIN body = 1..N /\ \A n \in 1..N : body[n] \in AnyLine(tokens)
  OBVIOUS
<1>2. \A n \in 1..N : L[n] = GraceLine(body, n, rule, primary)
  BY <1>1
<1>3. \A n \in 1..N : L[n] \in AnyLine(tokens) /\ (L[n].t = body[n].t)
  <2> SUFFICES ASSUME NEW n \in 1..N
               PROVE  /\ GraceLine(body, n, rule, primary) \in AnyLine(tokens)
                      /\ GraceLine(body, n, rule, primary).t = body[n].t
    BY <1>2
  <2>1. SegmentLine(rule.token) \in AnyLine(tokens)
    BY DEF SegmentLine, AnyLine
  <2>2. body[n] = SegmentLine(primary) => SegmentLine(rule.token).t = body[n].t
    BY DEF SegmentLine
  <2>3. QED
    BY <1>1, <2>1, <2>2 DEF GraceLine
<1>4. L \in Seq(AnyLine(tokens)) /\ Len(L) = N
  <2>1. L = [i \in 1..N |-> L[i]]
    BY <1>1
  <2> HIDE DEF L
  <2>2. QED
    BY <1>1, <1>3, <2>1
<1>5. GraceManifest(body, rule, primary) = StripSessionOffsetLine(L)
  BY DEF GraceManifest
<1> HIDE DEF L
<1>6. PICK k : Kept(L, k) /\ StripSessionOffsetLine(L) = k[Len(L)]
  BY <1>4, StripIs
<1>7. /\ r \in [0..N -> Rewriting(tokens)]
      /\ r[0] = [out |-> <<>>, movieTime |-> ParseSessionOffset(body), pending |-> 0]
      /\ \A n \in 1..N : r[n] = RewriteLine(r[n - 1], body[n], rule, primary)
  BY RewriteSteps
<1> HIDE DEF r
<1> DEFINE Now(n) == /\ r[n].out = k[n]
                     /\ r[n].movieTime = FilmTime(body)[n]
                     /\ r[n].pending = DurationAt(body, n + 1)
           T == {n \in 0..N : Now(n)}
<1>8. 0 \in T
  <2>1. k[0] = <<>>
    BY <1>6 DEF Kept
  <2>2. FilmTime(body)[0] = ParseSessionOffset(body) /\ DurationAt(body, 0 + 1) = 0
    BY FilmTimeSteps, DurationSteps
  <2>3. QED
    BY <1>1, <1>7, <2>1, <2>2
<1>9. ASSUME NEW n \in 1..N, n - 1 \in T PROVE n \in T
  <2> DEFINE a == r[n - 1]
             l == body[n]
             d == DurationAt(body, n)
             m == FilmTime(body)[n - 1]
  <2>1. n - 1 \in 0..N /\ n \in 0..N /\ (n - 1) + 1 = n
    BY <1>1
  <2>2. a \in Rewriting(tokens) /\ a.out = k[n - 1] /\ a.movieTime = m /\ a.pending = d
    BY <1>7, <1>9, <2>1
  <2>3. a.movieTime \in Int /\ a.pending \in Int
    BY <2>2 DEF Rewriting
  <2>4. r[n] = RewriteLine(a, l, rule, primary)
    BY <1>7
  <2>5. FilmTime(body)[n] = m + (IF l.t = "url" THEN d ELSE 0)
    BY FilmTimeSteps
  <2>6. DurationAt(body, n + 1) = IF l.t = "url" THEN 0
                                  ELSE IF l.t = "extinf" /\ l.sec # BadNumber THEN l.sec ELSE d
    BY DurationSteps
  <2>7. k[n] = IF l.t = "offset" THEN k[n - 1] ELSE Append(k[n - 1], L[n])
    BY <1>3, <1>4, <1>6 DEF Kept
  <2>8. l.t # "url" => L[n] = l
    BY <1>2 DEF GraceLine, SegmentLine
  <2>9. l.t = "url" => L[n] = IF InGrace(a, rule.duration) THEN SwapToken(l, primary, rule.token) ELSE l
    <3> SUFFICES ASSUME l.t = "url"
                 PROVE  L[n] = IF InGrace(a, rule.duration) THEN SwapToken(l, primary, rule.token) ELSE l
      OBVIOUS
    <3>1. l = SegmentLine(l.token)
      BY <1>1, LineKinds
    <3>2. l = SegmentLine(primary) <=> l.token = primary
      BY <3>1 DEF SegmentLine
    <3>3. L[n] = IF l = SegmentLine(primary) /\ m < rule.duration /\ d > 0
                 THEN SegmentLine(rule.token) ELSE l
      BY <1>2 DEF GraceLine
    <3>4. QED
      BY <2>2, <3>2, <3>3 DEF InGrace, SwapToken
  <2>10. l.t \in {"offset", "extinf", "url", "other"} /\ m \in Int /\ d \in Int
    BY <1>1, <2>2, <2>3, LineKinds
  <2>11. CASE l.t = "offset"
    <3>1. r[n] = a
      BY <2>4, <2>11 DEF RewriteLine
    <3> HIDE DEF a, l, d, m
    <3>2. Now(n)
      BY <2>2, <2>5, <2>6, <2>7, <2>10, <2>11, <3>1
    <3>3. QED
      BY <2>1, <3>2
  <2>12. CASE l.t = "extinf"
    <3>1. r[n] = [a EXCEPT !.out = Append(a.out, l),
                           !.pending = IF l.sec = BadNumber THEN a.pending ELSE l.sec]
      BY <2>4, <2>12 DEF RewriteLine
    <3> HIDE DEF a, l, d, m
    <3>2. /\ r[n].out = Append(a.out, l) /\ r[n].movieTime = a.movieTime
          /\ r[n].pending = IF l.sec = BadNumber THEN a.pending ELSE l.sec
      BY <2>2, <3>1 DEF Rewriting
    <3>3. Now(n)
      BY <2>2, <2>5, <2>6, <2>7, <2>8, <2>10, <2>12, <3>2
    <3>4. QED
      BY <2>1, <3>3
  <2>13. CASE l.t = "other"
    <3>1. r[n] = [a EXCEPT !.out = Append(a.out, l)]
      BY <2>4, <2>13 DEF RewriteLine
    <3> HIDE DEF a, l, d, m
    <3>2. /\ r[n].out = Append(a.out, l) /\ r[n].movieTime = a.movieTime /\ r[n].pending = a.pending
      BY <2>2, <3>1 DEF Rewriting
    <3>3. Now(n)
      BY <2>2, <2>5, <2>6, <2>7, <2>8, <2>10, <2>13, <3>2
    <3>4. QED
      BY <2>1, <3>3
  <2>14. CASE l.t = "url"
    <3> DEFINE x == IF InGrace(a, rule.duration) THEN SwapToken(l, primary, rule.token) ELSE l
    <3>1. r[n] = [out |-> Append(a.out, x), movieTime |-> a.movieTime + a.pending, pending |-> 0]
      BY <2>4, <2>14 DEF RewriteLine
    <3>2. x = L[n]
      BY <2>9, <2>14
    <3> HIDE DEF a, l, d, m, x
    <3>3. Now(n)
      BY <2>2, <2>5, <2>6, <2>7, <2>10, <2>14, <3>1, <3>2
    <3>4. QED
      BY <2>1, <3>3
  <2>15. QED
    BY <2>10, <2>11, <2>12, <2>13, <2>14
<1>10. N \in T
  <2> HIDE DEF T
  <2>1. \A n \in 0..N : n \in T
    BY <1>1, <1>8, <1>9, LoopInduction
  <2>2. QED
    BY <1>1, <2>1
<1>11. QED
  BY <1>4, <1>5, <1>6, <1>10 DEF r

(* RewriteManifest, for every playlist, every list of rules and every      *)
(* token of the request: a segment of that token is given the token of the *)
(* first usable rule exactly if its film time lies before the end of the   *)
(* rule's period and a positive duration can be read for it, the session   *)
(* offset is removed, and all other lines stay.                            *)
THEOREM RewriteIsExact ==
    ASSUME NEW words, NEW tokens, NEW body \in Seq(AnyLine(tokens)),
           NEW rules \in Seq(AnyRule(words, tokens)), NEW primary
    PROVE  RewriteManifest(body, rules, primary) =
              IF UsableRules(rules) = {} \/ primary = NoToken THEN body
              ELSE GraceManifest(body, rules[Min(UsableRules(rules))], primary)
<1> DEFINE U == UsableRules(rules)
           rule == rules[Min(U)]
<1>1. CASE U = {} \/ primary = NoToken
  BY <1>1, GraceRuleIs DEF RewriteManifest
<1>2. CASE ~(U = {} \/ primary = NoToken)
  <2>1. /\ FindGraceRule(rules) = rule /\ rule # NoRule
        /\ rule.duration \in Int /\ rule.token \in tokens
    BY <1>2, GraceRuleIs
  <2> HIDE DEF rule
  <2>2. ParseSessionOffset(body) \in Int
    BY SessionOffsetIsInt
  <2>3. RewriteManifest(body, rules, primary) =
           IF ParseSessionOffset(body) >= rule.duration THEN StripSessionOffsetLine(body)
           ELSE RewriteLines(body, rule, primary)[Len(body)].out
    BY <1>2, <2>1 DEF RewriteManifest
  <2>4. CASE ParseSessionOffset(body) >= rule.duration
    <3>1. ~(ParseSessionOffset(body) < rule.duration)
      BY <2>1, <2>2, <2>4
    <3>2. \A i \in DOMAIN body : GraceLine(body, i, rule, primary) = body[i]
      BY <3>1 DEF GraceLine
    <3>3. [i \in DOMAIN body |-> GraceLine(body, i, rule, primary)] = [i \in DOMAIN body |-> body[i]]
      BY <3>2
    <3>4. [i \in DOMAIN body |-> body[i]] = body
      OBVIOUS
    <3>5. GraceManifest(body, rule, primary) = StripSessionOffsetLine(body)
      BY <3>3, <3>4 DEF GraceManifest
    <3>6. QED
      BY <1>2, <2>3, <2>4, <3>5 DEF rule
  <2>5. CASE ~(ParseSessionOffset(body) >= rule.duration)
    <3>1. ParseSessionOffset(body) < rule.duration
      BY <2>1, <2>2, <2>5
    <3>2. RewriteLines(body, rule, primary)[Len(body)].out = GraceManifest(body, rule, primary)
      BY <2>1, <3>1, RewriteFollows
    <3>3. QED
      BY <1>2, <2>3, <2>5, <3>2 DEF rule
  <2>6. QED
    BY <2>4, <2>5
<1>3. QED
  BY <1>1, <1>2

LEMMA InputIsManifest ==
    ASSUME input \in Inputs, input.kind = "manifest"
    PROVE  LET tokens == {"primary", "other", "grace", NoToken}
               words == {"grace", "manifest", "none"}
           IN
           /\ input.body \in Seq(AnyLine(tokens))
           /\ input.rules \in Seq(AnyRule(words, tokens))
           /\ UsableRules(input.rules) = {k \in DOMAIN input.rules :
                  input.rules[k].token = "grace" /\ input.rules[k].duration > 0}
<1> DEFINE tokens == {"primary", "other", "grace", NoToken}
           words == {"grace", "manifest", "none"}
           R == AnyRule(words, tokens)
<1>1. input.body \in Seq(Lines) /\ input.rules \in RuleLists
  BY DEF Inputs, Distributions, URLs, Manifests
<1>2. Lines \subseteq AnyLine(tokens)
  BY DEF Lines, AnyLine, OffsetLine, ExtinfLine, SegmentLine
<1>3. input.body \in Seq(AnyLine(tokens))
  <2> HIDE DEF tokens
  <2>1. QED
    BY <1>1, <1>2
<1>4. /\ \A n \in Int : GraceRule(n) \in R /\ GraceRule(n).token = "grace"
                        /\ GraceRule(n).kind = "grace" /\ GraceRule(n).scope = "manifest"
      /\ NoRule \in R /\ NoRule.token # "grace" /\ NoRule.kind # "grace"
  <2>1. ASSUME NEW n \in Int
        PROVE  /\ GraceRule(n) \in R /\ GraceRule(n).token = "grace"
               /\ GraceRule(n).kind = "grace" /\ GraceRule(n).scope = "manifest"
    BY DEF GraceRule, AnyRule
  <2>2. NoRule \in R
    BY DEF NoRule, AnyRule
  <2>3. NoRule.token # "grace" /\ NoRule.kind # "grace"
    BY TokensAssumption DEF NoRule
  <2>4. QED
    BY <2>1, <2>2, <2>3
<1>5. /\ input.rules \in Seq(R)
      /\ \A k \in DOMAIN input.rules : input.rules[k] = NoRule \/ \E n \in Int : input.rules[k] = GraceRule(n)
  <2> HIDE DEF R
  <2>1. CASE input.rules = <<>>
    BY <2>1
  <2>2. CASE input.rules = <<GraceRule(5)>>
    BY <1>4, <2>2
  <2>3. CASE input.rules = <<GraceRule(0), NoRule, GraceRule(4), GraceRule(9)>>
    <3>1. /\ GraceRule(0) \in R /\ NoRule \in R /\ GraceRule(4) \in R /\ GraceRule(9) \in R
      BY <1>4
    <3>2. input.rules \in Seq(R)
      BY <2>3, <3>1
    <3>3. \A k \in DOMAIN input.rules :
             input.rules[k] \in {GraceRule(0), NoRule, GraceRule(4), GraceRule(9)}
      BY <2>3
    <3>4. QED
      BY <3>2, <3>3
  <2>4. QED
    BY <1>1, <2>1, <2>2, <2>3 DEF RuleLists
<1>6. UsableRules(input.rules) = {k \in DOMAIN input.rules :
                  input.rules[k].token = "grace" /\ input.rules[k].duration > 0}
  <2>1. \A k \in DOMAIN input.rules :
           (/\ input.rules[k].kind = "grace" /\ input.rules[k].scope = "manifest"
            /\ input.rules[k].token # NoToken) <=> input.rules[k].token = "grace"
    BY <1>4, <1>5, TokensAssumption
  <2>2. QED
    BY <2>1 DEF UsableRules
<1>7. QED
  BY <1>3, <1>5, <1>6

(* The property of the playlists that the run checks: segments with a      *)
(* readable duration that start within the grace period get its token, no  *)
(* others do, and only the session offset is taken out.                    *)
THEOREM GraceIsExact == Spec => []GraceExact
<1>1. InputOK => GraceExact
  <2> SUFFICES ASSUME input \in Inputs, input.kind = "manifest" PROVE GraceExact
    BY DEF InputOK, GraceExact
  <2> DEFINE body == input.body
             rules == input.rules
             G == {k \in DOMAIN rules : rules[k].token = "grace" /\ rules[k].duration > 0}
             primary == "primary"
  <2>1. PICK words, tokens : /\ body \in Seq(AnyLine(tokens))
                             /\ rules \in Seq(AnyRule(words, tokens))
                             /\ UsableRules(rules) = G
    BY InputIsManifest
  <2>2. primary # NoToken
    BY TokensAssumption
  <2> HIDE DEF body, rules, primary, G
  <2>3. RewriteManifest(body, rules, primary) =
              IF UsableRules(rules) = {} \/ primary = NoToken THEN body
              ELSE GraceManifest(body, rules[Min(UsableRules(rules))], primary)
    BY <2>1, RewriteIsExact
  <2>4. RewriteManifest(body, rules, primary) =
              IF G = {} THEN body ELSE GraceManifest(body, rules[Min(G)], primary)
    BY <2>1, <2>2, <2>3
  <2>5. QED
    BY <2>4 DEF GraceExact, body, rules, primary, G
<1>2. QED
  BY <1>1, AlwaysInputs, PTL

-----------------------------------------------------------------------------
(* URLs *)

LEMMA MaxIs ==
    ASSUME NEW N \in Nat, NEW S, S \subseteq 0..N, S # {}
    PROVE  Max(S) \in S /\ \A y \in S : Max(S) >= y
<1> DEFINE D == {N - s : s \in S}
<1>1. D \subseteq Nat /\ D # {}
  <2>1. PICK s \in S : TRUE
    OBVIOUS
  <2>2. N - s \in D
    BY <2>1
  <2>3. \A x \in S : N - x \in Nat
    OBVIOUS
  <2>4. QED
    BY <2>2, <2>3
<1>2. Min(D) \in D /\ \A y \in D : Min(D) <= y
  <2> HIDE DEF D
  <2>1. QED
    BY <1>1, MinIs
<1>3. PICK x \in S : Min(D) = N - x
  BY <1>2
<1>4. ASSUME NEW y \in S PROVE x >= y
  <2>1. N - x <= N - y
    BY <1>2, <1>3
  <2>2. x \in Int /\ y \in Int
    OBVIOUS
  <2>3. QED
    BY <2>1, <2>2
<1> DEFINE c == CHOOSE z \in S : \A y \in S : z >= y
<1>5. c \in S /\ \A y \in S : c >= y
  BY <1>4
<1>6. Max(S) = c
  BY DEF Max
<1>7. QED
  BY <1>5, <1>6

(* The tokens that URLs are made of here. *)
Words == Tokens \cup {"?"} \cup Mods \cup HexWords

LEMMA Joined ==
    ASSUME NEW a \in Seq(Words), NEW b \in Seq(Words)
    PROVE  /\ a \o b \in Seq(Words) /\ Len(a) \in Nat /\ Len(b) \in Nat
           /\ Len(a \o b) = Len(a) + Len(b)
           /\ \A i \in 1..Len(a) : (a \o b)[i] = a[i]
OBVIOUS

LEMMA Regroup ==
    ASSUME NEW a \in Seq(Words), NEW b \in Seq(Words), NEW c \in Seq(Words)
    PROVE  (a \o b) \o c = a \o (b \o c)
BY ConcatAssociative

(* The first t of a path, 0 if there is none. *)
First(s, t) == SelectInSeq(s, LAMBDA x : x = t)

LEMMA FirstIs ==
    ASSUME NEW s \in Seq(Words), NEW t
    PROVE  /\ First(s, t) \in 0..Len(s)
           /\ First(s, t) = 0 => \A i \in 1..Len(s) : s[i] # t
           /\ First(s, t) # 0 => s[First(s, t)] = t /\ \A i \in 1..(First(s, t) - 1) : s[i] # t
<1> DEFINE I == {i \in 1..Len(s) : s[i] = t}
<1>1. First(s, t) = IF I # {} THEN Min(I) ELSE 0
  BY DEF First, SelectInSeq
<1>2. CASE I = {}
  BY <1>1, <1>2
<1>3. CASE I # {}
  <2>1. I \subseteq Nat
    OBVIOUS
  <2>2. Min(I) \in I /\ \A y \in I : Min(I) <= y
    <3> HIDE DEF I
    <3>1. QED
      BY <1>3, <2>1, MinIs
  <2> DEFINE k == Min(I)
  <2>3. First(s, t) = k /\ k \in 1..Len(s) /\ s[k] = t
    BY <1>1, <1>3, <2>2
  <2>4. ASSUME NEW i \in 1..(k - 1) PROVE s[i] # t
    <3>1. i \in 1..Len(s) /\ ~(k <= i)
      BY <2>3
    <3>2. i \notin I
      BY <2>2, <3>1
    <3>3. QED
      BY <3>1, <3>2
  <2> HIDE DEF k
  <2>5. QED
    BY <2>3, <2>4
<1>4. QED
  BY <1>2, <1>3

LEMMA UptoFirst ==
    ASSUME NEW s, NEW t
    PROVE  /\ Upto(s, t) = IF First(s, t) = 0 THEN s ELSE SubSeq(s, 1, First(s, t) - 1)
           /\ After(s, t) = IF First(s, t) = 0 THEN <<>> ELSE SubSeq(s, First(s, t) + 1, Len(s))
BY DEF Upto, After, First

Without(s, t) == \A i \in 1..Len(s) : s[i] # t

LEMMA NoSplit ==
    ASSUME NEW s \in Seq(Words), NEW t, Without(s, t)
    PROVE  Upto(s, t) = s /\ After(s, t) = <<>>
<1>1. First(s, t) = 0
  <2>1. First(s, t) # 0 => First(s, t) \in 1..Len(s) /\ s[First(s, t)] = t
    BY FirstIs
  <2>2. QED
    BY <2>1 DEF Without
<1>2. QED
  BY <1>1, UptoFirst

LEMMA PrefixOf ==
    ASSUME NEW a \in Seq(Words), NEW b \in Seq(Words)
    PROVE  SubSeq(a \o b, 1, Len(a)) = a
<1>1. /\ a \o b \in Seq(Words) /\ Len(a) \in Nat /\ Len(b) \in Nat
      /\ Len(a \o b) = Len(a) + Len(b)
      /\ \A i \in 1..Len(a) : (a \o b)[i] = a[i]
  OBVIOUS
<1> DEFINE c == a \o b
           s == SubSeq(c, 1, Len(a))
<1> HIDE DEF c
<1>2. \A i \in 1..Len(a) : c[i] \in Words
  BY <1>1 DEF c
<1>3. s \in Seq(Words) /\ Len(s) = Len(a) /\ \A i \in 1..Len(a) : s[i] = c[i]
  BY <1>1, <1>2, SubSeqProperties
<1> HIDE DEF s
<1>4. \A i \in 1..Len(s) : s[i] = a[i]
  BY <1>1, <1>3 DEF c
<1>5. s = a
  BY <1>3, <1>4, SeqEqual
<1>6. QED
  BY <1>5 DEF s, c

LEMMA SuffixOf ==
    ASSUME NEW a \in Seq(Words), NEW b \in Seq(Words), NEW j \in 1..(Len(b) + 1)
    PROVE  From(a \o b, Len(a) + j) = From(b, j) /\ From(b, j) \in Seq(Words)
<1>1. /\ a \o b \in Seq(Words) /\ Len(a) \in Nat /\ Len(b) \in Nat
      /\ Len(a \o b) = Len(a) + Len(b)
      /\ \A i \in 1..Len(b) : (a \o b)[Len(a) + i] = b[i] /\ b[i] \in Words
  OBVIOUS
<1> DEFINE c == a \o b
           m == Len(a)
           n == Len(b)
           s == SubSeq(c, m + j, m + n)
           t == SubSeq(b, j, n)
<1>2. From(a \o b, Len(a) + j) = s /\ From(b, j) = t
  BY <1>1 DEF From
<1>3. \A i \in (m + j)..(m + n) : c[i] \in Words
  BY <1>1
<1>4. \A i \in j..n : b[i] \in Words
  BY <1>1
<1>5. /\ m \in Nat /\ n \in Nat /\ j \in 1..(n + 1)
      /\ \A i \in 1..n : c[m + i] = b[i]
  BY <1>1
<1> HIDE DEF c, m, n
<1>6. /\ s \in Seq(Words) /\ Len(s) = (IF m + j <= m + n THEN (m + n) - (m + j) + 1 ELSE 0)
      /\ \A i \in 1..((m + n) - (m + j) + 1) : s[i] = c[(m + j) + i - 1]
  BY <1>3, <1>5, SubSeqProperties
<1>7. /\ t \in Seq(Words) /\ Len(t) = (IF j <= n THEN n - j + 1 ELSE 0)
      /\ \A i \in 1..(n - j + 1) : t[i] = b[j + i - 1]
  <2>1. j \in Int /\ n \in Int
    BY <1>5
  <2> DEFINE e == b
  <2>2. \A i \in j..n : e[i] \in Words
    BY <1>4
  <2> HIDE DEF e
  <2>3. LET u == SubSeq(e, j, n) IN
        /\ u \in Seq(Words) /\ Len(u) = (IF j <= n THEN n - j + 1 ELSE 0)
        /\ \A i \in 1..(n - j + 1) : u[i] = e[j + i - 1]
    BY <2>1, <2>2, SubSeqProperties
  <2>4. QED
    BY <2>3 DEF e
<1> HIDE DEF s, t
<1>8. Len(s) = n - j + 1 /\ Len(t) = n - j + 1 /\ (m + n) - (m + j) + 1 = n - j + 1
  BY <1>5, <1>6, <1>7
<1>9. ASSUME NEW i \in 1..Len(s) PROVE s[i] = t[i]
  <2>1. i \in 1..(n - j + 1) /\ (m + j) + i - 1 = m + (j + i - 1) /\ j + i - 1 \in 1..n
    BY <1>5, <1>8
  <2>2. s[i] = c[m + (j + i - 1)] /\ t[i] = b[j + i - 1]
    BY <1>6, <1>7, <1>8, <2>1
  <2>3. QED
    BY <1>5, <2>1, <2>2
<1>10. s = t
  BY <1>6, <1>7, <1>8, <1>9, SeqEqual
<1>11. QED
  BY <1>2, <1>7, <1>10

LEMMA SplitAt ==
    ASSUME NEW a \in Seq(Words), NEW b \in Seq(Words), NEW t \in Words, Without(a, t)
    PROVE  Upto(a \o (<<t>> \o b), t) = a /\ After(a \o (<<t>> \o b), t) = b
<1> DEFINE d == <<t>> \o b
           c == a \o d
<1>1. d \in Seq(Words) /\ d[1] = t /\ Len(d) = 1 + Len(b) /\ Len(b) \in Nat /\ Len(a) \in Nat
  OBVIOUS
<1>2. <<t>> \in Seq(Words) /\ Len(<<t>>) = 1
  OBVIOUS
<1>3. From(d, 2) = b
  <2> DEFINE o == <<t>>
  <2> HIDE DEF o
  <2>1. From(o \o b, Len(o) + 1) = From(b, 1)
    <3>1. o \in Seq(Words) /\ 1 \in 1..(Len(b) + 1)
      BY <1>1, <1>2 DEF o
    <3>2. QED
      BY <3>1, SuffixOf
  <2>2. From(b, 1) = b
    BY SubSeqFull DEF From
  <2>3. Len(o) + 1 = 2
    BY <1>2 DEF o
  <2>4. QED
    BY <2>1, <2>2, <2>3 DEF o
<1> HIDE DEF d
<1>4. /\ c \in Seq(Words) /\ Len(c) = Len(a) + Len(d)
      /\ \A i \in 1..Len(a) : c[i] = a[i]
      /\ c[Len(a) + 1] = t
  BY <1>1
<1> DEFINE f == First(c, t)
<1>5. f = Len(a) + 1
  <2>1. /\ f \in 0..Len(c)
        /\ f = 0 => \A i \in 1..Len(c) : c[i] # t
        /\ f # 0 => c[f] = t /\ \A i \in 1..(f - 1) : c[i] # t
    <3> HIDE DEF c
    <3>1. QED
      BY <1>4, FirstIs
  <2> HIDE DEF f, c
  <2>2. f # 0
    BY <1>1, <1>4, <2>1
  <2>3. ~(f <= Len(a))
    <3> SUFFICES ASSUME f <= Len(a) PROVE FALSE
      OBVIOUS
    <3>1. f \in 1..Len(a)
      BY <1>1, <2>1, <2>2
    <3>2. QED
      BY <1>4, <2>1, <2>2, <3>1 DEF Without
  <2>4. ~(f > Len(a) + 1)
    <3> SUFFICES ASSUME f > Len(a) + 1 PROVE FALSE
      OBVIOUS
    <3>1. Len(a) + 1 \in 1..(f - 1)
      BY <1>1, <1>4, <2>1
    <3>2. QED
      BY <1>4, <2>1, <2>2, <3>1
  <2>5. QED
    BY <1>1, <2>1, <2>3, <2>4
<1>6. Upto(c, t) = SubSeq(c, 1, (Len(a) + 1) - 1) /\ After(c, t) = From(c, (Len(a) + 1) + 1)
  <2> HIDE DEF c
  <2>1. Len(a) + 1 # 0
    BY <1>1
  <2>2. QED
    BY <1>5, <2>1, UptoFirst DEF From
<1>7. (Len(a) + 1) - 1 = Len(a) /\ (Len(a) + 1) + 1 = Len(a) + 2 /\ 2 \in 1..(Len(d) + 1)
  BY <1>1
<1>8. SubSeq(c, 1, Len(a)) = a
  BY <1>1, PrefixOf
<1>9. From(c, Len(a) + 2) = b
  BY <1>1, <1>3, <1>7, SuffixOf
<1>10. QED
  BY <1>6, <1>7, <1>8, <1>9 DEF d

LEMMA WordFacts ==
    /\ "/" \in Words /\ "~" \in Words /\ ":" \in Words /\ "f" \in Words /\ Mods \cup HexWords \subseteq Words
    /\ \A m \in Mods \cup HexWords : m # "/" /\ m # "~" /\ m # ":" /\ m # "?"
BY URLParserAssumption DEF Words, Tokens

(* What a service adds to a path. *)
ModHead(m) == <<m.name>> \o (IF m.extra = <<>> THEN <<>> ELSE <<":">> \o m.extra)
ModTail(m) == <<"~">> \o (ModHead(m) \o m.path)

LEMMA PlainPath ==
    ASSUME NEW tokens, tokens \subseteq Words, "/" \in tokens, NEW n \in Nat, NEW p \in Plain(tokens, n)
    PROVE  /\ p \in Seq(Words) /\ ModIndex(p) = 0 /\ p # <<>> /\ p[1] = "/"
           /\ \E q \in Seq(Words) : p = <<"/">> \o q
<1>1. PICK q \in BoundedSeq(tokens, n - 1) : p = <<"/">> \o q
  BY DEF Plain
<1>2. ModIndex(p) = 0
  BY DEF Plain
<1>3. PICK k \in 0..(n - 1) : q \in [1..k -> tokens]
  BY <1>1 DEF BoundedSeq, SeqOf
<1>4. q \in Seq(Words)
  <2>1. q \in [1..k -> Words] /\ k \in Nat
    BY <1>3
  <2>2. QED
    BY <2>1
<1>5. "/" \in Words
  BY WordFacts
<1>6. p \in Seq(Words) /\ p # <<>> /\ p[1] = "/"
  BY <1>1, <1>4, <1>5
<1>7. QED
  BY <1>1, <1>2, <1>4, <1>6

LEMMA ModCallFacts ==
    ASSUME NEW m \in ModCalls
    PROVE  /\ m.name \in Mods /\ m.extra \in {<<>>, <<"f">>}
           /\ m.path \in Seq(Words)
           /\ m.path # <<>> => /\ ModIndex(m.path) = 0 /\ m.path[1] = "/"
                               /\ \E q \in Seq(Words) : m.path = <<"/">> \o q
<1>1. m.name \in Mods /\ m.extra \in {<<>>, <<"f">>} /\ m.path \in {<<>>} \cup Plain(Tokens, MaxModPath)
  BY DEF ModCalls
<1>2. Tokens \subseteq Words /\ "/" \in Tokens /\ MaxModPath \in Nat
  BY LengthsAssumption DEF Words, Tokens
<1>3. CASE m.path = <<>>
  BY <1>1, <1>3
<1>4. CASE m.path # <<>>
  BY <1>1, <1>2, <1>4, PlainPath
<1>5. QED
  BY <1>3, <1>4

LEMMA HeadFacts ==
    ASSUME NEW m \in ModCalls
    PROVE  /\ ModHead(m) \in Seq(Words) /\ Len(ModHead(m)) \in Nat \ {0}
           /\ Without(ModHead(m), "/") /\ Without(ModHead(m), "~")
           /\ Upto(ModHead(m), ":") = <<m.name>> /\ After(ModHead(m), ":") = m.extra
           /\ Contains(ModHead(m), ":") <=> m.extra # <<>>
<1> DEFINE n == m.name
           o == <<n>>
           f == <<"f">>
<1>1. n \in Words /\ n # "/" /\ n # "~" /\ n # ":"
  BY ModCallFacts, WordFacts
<1>2. /\ o \in Seq(Words) /\ Len(o) = 1 /\ o[1] = n
      /\ Without(o, "/") /\ Without(o, "~") /\ Without(o, ":")
  <2> HIDE DEF n
  <2>1. QED
    BY <1>1 DEF Without
<1> HIDE DEF n
<1>3. CASE m.extra = <<>>
  <2>1. ModHead(m) = o
    BY <1>2, <1>3, ConcatEmptySeq DEF ModHead, n
  <2>2. Upto(o, ":") = o /\ After(o, ":") = <<>>
    <3> HIDE DEF o
    <3>1. QED
      BY <1>2, NoSplit
  <2>3. ~Contains(o, ":")
    BY <1>2 DEF Contains, Without
  <2>4. QED
    BY <1>2, <1>3, <2>1, <2>2, <2>3 DEF n
<1>4. CASE m.extra = f
  <2> DEFINE h == o \o (<<":">> \o f)
  <2>1. ModHead(m) = h
    BY <1>4 DEF ModHead, n
  <2>2. f \in Seq(Words) /\ ":" \in Words /\ "f" \in Words
    BY WordFacts
  <2>3. Upto(h, ":") = o /\ After(h, ":") = f
    <3> HIDE DEF o, f
    <3>1. QED
      BY <1>2, <2>2, SplitAt
  <2>4. h \in Seq(Words) /\ Len(h) = 3 /\ h[1] = n /\ h[2] = ":" /\ h[3] = "f"
    BY <1>1, <2>2
  <2>5. Without(h, "/") /\ Without(h, "~") /\ Contains(h, ":")
    <3> HIDE DEF h
    <3>1. QED
      BY <1>1, <2>4 DEF Without, Contains
  <2>6. f # <<>>
    OBVIOUS
  <2> HIDE DEF h
  <2>7. QED
    BY <1>4, <2>1, <2>3, <2>4, <2>5, <2>6 DEF n
<1>5. QED
  BY <1>3, <1>4, ModCallFacts

LEMMA WithModIs ==
    ASSUME NEW P \in Seq(Words), NEW m \in ModCalls
    PROVE  ModTail(m) \in Seq(Words) /\ WithMod(P, m) = P \o ModTail(m)
<1> DEFINE x == IF m.extra = <<>> THEN <<>> ELSE <<":">> \o m.extra
           t == <<"~">>
           o == <<m.name>>
           p == m.path
<1>1. t \in Seq(Words) /\ o \in Seq(Words) /\ p \in Seq(Words)
  BY WordFacts, ModCallFacts
<1>2. x \in Seq(Words)
  <2>1. "f" \in Words /\ ":" \in Words /\ m.extra \in {<<>>, <<"f">>}
    BY WordFacts, ModCallFacts
  <2>2. m.extra = <<>> => x = <<>>
    OBVIOUS
  <2>3. m.extra # <<>> => x = <<":">> \o <<"f">>
    BY <2>1
  <2>4. <<>> \in Seq(Words) /\ <<":">> \o <<"f">> \in Seq(Words)
    BY <2>1
  <2>5. QED
    BY <2>2, <2>3, <2>4
<1>3. WithMod(P, m) = ((P \o (t \o o)) \o x) \o p
  <2>1. <<"~", m.name>> = t \o o
    BY <1>1
  <2>2. QED
    BY <2>1 DEF WithMod
<1>4. ModTail(m) = t \o ((o \o x) \o p)
  BY DEF ModTail, ModHead
<1> HIDE DEF x, t, o, p
<1>5. t \o o \in Seq(Words) /\ (t \o o) \o x \in Seq(Words) /\ o \o x \in Seq(Words)
      /\ (o \o x) \o p \in Seq(Words)
  BY <1>1, <1>2, Joined
<1>6. ((P \o (t \o o)) \o x) \o p = P \o (((t \o o) \o x) \o p)
  <2>1. (P \o (t \o o)) \o x = P \o ((t \o o) \o x)
    BY <1>2, <1>5, Regroup
  <2>2. (P \o ((t \o o) \o x)) \o p = P \o (((t \o o) \o x) \o p)
    BY <1>1, <1>5, Regroup
  <2>3. QED
    BY <2>1, <2>2
<1>7. ((t \o o) \o x) \o p = t \o ((o \o x) \o p)
  <2>1. (t \o o) \o x = t \o (o \o x)
    BY <1>1, <1>2, Regroup
  <2>2. (t \o (o \o x)) \o p = t \o ((o \o x) \o p)
    <3> DEFINE y == o \o x
    <3>1. y \in Seq(Words)
      BY <1>5
    <3> HIDE DEF y
    <3>2. (t \o y) \o p = t \o (y \o p)
      BY <1>1, <3>1, Regroup
    <3>3. QED
      BY <3>2 DEF y
  <2>3. QED
    BY <2>1, <2>2
<1>8. t \o ((o \o x) \o p) \in Seq(Words)
  BY <1>1, <1>5, Joined
<1>9. QED
  BY <1>3, <1>4, <1>6, <1>7, <1>8

(* The segment after a tilde does not depend on what is before the tilde. *)
LEMMA SegmentShifts ==
    ASSUME NEW a \in Seq(Words), NEW b \in Seq(Words), NEW i \in 1..Len(b)
    PROVE  /\ Len(a) + i \in 1..Len(a \o b) /\ (a \o b)[Len(a) + i] = b[i]
           /\ Segment(a \o b, Len(a) + i) = Segment(b, i)
           /\ KnownMod(a \o b, Len(a) + i) <=> KnownMod(b, i)
<1>1. Len(a) \in Nat /\ Len(b) \in Nat /\ i + 1 \in 1..(Len(b) + 1) /\ (Len(a) + i) + 1 = Len(a) + (i + 1)
  OBVIOUS
<1>2. From(a \o b, Len(a) + (i + 1)) = From(b, i + 1)
  BY <1>1, SuffixOf
<1>3. Segment(a \o b, Len(a) + i) = Segment(b, i)
  BY <1>1, <1>2 DEF Segment
<1>4. QED
  BY <1>3 DEF KnownMod

LEMMA ModIndexIs ==
    ASSUME NEW path \in Seq(Words)
    PROVE  /\ ModIndex(path) = 0 \/ (ModIndex(path) \in Tildes(path) /\ KnownMod(path, ModIndex(path)))
           /\ ModIndex(path) \in 0..Len(path)
           /\ \A i \in Tildes(path) : KnownMod(path, i) => i <= ModIndex(path)
<1> DEFINE S == {0} \cup {i \in Tildes(path) : KnownMod(path, i)}
<1>1. Len(path) \in Nat /\ S \subseteq 0..Len(path) /\ S # {}
  BY DEF Tildes
<1>2. Max(S) \in S /\ \A y \in S : Max(S) >= y
  <2> HIDE DEF S
  <2>1. QED
    BY <1>1, MaxIs
<1>3. ModIndex(path) = Max(S)
  BY DEF ModIndex
<1>4. ASSUME NEW i \in Tildes(path), KnownMod(path, i) PROVE i <= Max(S)
  <2>1. i \in S
    BY <1>4
  <2>2. i \in Int /\ Max(S) \in Int
    BY <1>1, <1>2, <2>1
  <2>3. QED
    BY <1>2, <2>1, <2>2
<1>5. QED
  BY <1>1, <1>2, <1>3, <1>4

(* extractMod finds the service that was added last. *)
LEMMA LastModFound ==
    ASSUME NEW P \in Seq(Words), NEW m \in ModCalls
    PROVE  /\ ModIndex(P \o ModTail(m)) = Len(P) + 1
           /\ From(P \o ModTail(m), Len(P) + 2) = ModHead(m) \o m.path
           /\ Segment(P \o ModTail(m), Len(P) + 1) = ModHead(m)
           /\ After(ModHead(m) \o m.path, "/") = After(m.path, "/")
           /\ \A i \in Tildes(P \o ModTail(m)) : i > Len(P) + 1 =>
                 \E j \in Tildes(m.path) :
                    Segment(P \o ModTail(m), i) = Segment(m.path, j) /\ ~KnownMod(P \o ModTail(m), i)
<1> DEFINE h == ModHead(m)
           p == m.path
           o == <<"~">>
           b == h \o p
           t == o \o b
           u == P \o t
<1>1. ModTail(m) = t
  BY DEF ModTail
<1>2. /\ h \in Seq(Words) /\ Len(h) \in Nat \ {0} /\ Without(h, "/") /\ Without(h, "~")
      /\ Upto(h, ":") = <<m.name>> /\ m.name \in Mods /\ p \in Seq(Words)
  BY HeadFacts, ModCallFacts
<1>3. o \in Seq(Words) /\ Len(o) = 1 /\ o[1] = "~"
  BY WordFacts
<1> HIDE DEF h, p, o
<1>4. b \in Seq(Words) /\ Len(b) = Len(h) + Len(p) /\ Len(p) \in Nat /\ Len(b) \in Nat
  BY <1>2, Joined
<1> HIDE DEF b
<1>5. t \in Seq(Words) /\ Len(t) = 1 + Len(b) /\ t[1] = "~"
  <2>1. 1 \in 1..Len(o)
    BY <1>3
  <2>2. QED
    BY <1>3, <1>4, <2>1, Joined
<1> HIDE DEF t
<1>6. u \in Seq(Words) /\ Len(u) = Len(P) + Len(t) /\ Len(P) \in Nat
  BY <1>5, Joined
<1>7. Upto(b, "/") = h /\ After(b, "/") = After(p, "/")
  <2>1. CASE p = <<>>
    <3>1. b = h
      BY <1>2, <2>1, ConcatEmptySeq DEF b
    <3>2. Upto(h, "/") = h /\ After(h, "/") = <<>>
      BY <1>2, NoSplit
    <3>3. After(<<>>, "/") = <<>>
      <4>1. <<>> \in Seq(Words) /\ Without(<<>>, "/")
        BY DEF Without
      <4>2. QED
        BY <4>1, NoSplit
    <3>4. QED
      BY <2>1, <3>1, <3>2, <3>3
  <2>2. CASE p # <<>>
    <3>1. PICK q \in Seq(Words) : p = <<"/">> \o q
      BY <2>2, ModCallFacts DEF p
    <3> DEFINE s == "/"
               e == <<>>
    <3>2. s \in Words
      BY WordFacts
    <3>3. e \in Seq(Words) /\ Without(e, s)
      BY DEF Without
    <3>4. e \o (<<s>> \o q) = <<s>> \o q
      BY <3>2, ConcatEmptySeq
    <3> HIDE DEF s, e
    <3>5. Upto(h \o (<<s>> \o q), s) = h /\ After(h \o (<<s>> \o q), s) = q
      BY <1>2, <3>2, SplitAt DEF s
    <3>6. After(e \o (<<s>> \o q), s) = q
      BY <3>2, <3>3, SplitAt
    <3>7. QED
      BY <3>1, <3>4, <3>5, <3>6 DEF s, b
  <2>3. QED
    BY <2>1, <2>2
<1>8. From(t, 2) = b
  <2>1. 1 \in 1..(Len(b) + 1) /\ Len(o) + 1 = 2
    BY <1>3, <1>4
  <2>2. From(o \o b, Len(o) + 1) = From(b, 1)
    BY <1>3, <1>4, <2>1, SuffixOf
  <2>3. From(b, 1) = b
    BY <1>4, SubSeqFull DEF From
  <2>4. QED
    BY <2>1, <2>2, <2>3 DEF t
<1>9. From(u, Len(P) + 2) = b
  <2>1. 2 \in 1..(Len(t) + 1)
    BY <1>4, <1>5
  <2>2. QED
    BY <1>5, <1>8, <2>1, SuffixOf
<1>10. Segment(u, Len(P) + 1) = h
  <2>1. (Len(P) + 1) + 1 = Len(P) + 2
    BY <1>6
  <2>2. QED
    BY <1>7, <1>9, <2>1 DEF Segment
<1>11. Len(P) + 1 \in Tildes(u) /\ KnownMod(u, Len(P) + 1)
  <2>1. 1 \in 1..Len(t)
    BY <1>4, <1>5
  <2>2. Len(P) + 1 \in 1..Len(u) /\ u[Len(P) + 1] = "~"
    BY <1>5, <2>1, SegmentShifts
  <2>3. DOMAIN u = 1..Len(u)
    BY <1>6
  <2>4. KnownMod(u, Len(P) + 1)
    BY <1>2, <1>10 DEF KnownMod
  <2>5. QED
    BY <2>2, <2>3, <2>4 DEF Tildes
<1>12. ASSUME NEW i \in Tildes(u), i > Len(P) + 1
       PROVE  \E j \in Tildes(p) : Segment(u, i) = Segment(p, j) /\ ~KnownMod(u, i)
  <2>1. i \in 1..Len(u) /\ u[i] = "~"
    BY <1>6 DEF Tildes
  <2> DEFINE i1 == i - Len(P)
             i2 == i1 - 1
             j == i2 - Len(h)
  <2>2. /\ i1 \in 1..Len(t) /\ i = Len(P) + i1 /\ i2 \in 1..Len(b) /\ i1 = Len(o) + i2
        /\ i2 = Len(h) + j /\ j \in Int
    BY <1>2, <1>3, <1>4, <1>5, <1>6, <1>12, <2>1
  <2> HIDE DEF i1, i2, j
  <2>3. u[i] = t[i1] /\ Segment(u, i) = Segment(t, i1) /\ (KnownMod(u, i) <=> KnownMod(t, i1))
    BY <1>5, <2>2, SegmentShifts
  <2>4. t[i1] = b[i2] /\ Segment(t, i1) = Segment(b, i2) /\ (KnownMod(t, i1) <=> KnownMod(b, i2))
    BY <1>3, <1>4, <2>2, SegmentShifts DEF t
  <2>5. j >= 1
    <3> SUFFICES ASSUME ~(j >= 1) PROVE FALSE
      OBVIOUS
    <3>1. i2 \in 1..Len(h)
      BY <1>2, <2>2
    <3>2. (h \o p)[i2] = h[i2]
      BY <1>2, <3>1
    <3>3. h[i2] # "~"
      BY <1>2, <3>1 DEF Without
    <3>4. QED
      BY <2>1, <2>3, <2>4, <3>2, <3>3 DEF b
  <2>6. j \in 1..Len(p)
    BY <1>2, <1>4, <2>2, <2>5
  <2>7. b[i2] = p[j] /\ Segment(b, i2) = Segment(p, j) /\ (KnownMod(b, i2) <=> KnownMod(p, j))
    BY <1>2, <2>2, <2>6, SegmentShifts DEF b
  <2>8. j \in Tildes(p)
    <3>1. DOMAIN p = 1..Len(p)
      BY <1>2
    <3>2. QED
      BY <2>1, <2>3, <2>4, <2>6, <2>7, <3>1 DEF Tildes
  <2>9. ~KnownMod(p, j)
    <3>1. p # <<>>
      BY <2>6
    <3>2. ModIndex(p) = 0
      BY <3>1, ModCallFacts DEF p
    <3>3. KnownMod(p, j) => j <= 0
      BY <1>2, <2>8, <3>2, ModIndexIs
    <3>4. QED
      BY <2>2, <2>5, <3>3
  <2>10. QED
    BY <2>3, <2>4, <2>7, <2>8, <2>9
<1>13. ModIndex(u) = Len(P) + 1
  <2> DEFINE k == ModIndex(u)
  <2>1. /\ k = 0 \/ (k \in Tildes(u) /\ KnownMod(u, k))
        /\ k \in 0..Len(u)
        /\ Len(P) + 1 <= k
    <3> HIDE DEF u
    <3>1. QED
      BY <1>6, <1>11, ModIndexIs
  <2> HIDE DEF k
  <2>2. ~(k > Len(P) + 1)
    BY <1>6, <1>12, <2>1
  <2>3. k = Len(P) + 1
    BY <1>6, <2>1, <2>2
  <2>4. QED
    BY <2>3 DEF k
<1>14. QED
  BY <1>1, <1>7, <1>9, <1>10, <1>12, <1>13 DEF h, p, b

(* One round of extractMod on a path to which a service was added. *)
LEMMA ExtractLast ==
    ASSUME NEW P \in Seq(Words), NEW m \in ModCalls
    PROVE  LET ex == ExtractMod(WithMod(P, m)) IN
           /\ WithMod(P, m) \in Seq(Words)
           /\ ModIndex(WithMod(P, m)) = Len(P) + 1
           /\ SubSeq(WithMod(P, m), 1, Len(P)) = P /\ Len(P) <= Len(WithMod(P, m))
           /\ ex.path = P
           /\ ex.mod # NoMod /\ ex.mod.Type = m.name
           /\ ex.mod.Path = (IF m.path = <<>> THEN <<"/">> ELSE CleanPath(m.path))
           /\ (m.extra # <<>> \/ ~ColonAfterTilde(m.path)) => ex.mod.Extra = m.extra
<1> DEFINE t == ModTail(m)
           u == P \o t
           k == Len(P) + 1
           h == ModHead(m)
<1>1. t \in Seq(Words) /\ WithMod(P, m) = u
  BY WithModIs
<1>2. /\ ModIndex(u) = k /\ From(u, Len(P) + 2) = h \o m.path /\ Segment(u, k) = h
      /\ After(h \o m.path, "/") = After(m.path, "/")
      /\ \A i \in Tildes(u) : i > k =>
            \E j \in Tildes(m.path) : Segment(u, i) = Segment(m.path, j) /\ ~KnownMod(u, i)
  BY LastModFound
<1>3. Upto(h, ":") = <<m.name>> /\ After(h, ":") = m.extra /\ (Contains(h, ":") <=> m.extra # <<>>)
  BY HeadFacts
<1> HIDE DEF t, h
<1>4. u \in Seq(Words) /\ Len(P) \in Nat /\ Len(u) = Len(P) + Len(t) /\ Len(t) \in Nat
  BY <1>1, Joined
<1>5. SubSeq(u, 1, Len(P)) = P
  BY <1>1, PrefixOf
<1> HIDE DEF u
<1>6. k # 0 /\ k - 1 = Len(P) /\ k + 1 = Len(P) + 2 /\ k \in Nat
  BY <1>4
<1> HIDE DEF k
<1>7. ExtractMod(u) = [path |-> P,
              mod  |-> [Type  |-> <<m.name>>[1],
                        Path  |-> CleanPath(<<"/">> \o After(m.path, "/")),
                        Extra |-> Extra(u, k)]]
  BY <1>2, <1>3, <1>5, <1>6 DEF ExtractMod
<1>8. CleanPath(<<"/">> \o After(m.path, "/")) =
         (IF m.path = <<>> THEN <<"/">> ELSE CleanPath(m.path))
  <2>1. CASE m.path = <<>>
    <3>1. <<>> \in Seq(Words) /\ Without(<<>>, "/")
      BY DEF Without
    <3>2. After(<<>>, "/") = <<>>
      BY <3>1, NoSplit
    <3>3. <<"/">> \o <<>> = <<"/">> /\ Len(<<"/">>) = 1
      OBVIOUS
    <3> DEFINE r == <<"/">>
    <3>4. After(m.path, "/") = <<>> /\ r \o <<>> = r /\ ~(Len(r) > 1)
      BY <2>1, <3>2, <3>3
    <3> HIDE DEF r
    <3>5. CleanPath(r) = r
      BY <3>4 DEF CleanPath
    <3>6. QED
      BY <2>1, <3>4, <3>5 DEF r
  <2>2. CASE m.path # <<>>
    <3>1. PICK q \in Seq(Words) : m.path = <<"/">> \o q
      BY <2>2, ModCallFacts
    <3> DEFINE s == "/"
               e == <<>>
    <3>2. s \in Words
      BY WordFacts
    <3>3. e \in Seq(Words) /\ Without(e, s)
      BY DEF Without
    <3>4. e \o (<<s>> \o q) = <<s>> \o q
      BY <3>2, ConcatEmptySeq
    <3> HIDE DEF s, e
    <3>5. After(e \o (<<s>> \o q), s) = q
      BY <3>2, <3>3, SplitAt
    <3>6. After(m.path, "/") = q
      BY <3>1, <3>4, <3>5 DEF s
    <3>7. QED
      BY <2>2, <3>1, <3>6
  <2>3. QED
    BY <2>1, <2>2
<1>9. ASSUME m.extra # <<>> \/ ~ColonAfterTilde(m.path) PROVE Extra(u, k) = m.extra
  <2> DEFINE V == {i \in Tildes(u) : i >= k /\ Contains(Segment(u, i), ":")}
  <2>1. Extra(u, k) = IF V = {} THEN <<>> ELSE After(Segment(u, Min(V)), ":")
    BY DEF Extra
  <2>2. V \subseteq Nat /\ \A i \in V : i >= k
    BY <1>4 DEF Tildes
  <2>3. k \in Tildes(u)
    BY <1>2, <1>4, <1>6, ModIndexIs
  <2>4. CASE m.extra # <<>>
    <3>1. k \in V
      BY <1>2, <1>3, <1>6, <2>3, <2>4
    <3> HIDE DEF V
    <3>2. Min(V) \in V /\ \A y \in V : Min(V) <= y
      BY <2>2, <3>1, MinIs
    <3>3. Min(V) = k
      <4>1. Min(V) \in Nat /\ Min(V) >= k /\ Min(V) <= k
        BY <2>2, <3>1, <3>2
      <4>2. QED
        BY <1>6, <4>1
    <3>4. QED
      BY <1>2, <1>3, <2>1, <3>1, <3>3
  <2>5. CASE m.extra = <<>>
    <3>1. ~ColonAfterTilde(m.path)
      BY <1>9, <2>5
    <3>2. ASSUME NEW i \in V PROVE FALSE
      <4>1. i \in Tildes(u) /\ i >= k /\ Contains(Segment(u, i), ":") /\ i \in Nat
        BY <2>2
      <4>2. i # k
        BY <1>2, <1>3, <2>5, <4>1
      <4>3. i > k
        BY <1>6, <4>1, <4>2
      <4>4. PICK j \in Tildes(m.path) : Segment(u, i) = Segment(m.path, j)
        BY <1>2, <4>1, <4>3
      <4>5. QED
        BY <3>1, <4>1, <4>4 DEF ColonAfterTilde
    <3>3. QED
      BY <2>1, <2>5, <3>2
  <2>6. QED
    BY <2>4, <2>5
<1>10. ExtractMod(u).mod # NoMod
  <2> DEFINE c == CleanPath(<<"/">> \o After(m.path, "/"))
  <2>1. c # <<>>
    <3>1. CASE m.path = <<>>
      BY <1>8, <3>1
    <3>2. CASE m.path # <<>>
      <4>1. m.path \in Seq(Words)
        BY ModCallFacts
      <4> DEFINE p == m.path
      <4>2. Len(p) \in Nat \ {0} /\ \A i \in 1..Len(p) : p[i] \in Words
        BY <3>2, <4>1
      <4> HIDE DEF p
      <4>3. Len(p) > 1 => Len(SubSeq(p, 1, Len(p) - 1)) = Len(p) - 1
        <5>1. \A i \in 1..(Len(p) - 1) : p[i] \in Words
          BY <4>2
        <5>2. QED
          BY <4>2, <5>1, SubSeqProperties
      <4>4. CleanPath(p) # <<>>
        <5> DEFINE fr == SubSeq(p, 1, Len(p) - 1)
        <5>1. Len(<<>>) = 0
          OBVIOUS
        <5>2. Len(p) > 1 => fr # <<>>
          <6>1. Len(p) > 1 => Len(fr) # 0
            BY <4>2, <4>3
          <6> HIDE DEF fr
          <6>2. QED
            BY <5>1, <6>1
        <5>3. CleanPath(p) = IF Len(p) > 1 /\ Last(p) = "/" THEN fr ELSE p
          BY DEF CleanPath, Front
        <5>4. p # <<>>
          BY <3>2 DEF p
        <5> HIDE DEF fr
        <5>5. QED
          BY <5>2, <5>3, <5>4
      <4>5. QED
        BY <1>8, <3>2, <4>4 DEF p
    <3>3. QED
      BY <3>1, <3>2
  <2>2. ExtractMod(u).mod.Path = c
    BY <1>7
  <2> HIDE DEF c
  <2>3. QED
    BY <2>1, <2>2 DEF NoMod
<1>11. Len(P) <= Len(u)
  BY <1>4
<1>12. <<m.name>>[1] = m.name
  OBVIOUS
<1>13. QED
  BY <1>1, <1>2, <1>4, <1>5, <1>7, <1>8, <1>9, <1>10, <1>11, <1>12 DEF k

(* The recursion of Parse over the services of a path. *)
Strips(f, path, N) ==
    \A n \in 0..N :
        f[n] = LET k == ModIndex(SubSeq(path, 1, n)) IN IF k = 0 THEN n ELSE f[k - 1]

LEMMA PrefixType ==
    ASSUME NEW path \in Seq(Words), NEW n \in 0..Len(path)
    PROVE  SubSeq(path, 1, n) \in Seq(Words) /\ Len(SubSeq(path, 1, n)) = n
<1>1. n \in Int /\ \A i \in 1..n : path[i] \in Words
  OBVIOUS
<1> DEFINE p == path
<1> HIDE DEF p
<1>2. \A i \in 1..n : p[i] \in Words
  BY <1>1 DEF p
<1>3. SubSeq(p, 1, n) \in Seq(Words) /\ Len(SubSeq(p, 1, n)) = IF 1 <= n THEN n - 1 + 1 ELSE 0
  BY <1>1, <1>2, SubSeqProperties
<1>4. QED
  BY <1>3 DEF p

LEMMA StripsExist ==
    ASSUME NEW path \in Seq(Words)
    PROVE  \E f \in [0..Len(path) -> Nat] : Strips(f, path, Len(path))
<1> DEFINE N == Len(path)
           K(n) == ModIndex(SubSeq(path, 1, n))
           T == {n \in 0..N : \E f \in [0..n -> Nat] : Strips(f, path, n)}
<1>1. \A n \in 0..N : K(n) \in 0..n
  BY PrefixType, ModIndexIs
<1>2. N \in Nat
  OBVIOUS
<1> HIDE DEF N
<1>3. 0 \in T
  <2> DEFINE f == [n \in 0..0 |-> 0]
  <2>1. K(0) = 0
    BY <1>1, <1>2
  <2>2. f \in [0..0 -> Nat] /\ Strips(f, path, 0)
    BY <2>1 DEF Strips
  <2>3. QED
    BY <1>2, <2>2
<1>4. ASSUME NEW n \in 1..N, n - 1 \in T PROVE n \in T
  <2>1. n - 1 \in 0..N /\ n \in 0..N /\ n \in Nat
    BY <1>2
  <2>2. PICK f \in [0..(n - 1) -> Nat] : Strips(f, path, n - 1)
    BY <1>4
  <2> DEFINE v == IF K(n) = 0 THEN n ELSE f[K(n) - 1]
             g == [j \in 0..n |-> IF j = n THEN v ELSE f[j]]
  <2>3. K(n) \in 0..n
    BY <1>1, <2>1
  <2>4. v \in Nat
    <3>1. K(n) # 0 => K(n) - 1 \in 0..(n - 1)
      BY <2>1, <2>3
    <3>2. QED
      BY <2>1, <2>2, <3>1
  <2>5. g \in [0..n -> Nat]
    <3> HIDE DEF v
    <3>1. \A j \in 0..n : j # n => j \in 0..(n - 1)
      BY <2>1
    <3>2. QED
      BY <2>2, <2>4, <3>1
  <2>6. ASSUME NEW j \in 0..n PROVE g[j] = IF K(j) = 0 THEN j ELSE g[K(j) - 1]
    <3>1. K(j) \in 0..j
      <4>1. j \in 0..N
        BY <1>2, <2>1
      <4>2. QED
        BY <1>1, <4>1
    <3>2. K(j) # 0 => K(j) - 1 \in 0..n /\ K(j) - 1 # n
      BY <2>1, <3>1
    <3>3. K(j) # 0 => g[K(j) - 1] = f[K(j) - 1]
      BY <3>2
    <3>4. CASE j = n
      BY <3>3, <3>4
    <3>5. CASE j # n
      <4>1. j \in 0..(n - 1) /\ g[j] = f[j]
        BY <2>1, <3>5
      <4>2. f[j] = IF K(j) = 0 THEN j ELSE f[K(j) - 1]
        BY <2>2, <4>1 DEF Strips
      <4>3. QED
        BY <3>3, <4>1, <4>2
    <3>6. QED
      BY <3>4, <3>5
  <2>7. Strips(g, path, n)
    BY <2>6 DEF Strips
  <2>8. QED
    BY <2>1, <2>5, <2>7
<1>5. N \in T
  <2> HIDE DEF T
  <2>1. \A n \in 0..N : n \in T
    BY <1>2, <1>3, <1>4, LoopInduction
  <2>2. QED
    BY <1>2, <2>1
<1>6. QED
  BY <1>5 DEF N

LEMMA OriginPathIs ==
    ASSUME NEW path \in Seq(Words)
    PROVE  \E f : Strips(f, path, Len(path)) /\ OriginPath(path) = SubSeq(path, 1, f[Len(path)])
<1> DEFINE N == Len(path)
           F(f) == [n \in 0..N |-> LET k == ModIndex(SubSeq(path, 1, n)) IN IF k = 0 THEN n ELSE f[k - 1]]
<1>1. \E f : f = F(f)
  <2>1. PICK f \in [0..N -> Nat] : Strips(f, path, N)
    BY StripsExist
  <2>2. \A n \in 0..N : f[n] = F(f)[n]
    BY <2>1 DEF Strips
  <2>3. f = F(f)
    BY <2>1, <2>2
  <2>4. QED
    BY <2>3
<1> DEFINE c == CHOOSE f : f = F(f)
<1>2. OriginPath(path) = SubSeq(path, 1, c[N])
  BY DEF OriginPath
<1>3. c = F(c)
  BY <1>1
<1> HIDE DEF c
<1>4. Strips(c, path, N)
  <2>1. \A n \in 0..N : F(c)[n] = LET k == ModIndex(SubSeq(path, 1, n)) IN IF k = 0 THEN n ELSE c[k - 1]
    OBVIOUS
  <2>2. QED
    BY <1>3, <2>1 DEF Strips
<1>5. QED
  BY <1>2, <1>4

LEMMA ServedSteps ==
    ASSUME NEW origin \in Seq(Words), NEW mods \in Seq(ModCalls)
    PROVE  LET s == Served(origin, mods) IN
           /\ s \in [0..Len(mods) -> Seq(Words)] /\ s[0] = origin
           /\ \A n \in 1..Len(mods) : mods[n] \in ModCalls /\ s[n] = WithMod(s[n - 1], mods[n])
<1> DEFINE N == Len(mods)
           S == Seq(Words)
           F(k) == [n \in 0..N |-> IF n = 0 THEN origin ELSE WithMod(k[n - 1], mods[n])]
           g == [n \in 1..N |-> [a \in S |-> WithMod(a, mods[n])]]
<1>1. N \in Nat /\ \A n \in 1..N : mods[n] \in ModCalls
  OBVIOUS
<1>2. \A n \in 1..N, a \in S : WithMod(a, mods[n]) \in S
  BY <1>1, ExtractLast
<1>3. origin \in S
  OBVIOUS
<1> HIDE DEF S, N
<1>4. \E k : k = F(k)
  <2>1. g \in [1..N -> [S -> S]]
    BY <1>2
  <2>2. PICK k \in [0..N -> S] : Iterates(k, g, origin, N)
    <3> HIDE DEF g
    <3>1. QED
      BY <1>1, <1>3, <2>1, IteratesExist
  <2>3. ASSUME NEW n \in 0..N PROVE k[n] = F(k)[n]
    <3>1. CASE n = 0
      BY <2>2, <3>1 DEF Iterates
    <3>2. CASE n # 0
      <4>1. n \in 1..N /\ k[n - 1] \in S
        BY <1>1, <2>2, <3>2
      <4>2. k[n] = g[n][k[n - 1]]
        BY <2>2, <4>1 DEF Iterates
      <4>3. QED
        BY <3>2, <4>1, <4>2
    <3>3. QED
      BY <3>1, <3>2
  <2>4. k = F(k)
    BY <2>2, <2>3
  <2>5. QED
    BY <2>4
<1> DEFINE c == CHOOSE k : k = F(k)
<1>5. Served(origin, mods) = c
  BY DEF Served, N
<1>6. c = F(c)
  BY <1>4
<1> HIDE DEF c
<1>7. c[0] = origin
  BY <1>1, <1>6
<1>8. ASSUME NEW n \in 1..N PROVE c[n] = WithMod(c[n - 1], mods[n])
  <2>1. n \in 0..N /\ n # 0
    BY <1>1
  <2>2. QED
    BY <1>6, <2>1
<1>9. \A n \in 0..N : c[n] \in S
  <2> DEFINE T == {n \in 0..N : c[n] \in S}
  <2>1. 0 \in T
    BY <1>1, <1>3, <1>7
  <2>2. \A n \in 1..N : n - 1 \in T => n \in T
    BY <1>1, <1>2, <1>8
  <2> HIDE DEF T
  <2>3. \A n \in 0..N : n \in T
    BY <1>1, <2>1, <2>2, LoopInduction
  <2>4. QED
    BY <2>3 DEF T
<1>10. c \in [0..N -> S]
  BY <1>6, <1>9
<1>11. QED
  BY <1>1, <1>5, <1>7, <1>8, <1>10 DEF S, N

(* A URL with more services starts with the one with fewer. *)
LEMMA ServedGrows ==
    ASSUME NEW origin \in Seq(Words), NEW mods \in Seq(ModCalls)
    PROVE  \A n \in 0..Len(mods) : \A i \in 0..n :
              \E r \in Seq(Words) : Served(origin, mods)[n] = Served(origin, mods)[i] \o r
<1> DEFINE N == Len(mods)
           s == Served(origin, mods)
           T == {n \in 0..N : \A i \in 0..n : \E r \in Seq(Words) : s[n] = s[i] \o r}
<1>1. N \in Nat
  OBVIOUS
<1>2. /\ s \in [0..N -> Seq(Words)] /\ s[0] = origin
      /\ \A n \in 1..N : mods[n] \in ModCalls /\ s[n] = WithMod(s[n - 1], mods[n])
  BY ServedSteps
<1> HIDE DEF s, N
<1>3. \A n \in 0..N : s[n] \in Seq(Words) /\ <<>> \in Seq(Words) /\ s[n] = s[n] \o <<>>
  BY <1>2
<1>4. 0 \in T
  <2>1. 0 \in 0..N /\ \A i \in 0..0 : i = 0
    BY <1>1
  <2>2. QED
    BY <1>3, <2>1
<1>5. ASSUME NEW n \in 1..N, n - 1 \in T PROVE n \in T
  <2>1. n \in 0..N /\ n - 1 \in 0..N /\ \A i \in 0..n : i = n \/ i \in 0..(n - 1)
    BY <1>1
  <2> DEFINE t == ModTail(mods[n])
  <2>2. t \in Seq(Words) /\ s[n] = s[n - 1] \o t
    BY <1>2, <1>3, <2>1, WithModIs
  <2> HIDE DEF t
  <2>3. ASSUME NEW i \in 0..(n - 1) PROVE \E r \in Seq(Words) : s[n] = s[i] \o r
    <3>1. PICK r \in Seq(Words) : s[n - 1] = s[i] \o r
      BY <1>5
    <3>2. s[i] \in Seq(Words)
      BY <1>1, <1>3
    <3>3. (s[i] \o r) \o t = s[i] \o (r \o t) /\ r \o t \in Seq(Words)
      BY <2>2, <3>2, Regroup, Joined
    <3>4. QED
      BY <2>2, <3>1, <3>3
  <2>4. QED
    BY <1>3, <2>1, <2>3
<1>6. \A n \in 0..N : n \in T
  <2> HIDE DEF T
  <2>1. QED
    BY <1>1, <1>4, <1>5, LoopInduction
<1>7. QED
  BY <1>6 DEF s, N

(* Parse comes back to the file itself, whatever services there are. *)
LEMMA OriginOfServed ==
    ASSUME NEW origin \in Seq(Words), ModIndex(origin) = 0, NEW mods \in Seq(ModCalls),
           NEW n \in 0..Len(mods)
    PROVE  OriginPath(Served(origin, mods)[n]) = origin
<1> DEFINE N == Len(mods)
           s == Served(origin, mods)
           p == s[n]
<1>1. N \in Nat /\ n \in 0..N
  OBVIOUS
<1>2. /\ s \in [0..N -> Seq(Words)] /\ s[0] = origin
      /\ \A i \in 1..N : mods[i] \in ModCalls /\ s[i] = WithMod(s[i - 1], mods[i])
  BY ServedSteps
<1>3. \A i \in 0..n : \E r \in Seq(Words) : s[n] = s[i] \o r
  BY <1>1, ServedGrows
<1> HIDE DEF s, N
<1>4. p \in Seq(Words)
  BY <1>1, <1>2
<1>5. ASSUME NEW i \in 0..n
      PROVE  s[i] \in Seq(Words) /\ SubSeq(p, 1, Len(s[i])) = s[i] /\ Len(s[i]) \in 0..Len(p)
  <2>1. PICK r \in Seq(Words) : p = s[i] \o r
    BY <1>3
  <2>2. s[i] \in Seq(Words)
    BY <1>1, <1>2
  <2> HIDE DEF p
  <2>3. SubSeq(p, 1, Len(s[i])) = s[i]
    BY <2>1, <2>2, PrefixOf
  <2>4. Len(p) = Len(s[i]) + Len(r) /\ Len(s[i]) \in Nat /\ Len(r) \in Nat
    BY <2>1, <2>2, Joined
  <2>5. QED
    BY <2>2, <2>3, <2>4
<1> HIDE DEF p
<1>6. PICK f : Strips(f, p, Len(p)) /\ OriginPath(p) = SubSeq(p, 1, f[Len(p)])
  BY <1>4, OriginPathIs
<1>7. ASSUME NEW i \in 0..n
      PROVE  f[Len(s[i])] = IF ModIndex(s[i]) = 0 THEN Len(s[i]) ELSE f[ModIndex(s[i]) - 1]
  <2> DEFINE l == Len(s[i])
  <2>1. f[l] = LET k == ModIndex(SubSeq(p, 1, l)) IN IF k = 0 THEN l ELSE f[k - 1]
    <3>1. l \in 0..Len(p)
      BY <1>5
    <3> HIDE DEF l
    <3>2. QED
      BY <1>6, <3>1 DEF Strips
  <2>2. SubSeq(p, 1, l) = s[i]
    BY <1>5
  <2>3. QED
    BY <2>1, <2>2
<1> DEFINE T == {i \in 0..n : f[Len(s[i])] = Len(origin)}
<1>8. 0 \in T
  <2>1. 0 \in 0..n
    BY <1>1
  <2>2. QED
    BY <1>2, <1>7, <2>1
<1>9. ASSUME NEW i \in 1..n, i - 1 \in T PROVE i \in T
  <2>1. i \in 0..n /\ i - 1 \in 0..n /\ i \in 1..N
    BY <1>1
  <2>2. s[i - 1] \in Seq(Words)
    BY <1>5, <2>1
  <2>3. ModIndex(s[i]) = Len(s[i - 1]) + 1
    <3> DEFINE P == s[i - 1]
               m == mods[i]
    <3>1. P \in Seq(Words) /\ m \in ModCalls /\ s[i] = WithMod(P, m)
      BY <1>2, <2>1, <2>2
    <3> HIDE DEF P, m
    <3>2. ModIndex(WithMod(P, m)) = Len(P) + 1
      BY <3>1, ExtractLast
    <3>3. QED
      BY <3>1, <3>2 DEF P
  <2>4. Len(s[i - 1]) + 1 # 0 /\ (Len(s[i - 1]) + 1) - 1 = Len(s[i - 1])
    BY <2>2, Joined
  <2>5. f[Len(s[i])] = f[Len(s[i - 1])]
    BY <1>7, <2>1, <2>3, <2>4
  <2>6. QED
    BY <1>9, <2>1, <2>5
<1>10. n \in T
  <2>1. n \in Nat
    BY <1>1
  <2> HIDE DEF T
  <2>2. \A i \in 0..n : i \in T
    BY <1>8, <1>9, <2>1, LoopInduction
  <2>3. QED
    BY <2>1, <2>2
<1>11. OriginPath(p) = SubSeq(p, 1, Len(origin))
  BY <1>6, <1>10 DEF p
<1>12. SubSeq(p, 1, Len(origin)) = origin
  <2>1. 0 \in 0..n
    BY <1>1
  <2>2. QED
    BY <1>2, <1>5, <2>1
<1>13. QED
  BY <1>11, <1>12 DEF p, s

Rooted == {q \in Seq(Words) : q # <<>> /\ q[1] = "/"}

Hashes == HexWords \cup Mods

LEMMA UnderHash ==
    ASSUME NEW h \in Hashes, NEW q \in Seq(Words)
    PROVE  /\ <<"/", h>> \o q = <<"/">> \o (<<h>> \o q) /\ (<<"/">> \o <<h>>) \o q = <<"/", h>> \o q
           /\ <<"/", h>> \o q \in Seq(Words) /\ <<h>> \in Seq(Words) /\ <<h>> \o q \in Seq(Words)
           /\ Len(<<"/", h>> \o q) = 2 + Len(q) /\ Len(q) \in Nat
           /\ (<<"/", h>> \o q)[1] = "/" /\ (<<"/", h>> \o q)[2] = h
           /\ \A i \in 1..Len(q) : (<<"/", h>> \o q)[2 + i] = q[i]
<1> DEFINE r == <<"/">>
           o == <<h>>
           b == <<"/", h>>
<1>1. h \in Words /\ "/" \in Words
  BY WordFacts DEF Hashes
<1>2. /\ r \in Seq(Words) /\ o \in Seq(Words) /\ b \in Seq(Words) /\ b = r \o o
      /\ Len(b) = 2 /\ b[1] = "/" /\ b[2] = h
  BY <1>1
<1> HIDE DEF r, o, b
<1>3. (r \o o) \o q = r \o (o \o q)
  BY <1>2, Regroup
<1>4. b \o q \in Seq(Words) /\ o \o q \in Seq(Words) /\ Len(b \o q) = 2 + Len(q) /\ Len(q) \in Nat
  BY <1>2, Joined
<1>5. (b \o q)[1] = "/" /\ (b \o q)[2] = h
  <2>1. 1 \in 1..Len(b) /\ 2 \in 1..Len(b)
    BY <1>2
  <2>2. QED
    BY <1>2, <2>1, Joined
<1>6. ASSUME NEW i \in 1..Len(q) PROVE (b \o q)[2 + i] = q[i]
  <2>1. (b \o q)[Len(b) + i] = q[i]
    BY <1>2, SegmentShifts
  <2>2. QED
    BY <1>2, <2>1
<1>7. QED
  BY <1>2, <1>3, <1>4, <1>5, <1>6 DEF r, o, b

LEMMA RootedParse ==
    ASSUME NEW h \in Hashes, NEW q \in Rooted
    PROVE  Parse(<<"/", h>> \o q) =
              [err |-> FALSE, InfoHash |-> <<h>>, Type |-> IF h \in Mods THEN h ELSE "default",
               Path |-> ExtractMod(q).path, OriginPath |-> OriginPath(ExtractMod(q).path),
               Mod |-> ExtractMod(q).mod]
<1> DEFINE u == <<"/", h>> \o q
           r == <<"/">>
           o == <<h>>
           z == From(q, 2)
           s == "/"
<1>1. q \in Seq(Words) /\ q # <<>> /\ q[1] = "/" /\ s \in Words /\ h # s
  BY WordFacts DEF Rooted, Hashes
<1>2. q = r \o z /\ z \in Seq(Words)
  <2>1. Len(q) \in Nat \ {0}
    BY <1>1
  <2>2. 1 \in 1..Len(q) /\ Len(q) \in 1..Len(q) /\ 1 + 1 = 2
    BY <2>1
  <2>3. SubSeq(q, 1, Len(q)) = <<q[1]>> \o SubSeq(q, 1 + 1, Len(q))
    BY <1>1, <2>2, SubSeqRecursiveFirst
  <2>4. SubSeq(q, 1, Len(q)) = q
    BY <1>1, SubSeqFull
  <2>5. z \in Seq(Words)
    <3>1. <<>> \in Seq(Words) /\ 2 \in 1..(Len(q) + 1)
      BY <2>1
    <3>2. QED
      BY <1>1, <3>1, SuffixOf
  <2>6. QED
    BY <1>1, <2>2, <2>3, <2>4, <2>5 DEF From
<1>3. u = r \o (o \o q) /\ o \in Seq(Words) /\ o \o q \in Seq(Words) /\ r \in Seq(Words) /\ Len(r) = 1
  <2>1. /\ <<"/", h>> \o q = <<"/">> \o (<<h>> \o q)
        /\ <<h>> \in Seq(Words) /\ <<h>> \o q \in Seq(Words)
    BY <1>1, UnderHash, Zenon
  <2>2. r \in Seq(Words) /\ Len(r) = 1
    BY <1>1
  <2>3. QED
    BY <2>1, <2>2
<1>4. From(u, 2) = o \o q
  <2> DEFINE b == o \o q
  <2>1. b \in Seq(Words) /\ 1 \in 1..(Len(b) + 1)
    BY <1>3
  <2> HIDE DEF b, r, u
  <2>2. From(r \o b, Len(r) + 1) = From(b, 1)
    BY <1>3, <2>1, SuffixOf
  <2>3. From(b, 1) = b
    BY <2>1, SubSeqFull DEF From
  <2>4. Len(r) + 1 = 2
    BY <1>3
  <2>5. QED
    BY <1>3, <2>2, <2>3, <2>4 DEF b
<1>5. Upto(o \o (<<s>> \o z), s) = o /\ After(o \o (<<s>> \o z), s) = z
  <2>1. Without(o, s)
    BY <1>1 DEF Without
  <2> HIDE DEF o, z, s
  <2>2. QED
    BY <1>1, <1>2, <1>3, <2>1, SplitAt
<1>6. Upto(From(u, 2), "/") = o /\ After(From(u, 2), "/") = z
  BY <1>2, <1>4, <1>5
<1> HIDE DEF u, z
<1>7. o # <<>> /\ o[1] = h /\ (\E m \in Mods : o = <<m>>) <=> h \in Mods
  <2>1. o # <<>> /\ o[1] = h
    OBVIOUS
  <2>2. ASSUME NEW m \in Mods, o = <<m>> PROVE h \in Mods
    <3>1. o[1] = m
      BY <2>2
    <3>2. QED
      BY <2>1, <3>1
  <2>3. QED
    BY <2>1, <2>2
<1>8. h \notin Mods => CheckHash(o)
  <2>1. 1 \in DOMAIN o /\ o[1] = h
    OBVIOUS
  <2>2. QED
    BY <2>1 DEF CheckHash, Hashes
<1>9. o # <<>> /\ o[1] = h
  OBVIOUS
<1> DEFINE type == IF h \in Mods THEN h ELSE "default"
<1>10. (type = "default") => h \notin Mods
  BY URLParserAssumption
<1> HIDE DEF o, r
<1>11. (\E m \in Mods : o = <<m>>) <=> h \in Mods
  BY <1>7, <1>9
<1>12. Parse(u) =
         IF o = <<>> \/ (type = "default" /\ ~CheckHash(o)) THEN ParseError
         ELSE [err |-> FALSE, InfoHash |-> o, Type |-> type, Path |-> ExtractMod(q).path,
               OriginPath |-> OriginPath(ExtractMod(q).path), Mod |-> ExtractMod(q).mod]
  <2>1. <<"/">> \o z = q
    BY <1>2 DEF r
  <2>2. QED
    BY <1>6, <1>9, <1>11, <2>1 DEF Parse
<1>13. Parse(u) = [err |-> FALSE, InfoHash |-> o, Type |-> type, Path |-> ExtractMod(q).path,
               OriginPath |-> OriginPath(ExtractMod(q).path), Mod |-> ExtractMod(q).mod]
  BY <1>8, <1>9, <1>10, <1>12
<1>14. QED
  BY <1>13 DEF u, o

LEMMA ExtractRooted ==
    ASSUME NEW q \in Rooted
    PROVE  ExtractMod(q).path \in Rooted
<1> DEFINE k == ModIndex(q)
           a == SubSeq(q, 1, k - 1)
<1>1. q \in Seq(Words) /\ q # <<>> /\ q[1] = "/"
  BY DEF Rooted
<1>2. CASE k = 0
  BY <1>2 DEF ExtractMod
<1>3. CASE k # 0
  <2>1. k \in 1..Len(q) /\ q[k] = "~"
    BY <1>1, <1>3, ModIndexIs DEF Tildes
  <2>2. k # 1
    BY <1>1, <2>1
  <2>3. ExtractMod(q).path = a
    BY <1>3 DEF ExtractMod
  <2> HIDE DEF k
  <2>4. k - 1 \in Int /\ k - 1 >= 1 /\ \A i \in 1..(k - 1) : q[i] \in Words
    BY <1>1, <2>1, <2>2
  <2>5. a \in Seq(Words) /\ Len(a) = k - 1 /\ a[1] = q[1]
    <3> DEFINE p == q
               l == k - 1
    <3>1. l \in Int /\ l >= 1 /\ \A i \in 1..l : p[i] \in Words
      BY <2>4
    <3> HIDE DEF p, l
    <3>2. /\ SubSeq(p, 1, l) \in Seq(Words) /\ Len(SubSeq(p, 1, l)) = (IF 1 <= l THEN l - 1 + 1 ELSE 0)
          /\ \A i \in 1..(l - 1 + 1) : SubSeq(p, 1, l)[i] = p[1 + i - 1]
      BY <3>1, SubSeqProperties
    <3>3. l - 1 + 1 = l /\ 1 \in 1..l /\ 1 + 1 - 1 = 1 /\ 1 <= l
      BY <3>1
    <3>4. QED
      BY <3>2, <3>3 DEF p, l
  <2> HIDE DEF a
  <2>6. a # <<>>
    <3>1. Len(a) # 0 /\ Len(<<>>) = 0
      BY <2>4, <2>5
    <3>2. QED
      BY <3>1
  <2>7. QED
    BY <1>1, <2>3, <2>5, <2>6 DEF Rooted
<1>4. QED
  BY <1>2, <1>3

(* Every URL that starts like the ones the proxy makes is one of them. *)
LEMMA StartsLike ==
    ASSUME NEW h \in Hashes, NEW u \in Seq(Words), Len(u) >= 3, u[1] = "/", u[2] = h, u[3] = "/"
    PROVE  \E q \in Rooted : u = <<"/", h>> \o q
<1> DEFINE q == SubSeq(u, 3, Len(u))
<1>1. Len(u) \in Nat /\ 1 \in 1..Len(u) /\ 2 \in 1..Len(u) /\ 3 \in 1..Len(u)
  OBVIOUS
<1>2. /\ SubSeq(u, 1, Len(u)) = <<u[1]>> \o SubSeq(u, 1 + 1, Len(u))
      /\ SubSeq(u, 2, Len(u)) = <<u[2]>> \o SubSeq(u, 2 + 1, Len(u))
      /\ SubSeq(u, 3, Len(u)) = <<u[3]>> \o SubSeq(u, 3 + 1, Len(u))
  <2>1. Len(u) \in 1..Len(u) /\ Len(u) \in 2..Len(u) /\ Len(u) \in 3..Len(u)
    BY <1>1
  <2>2. QED
    BY <1>1, <2>1, SubSeqRecursiveFirst
<1>3. 1 + 1 = 2 /\ 2 + 1 = 3 /\ 3 + 1 = 4
  OBVIOUS
<1>4. SubSeq(u, 1, Len(u)) = u
  BY SubSeqFull
<1>5. u = <<"/">> \o (<<h>> \o q)
  BY <1>2, <1>3, <1>4
<1>6. \A j \in 1..(Len(u) + 1) : From(u, j) \in Seq(Words)
  BY SuffixOf
<1>7. q \in Seq(Words) /\ SubSeq(u, 4, Len(u)) \in Seq(Words)
  <2>1. 3 \in 1..(Len(u) + 1) /\ 4 \in 1..(Len(u) + 1)
    BY <1>1
  <2>2. QED
    BY <1>6, <2>1 DEF From
<1>8. q # <<>> /\ q[1] = "/"
  <2> DEFINE z == SubSeq(u, 4, Len(u))
  <2>1. q = <<"/">> \o z /\ z \in Seq(Words) /\ "/" \in Words
    BY <1>2, <1>3, <1>7, WordFacts
  <2> HIDE DEF z, q
  <2>2. QED
    BY <2>1
<1> HIDE DEF q
<1>9. u = <<"/", h>> \o q
  BY <1>5, <1>7, UnderHash
<1>10. QED
  BY <1>7, <1>8, <1>9 DEF Rooted

(* What a service requests: a URL of the same torrent; if no name has a    *)
(* question mark in it, with the path it was given.                        *)
LEMMA SourceRooted ==
    ASSUME NEW h \in Hashes, NEW p \in Rooted
    PROVE  /\ \E q \in Rooted : Upto((<<"/">> \o <<h>>) \o p, "?") = <<"/", h>> \o q
           /\ Without(p, "?") => Upto((<<"/">> \o <<h>>) \o p, "?") = <<"/", h>> \o p
<1> DEFINE w == <<"/", h>> \o p
           k == First(w, "?")
<1>1. p \in Seq(Words) /\ p # <<>> /\ p[1] = "/" /\ h # "?"
  BY WordFacts DEF Rooted, Hashes
<1>2. /\ (<<"/">> \o <<h>>) \o p = w /\ w \in Seq(Words)
      /\ Len(w) = 2 + Len(p) /\ Len(p) \in Nat /\ w[1] = "/" /\ w[2] = h
      /\ \A i \in 1..Len(p) : w[2 + i] = p[i]
  BY <1>1, UnderHash
<1> HIDE DEF w
<1>3. Len(p) >= 1
  BY <1>1
<1>4. w[3] = "/"
  <2>1. 1 \in 1..Len(p) /\ 2 + 1 = 3
    BY <1>2, <1>3
  <2>2. QED
    BY <1>1, <1>2, <2>1
<1>5. /\ k \in 0..Len(w)
      /\ k = 0 => Without(w, "?")
      /\ k # 0 => w[k] = "?"
  BY <1>2, FirstIs DEF Without
<1>6. \E q \in Rooted : Upto(w, "?") = <<"/", h>> \o q
  <2>1. CASE k = 0
    <3>1. Upto(w, "?") = w
      BY <1>2, <1>5, <2>1, NoSplit
    <3>2. QED
      BY <3>1 DEF w
  <2>2. CASE k # 0
    <3>1. Upto(w, "?") = SubSeq(w, 1, k - 1)
      BY <2>2, UptoFirst
    <3>2. k # 1 /\ k # 2 /\ k # 3 /\ k \in 0..Len(w)
      BY <1>1, <1>2, <1>4, <1>5, <2>2
    <3> DEFINE l == k - 1
               a == SubSeq(w, 1, l)
    <3>3. l \in Int /\ l >= 3 /\ \A i \in 1..l : w[i] \in Words
      BY <1>2, <2>2, <3>2
    <3> HIDE DEF l
    <3> DEFINE e == w
    <3>4. \A i \in 1..l : e[i] \in Words
      BY <3>3
    <3> HIDE DEF e
    <3>5. /\ SubSeq(e, 1, l) \in Seq(Words) /\ Len(SubSeq(e, 1, l)) = (IF 1 <= l THEN l - 1 + 1 ELSE 0)
          /\ \A i \in 1..(l - 1 + 1) : SubSeq(e, 1, l)[i] = e[1 + i - 1]
      BY <3>3, <3>4, SubSeqProperties
    <3>6. /\ l - 1 + 1 = l /\ 1 \in 1..l /\ 2 \in 1..l /\ 3 \in 1..l /\ 1 <= l
          /\ 1 + 1 - 1 = 1 /\ 1 + 2 - 1 = 2 /\ 1 + 3 - 1 = 3
      BY <3>3
    <3>7. a \in Seq(Words) /\ Len(a) = l /\ a[1] = w[1] /\ a[2] = w[2] /\ a[3] = w[3]
      BY <3>5, <3>6 DEF e
    <3> HIDE DEF a
    <3>8. \E q \in Rooted : a = <<"/", h>> \o q
      BY <1>2, <1>4, <3>3, <3>7, StartsLike
    <3>9. QED
      BY <3>1, <3>8 DEF a, l
  <2>3. QED
    BY <2>1, <2>2
<1>7. ASSUME Without(p, "?") PROVE Upto(w, "?") = w
  <2>1. Without(w, "?")
    <3>1. ASSUME NEW i \in 1..Len(w) PROVE w[i] # "?"
      <4>1. CASE i = 1 \/ i = 2
        BY <1>1, <1>2, <4>1
      <4>2. CASE ~(i = 1 \/ i = 2)
        <5>1. i - 2 \in 1..Len(p) /\ 2 + (i - 2) = i
          BY <1>2, <4>2
        <5>2. w[i] = p[i - 2]
          BY <1>2, <5>1
        <5>3. QED
          BY <1>7, <5>1, <5>2 DEF Without
      <4>3. QED
        BY <4>1, <4>2
    <3>2. QED
      BY <3>1 DEF Without
  <2>2. QED
    BY <1>2, <2>1, NoSplit
<1>8. QED
  BY <1>2, <1>6, <1>7 DEF w

(* The requests of a chain: each is for what the one before it names. *)
Sources(h) == {Parse(<<"/", h>> \o q) : q \in Rooted}

LEMMA SourceFacts ==
    ASSUME NEW h \in Hashes, NEW src \in Sources(h)
    PROVE  /\ src.err = FALSE /\ src.InfoHash = <<h>> /\ src.Path \in Rooted
           /\ Parse(SourceURL(src)) \in Sources(h)
<1>1. PICK q \in Rooted : src = Parse(<<"/", h>> \o q)
  BY DEF Sources
<1>2. src = [err |-> FALSE, InfoHash |-> <<h>>, Type |-> IF h \in Mods THEN h ELSE "default",
             Path |-> ExtractMod(q).path, OriginPath |-> OriginPath(ExtractMod(q).path),
             Mod |-> ExtractMod(q).mod]
  BY <1>1, RootedParse
<1>3. src.err = FALSE /\ src.InfoHash = <<h>> /\ src.Path = ExtractMod(q).path
  BY <1>2
<1>4. src.Path \in Rooted
  BY <1>3, ExtractRooted
<1>5. SourceURL(src) = Upto((<<"/">> \o <<h>>) \o src.Path, "?")
  BY <1>3 DEF SourceURL
<1>6. PICK z \in Rooted : Upto((<<"/">> \o <<h>>) \o src.Path, "?") = <<"/", h>> \o z
  BY <1>4, SourceRooted
<1>7. Parse(SourceURL(src)) \in Sources(h)
  BY <1>5, <1>6 DEF Sources
<1>8. QED
  BY <1>3, <1>4, <1>7

LEMMA InputIsURL ==
    ASSUME input \in Inputs, input.kind = "url"
    PROVE  /\ input.hash \in Hashes /\ input.mods \in Seq(ModCalls)
           /\ input.origin \in Rooted /\ ModIndex(input.origin) = 0
<1>1. input \in URLs
  BY DEF Inputs, Distributions, Manifests
<1>2. /\ input.hash \in Hashes /\ input.mods \in Seq(ModCalls)
      /\ input.origin \in Plain(Tokens \cup {"?"}, MaxOrigin) \cup Plain(Tokens, 2)
  BY <1>1 DEF URLs, Hashes
<1>3. /\ Tokens \cup {"?"} \subseteq Words /\ Tokens \subseteq Words
      /\ "/" \in Tokens /\ "/" \in Tokens \cup {"?"} /\ MaxOrigin \in Nat /\ 2 \in Nat
  BY LengthsAssumption DEF Words, Tokens
<1>4. input.origin \in Seq(Words) /\ ModIndex(input.origin) = 0 /\ input.origin # <<>> /\ input.origin[1] = "/"
  <2> DEFINE o == input.origin
             X == Tokens \cup {"?"}
  <2>1. X \subseteq Words /\ "/" \in X /\ o \in Plain(X, MaxOrigin) \cup Plain(Tokens, 2)
    BY <1>2, <1>3
  <2> HIDE DEF o, X
  <2>2. CASE o \in Plain(X, MaxOrigin)
    BY <1>3, <2>1, <2>2, PlainPath DEF o
  <2>3. CASE o \in Plain(Tokens, 2)
    BY <1>3, <2>1, <2>3, PlainPath DEF o
  <2>4. QED
    BY <2>1, <2>2, <2>3
<1>5. QED
  BY <1>2, <1>4 DEF Rooted

LEMMA ServedRooted ==
    ASSUME NEW origin \in Rooted, NEW mods \in Seq(ModCalls), NEW n \in 0..Len(mods)
    PROVE  Served(origin, mods)[n] \in Rooted
<1> DEFINE s == Served(origin, mods)
<1>1. origin \in Seq(Words) /\ origin # <<>> /\ origin[1] = "/"
  BY DEF Rooted
<1>2. s[0] = origin /\ s \in [0..Len(mods) -> Seq(Words)]
  BY <1>1, ServedSteps
<1>3. 0 \in 0..n
  OBVIOUS
<1>4. PICK r \in Seq(Words) : s[n] = s[0] \o r
  BY <1>1, <1>3, ServedGrows
<1>5. s[n] = origin \o r
  BY <1>2, <1>4
<1> HIDE DEF s
<1>6. Len(origin) \in Nat \ {0}
  BY <1>1
<1>7. (origin \o r)[1] = origin[1] /\ Len(origin \o r) = Len(origin) + Len(r) /\ Len(r) \in Nat
      /\ origin \o r \in Seq(Words)
  <2>1. 1 \in 1..Len(origin)
    BY <1>6
  <2>2. QED
    BY <1>1, <2>1, Joined
<1> DEFINE w == origin \o r
<1>8. w \in Seq(Words) /\ w[1] = "/" /\ Len(w) # 0
  BY <1>1, <1>6, <1>7
<1> HIDE DEF w
<1>9. w # <<>>
  BY <1>8
<1>10. w \in Rooted
  BY <1>8, <1>9 DEF Rooted
<1>11. QED
  BY <1>5, <1>10 DEF w, s

LEMMA CallSteps ==
    ASSUME input \in Inputs, input.kind = "url"
    PROVE  LET all == Len(input.mods) IN
           /\ Calls[0] = Parse(URL)
           /\ \A i \in 1..all : Calls[i] = Parse(SourceURL(Calls[i - 1]))
           /\ \A i \in 0..all : Calls[i] \in Sources(input.hash)
<1> DEFINE N == Len(input.mods)
           S == Sources(input.hash)
           start == Parse(URL)
           F(c) == [i \in 0..N |-> Parse(IF i = 0 THEN URL ELSE SourceURL(c[i - 1]))]
           g == [i \in 1..N |-> [a \in S |-> Parse(SourceURL(a))]]
<1>1. /\ input.hash \in Hashes /\ input.mods \in Seq(ModCalls)
      /\ input.origin \in Rooted /\ N \in Nat
  BY InputIsURL
<1>2. start \in S
  <2> DEFINE q == Served(input.origin, input.mods)[N]
  <2>1. q \in Rooted
    <3>1. N \in 0..N
      BY <1>1
    <3>2. QED
      BY <1>1, <3>1, ServedRooted
  <2>2. URL = <<"/", input.hash>> \o q
    BY DEF URL, Compose
  <2> HIDE DEF q
  <2>3. QED
    BY <2>1, <2>2 DEF Sources
<1>3. \A a \in S : Parse(SourceURL(a)) \in S
  BY <1>1, SourceFacts
<1> HIDE DEF N, S
<1>4. \E c : c = F(c)
  <2>1. g \in [1..N -> [S -> S]]
    BY <1>3
  <2>2. PICK c \in [0..N -> S] : Iterates(c, g, start, N)
    <3> HIDE DEF g, start
    <3>1. QED
      BY <1>1, <1>2, <2>1, IteratesExist
  <2>3. ASSUME NEW n \in 0..N PROVE c[n] = F(c)[n]
    <3>1. CASE n = 0
      BY <2>2, <3>1 DEF Iterates
    <3>2. CASE n # 0
      <4>1. n \in 1..N /\ c[n - 1] \in S
        BY <1>1, <2>2, <3>2
      <4>2. c[n] = g[n][c[n - 1]]
        BY <2>2, <4>1 DEF Iterates
      <4>3. QED
        BY <3>2, <4>1, <4>2
    <3>3. QED
      BY <3>1, <3>2
  <2>4. c = F(c)
    BY <2>2, <2>3
  <2>5. QED
    BY <2>4
<1> DEFINE c == CHOOSE x : x = F(x)
<1>5. Calls = c
  BY DEF Calls, N
<1>6. c = F(c)
  BY <1>4
<1> HIDE DEF c
<1>7. c[0] = start
  BY <1>1, <1>6
<1>8. ASSUME NEW n \in 1..N PROVE c[n] = Parse(SourceURL(c[n - 1]))
  <2>1. n \in 0..N /\ n # 0
    BY <1>1
  <2>2. QED
    BY <1>6, <2>1
<1> HIDE DEF start
<1>9. \A n \in 0..N : c[n] \in S
  <2> DEFINE T == {n \in 0..N : c[n] \in S}
  <2>1. 0 \in T
    BY <1>1, <1>2, <1>7
  <2>2. \A n \in 1..N : n - 1 \in T => n \in T
    BY <1>1, <1>3, <1>8
  <2> HIDE DEF T
  <2>3. \A n \in 0..N : n \in T
    BY <1>1, <2>1, <2>2, LoopInduction
  <2>4. QED
    BY <2>3 DEF T
<1>10. QED
  BY <1>5, <1>7, <1>8, <1>9 DEF start, S, N

(* Without question marks, the call for what is left after i services is   *)
(* for the file with the other services.                                   *)
LEMMA CallsPeel ==
    ASSUME input \in Inputs, input.kind = "url", ~Contains(URL, "?")
    PROVE  LET all == Len(input.mods)
               s == Served(input.origin, input.mods)
           IN  \A i \in 0..all : Calls[i] = Parse(<<"/", input.hash>> \o s[all - i])
<1> DEFINE all == Len(input.mods)
           s == Served(input.origin, input.mods)
           h == input.hash
           T == {i \in 0..all : Calls[i] = Parse(<<"/", h>> \o s[all - i])}
<1>1. /\ h \in Hashes /\ input.mods \in Seq(ModCalls) /\ all \in Nat
      /\ input.origin \in Rooted /\ input.origin \in Seq(Words)
  BY InputIsURL DEF Rooted
<1>2. /\ Calls[0] = Parse(URL)
      /\ \A i \in 1..all : Calls[i] = Parse(SourceURL(Calls[i - 1]))
  BY CallSteps
<1>3. URL = <<"/", h>> \o s[all]
  BY DEF URL, Compose
<1>4. /\ s \in [0..all -> Seq(Words)]
      /\ \A n \in 1..all : input.mods[n] \in ModCalls /\ s[n] = WithMod(s[n - 1], input.mods[n])
  BY <1>1, ServedSteps
<1>5. \A n \in 0..all : s[n] \in Rooted
  BY <1>1, ServedRooted
<1>6. ASSUME NEW n \in 0..all PROVE Without(s[n], "?")
  <2>1. all \in 0..all /\ n \in 0..all
    BY <1>1
  <2>2. PICK r \in Seq(Words) : s[all] = s[n] \o r
    BY <1>1, <2>1, ServedGrows
  <2> DEFINE a == s[n]
             b == s[all]
  <2>3. a \in Seq(Words) /\ b \in Seq(Words) /\ b = a \o r
    BY <1>4, <2>1, <2>2
  <2> HIDE DEF a, b
  <2>4. /\ Len(b) = Len(a) + Len(r) /\ Len(a) \in Nat /\ Len(r) \in Nat
        /\ \A i \in 1..Len(a) : b[i] = a[i]
    BY <2>3, Joined
  <2>5. /\ Len(<<"/", h>> \o b) = 2 + Len(b)
        /\ \A i \in 1..Len(b) : (<<"/", h>> \o b)[2 + i] = b[i]
    BY <1>1, <2>3, UnderHash
  <2>6. ASSUME NEW i \in 1..Len(a) PROVE a[i] # "?"
    <3> DEFINE u == <<"/", h>> \o b
    <3>1. i \in 1..Len(b) /\ 2 + i \in 1..(2 + Len(b)) /\ b[i] = a[i]
      BY <2>4
    <3>2. 2 + i \in 1..Len(u) /\ u[2 + i] = a[i]
      BY <2>5, <3>1
    <3>3. u = URL
      BY <1>3 DEF b
    <3> HIDE DEF u
    <3>4. QED
      BY <3>2, <3>3 DEF Contains
  <2>7. QED
    BY <2>6 DEF Without, a
<1> HIDE DEF s, all, h
<1>7. 0 \in T
  <2>1. 0 \in 0..all /\ all - 0 = all
    BY <1>1
  <2>2. QED
    BY <1>2, <1>3, <2>1
<1>8. ASSUME NEW i \in 1..all, i - 1 \in T PROVE i \in T
  <2> DEFINE n == all - i
             P == s[n]
             m == input.mods[n + 1]
  <2>1. /\ i \in 0..all /\ n \in 0..all /\ n + 1 \in 1..all /\ all - (i - 1) = n + 1
        /\ n + 1 \in 0..all /\ (n + 1) - 1 = n
    BY <1>1
  <2>2. Calls[i - 1] = Parse(<<"/", h>> \o s[n + 1])
    BY <1>8, <2>1
  <2>3. P \in Rooted /\ s[n + 1] \in Rooted /\ m \in ModCalls /\ s[n + 1] = WithMod(P, m) /\ Without(P, "?")
    BY <1>4, <1>5, <1>6, <2>1
  <2>4. Calls[i] = Parse(SourceURL(Calls[i - 1]))
    BY <1>2
  <2> HIDE DEF P, m
  <2>5. ExtractMod(WithMod(P, m)).path = P
    <3>1. P \in Seq(Words)
      BY <2>3 DEF Rooted
    <3>2. QED
      BY <2>3, <3>1, ExtractLast
  <2> DEFINE src == Calls[i - 1]
  <2>6. src.InfoHash = <<h>> /\ src.Path = P
    <3> DEFINE q == s[n + 1]
    <3>1. q \in Rooted /\ src = Parse(<<"/", h>> \o q) /\ ExtractMod(q).path = P
      BY <2>2, <2>3, <2>5
    <3> HIDE DEF q, src
    <3>2. src = [err |-> FALSE, InfoHash |-> <<h>>, Type |-> IF h \in Mods THEN h ELSE "default",
                 Path |-> ExtractMod(q).path, OriginPath |-> OriginPath(ExtractMod(q).path),
                 Mod |-> ExtractMod(q).mod]
      BY <1>1, <3>1, RootedParse
    <3>3. QED
      BY <3>1, <3>2
  <2>7. SourceURL(src) = Upto((<<"/">> \o <<h>>) \o P, "?")
    BY <2>6 DEF SourceURL
  <2>8. SourceURL(src) = <<"/", h>> \o P
    BY <1>1, <2>3, <2>7, SourceRooted
  <2>9. Calls[i] = Parse(<<"/", h>> \o P)
    BY <2>4, <2>8
  <2>10. QED
    BY <2>1, <2>9 DEF P
<1>9. \A i \in 0..all : i \in T
  <2> HIDE DEF T
  <2>1. QED
    BY <1>1, <1>7, <1>8, LoopInduction
<1>10. QED
  BY <1>9 DEF s, all, h

(* The services of a URL are called from the last to the first, each with  *)
(* its own path and extra, all for the same torrent and file, and the last *)
(* call is for the file itself: for any number of services, for files and  *)
(* paths of any length and with any tildes in their names.                 *)
THEOREM ChainPeels == Spec => []ChainPeelsMods
<1>1. InputOK => ChainPeelsMods
  <2> SUFFICES ASSUME input \in Inputs, input.kind = "url" PROVE ChainPeelsMods
    BY DEF InputOK, ChainPeelsMods
  <2> DEFINE all == Len(input.mods)
             s == Served(input.origin, input.mods)
             h == input.hash
             origin == input.origin
  <2>1. /\ h \in Hashes /\ input.mods \in Seq(ModCalls) /\ all \in Nat
        /\ origin \in Rooted /\ origin \in Seq(Words) /\ ModIndex(origin) = 0
    BY InputIsURL DEF Rooted
  <2>2. ASSUME NEW i \in 0..all PROVE ~Calls[i].err /\ Calls[i].InfoHash = <<h>>
    <3>1. Calls[i] \in Sources(h)
      BY CallSteps
    <3>2. Calls[i].err = FALSE /\ Calls[i].InfoHash = <<h>>
      BY <2>1, <3>1, SourceFacts
    <3>3. QED
      BY <3>2
  <2>3. ASSUME NEW i \in 0..all, ~Contains(URL, "?")
        PROVE  LET src == Calls[i] IN
               /\ <<"/", h>> \o src.Path = Compose(IF i = all THEN 0 ELSE all - i - 1)
               /\ src.OriginPath = origin
               /\ i = all => src.Mod = NoMod /\ GetEdgeType(src) = src.Type
               /\ i < all =>
                     LET m == input.mods[all - i] IN
                     /\ GetEdgeType(src) = m.name
                     /\ src.Mod.Path = (IF m.path = <<>> THEN <<"/">> ELSE CleanPath(m.path))
                     /\ (m.extra # <<>> \/ ~ColonAfterTilde(m.path)) => src.Mod.Extra = m.extra
    <3> DEFINE n == all - i
               q == s[n]
               src == Calls[i]
               ex == ExtractMod(q)
    <3>1. n \in 0..all /\ (i = all <=> n = 0) /\ (i < all <=> n # 0) /\ all - i - 1 = n - 1
      BY <2>1
    <3>2. src = Parse(<<"/", h>> \o q)
      BY <2>3, CallsPeel
    <3>3. q \in Rooted
      BY <2>1, <3>1, ServedRooted
    <3>4. /\ s[0] = origin /\ s \in [0..all -> Seq(Words)]
          /\ \A k \in 1..all : input.mods[k] \in ModCalls /\ s[k] = WithMod(s[k - 1], input.mods[k])
      BY <2>1, ServedSteps
    <3>5. \A k : Compose(k) = <<"/", h>> \o s[k]
      BY DEF Compose
    <3>6. \A k \in 0..all : OriginPath(s[k]) = origin
      BY <2>1, OriginOfServed
    <3> HIDE DEF s, h, q, all, origin, n
    <3>7. src = [err |-> FALSE, InfoHash |-> <<h>>, Type |-> IF h \in Mods THEN h ELSE "default",
                 Path |-> ex.path, OriginPath |-> OriginPath(ex.path), Mod |-> ex.mod]
      BY <2>1, <3>2, <3>3, RootedParse
    <3> HIDE DEF src, ex
    <3>8. src.Path = ex.path /\ src.OriginPath = OriginPath(ex.path) /\ src.Mod = ex.mod
      BY <3>7
    <3>9. CASE n = 0
      <4>1. q = origin
        BY <3>4, <3>9 DEF q
      <4>2. ex.path = origin /\ ex.mod = NoMod
        BY <2>1, <4>1 DEF ex, ExtractMod
      <4>3. OriginPath(origin) = origin
        <5>1. 0 \in 0..all
          BY <2>1
        <5>2. QED
          BY <3>4, <3>6, <5>1
      <4>4. <<"/", h>> \o src.Path = Compose(0)
        BY <3>4, <3>5, <3>8, <4>2
      <4>5. GetEdgeType(src) = src.Type
        BY <3>8, <4>2 DEF GetEdgeType
      <4>6. QED
        BY <3>1, <3>8, <3>9, <4>2, <4>3, <4>4, <4>5 DEF src
    <3>10. CASE n # 0
      <4> DEFINE P == s[n - 1]
                 m == input.mods[n]
      <4>1. n \in 1..all /\ n - 1 \in 0..all
        BY <2>1, <3>1, <3>10
      <4>2. P \in Seq(Words) /\ m \in ModCalls /\ q = WithMod(P, m)
        BY <3>4, <4>1 DEF q
      <4>3. OriginPath(P) = origin
        BY <3>6, <4>1
      <4> HIDE DEF P, m
      <4>4. /\ ex.path = P
            /\ ex.mod # NoMod /\ ex.mod.Type = m.name
            /\ ex.mod.Path = (IF m.path = <<>> THEN <<"/">> ELSE CleanPath(m.path))
            /\ (m.extra # <<>> \/ ~ColonAfterTilde(m.path)) => ex.mod.Extra = m.extra
        BY <4>2, ExtractLast DEF ex
      <4>5. <<"/", h>> \o src.Path = Compose(n - 1)
        BY <3>5, <3>8, <4>4 DEF P
      <4>6. GetEdgeType(src) = m.name
        BY <3>8, <4>4 DEF GetEdgeType
      <4>7. m = input.mods[all - i]
        BY DEF m, n
      <4>8. QED
        BY <3>1, <3>8, <3>10, <4>3, <4>4, <4>5, <4>6, <4>7 DEF src
    <3>11. QED
      BY <3>9, <3>10
  <2>4. QED
    BY <2>2, <2>3 DEF ChainPeelsMods
<1>2. QED
  BY <1>1, AlwaysInputs, PTL
============================================================================
