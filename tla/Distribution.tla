--------------------------- MODULE Distribution ---------------------------
(***************************************************************************)
(* services/service_location.go: which pod serves a torrent.  The first    *)
(* five hex digits of the infohash, a number in 0..MaxPrefix, are laid out *)
(* on a line of length Total that the candidate addresses divide between   *)
(* them in the order of their IPs.                                         *)
(*                                                                         *)
(* Pods and nodes are positive integers in the order of their IPs and      *)
(* names; NoPod is nil.                                                    *)
(***************************************************************************)
EXTENDS Integers, Sequences, FiniteSets, FiniteSetsExt

CONSTANTS
    Pods, Nodes,
    NodeOf,     \* NodeOf[p]: *a.NodeName
    MaxPrefix,  \* 1048575 in the code: fffff
    Scale       \* 1000 in the code

ASSUME DistributionAssumption ==
    /\ IsFiniteSet(Pods) /\ Pods \subseteq Nat \ {0}
    /\ IsFiniteSet(Nodes) /\ Nodes \subseteq Nat \ {0}
    /\ NodeOf \in [Pods -> Nodes]
    /\ MaxPrefix \in Nat \ {0} /\ Scale \in Nat \ {0}

NoPod == 0
HashPrefixes == 0..MaxPrefix
Total == MaxPrefix * Scale

(* The i-th element is the one that i elements of S do not exceed. *)
Sorted(S) ==
    [i \in 1..Cardinality(S) |-> CHOOSE x \in S : Cardinality({y \in S : y <= x}) = i]

(* Compares with the start of an interval. *)
IntervalEnds_Starts(prefix, n) == {i \in 1..n : prefix * Scale < (i - 1) * (Total \div n)}

(* The loop returns the first of n intervals that ends beyond the prefix. *)
IntervalEnds(prefix, n) == {i \in 1..n : prefix * Scale < i * (Total \div n)}

DistributeByHash(prefix, as) ==
    LET ends == IntervalEnds(prefix, Cardinality(as))
    IN  IF ends = {} THEN NoPod ELSE Sorted(as)[Min(ends)]

On(node, as) == {a \in as : NodeOf[a] = node}

(* Divides the line between the pods of all nodes, without nodes first. *)
DistributeByNodeHash_Flat(prefix, as, allowed) ==
    LET mine == {a \in as : NodeOf[a] \in allowed}
    IN  IF mine = {} THEN NoPod ELSE DistributeByHash(prefix, mine)

(* The line is divided between the nodes, and the part of a node between   *)
(* its pods.  allowed is what filterNodesByRole leaves of the nodes.       *)
DistributeByNodeHash(prefix, as, allowed) ==
    LET nodes  == Sorted({NodeOf[a] : a \in as} \cap allowed)
        width  == Total \div Len(nodes)
        nas(i) == Sorted(On(nodes[i], as))
        Reaches(i, j) == prefix * Scale < (i - 1) * width + j * (width \div Len(nas(i)))
        hits(i) == {j \in 1..Len(nas(i)) : Reaches(i, j)}
        hitNodes == {i \in 1..Len(nodes) : hits(i) # {}}
        first == Min(hitNodes)
    IN  IF nodes = <<>> \/ hitNodes = {} THEN NoPod ELSE nas(first)[Min(hits(first))]

(* NodeStat.IsAllowed, with the roles of a node's two labels. *)
IsAllowed(labels, role) ==
    IF labels.allowed # {} THEN role \in labels.allowed ELSE role \notin labels.denied

NoRole == "none"

(* filterNodesByRole: without a role in the claims every node will do;     *)
(* with one, only ready nodes (stats) that allow it.                       *)
FilterNodesByRole(role, stats) ==
    IF role = NoRole THEN Nodes ELSE {n \in DOMAIN stats : IsAllowed(stats[n], role)}
=============================================================================
