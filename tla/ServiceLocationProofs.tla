----------------------- MODULE ServiceLocationProofs -----------------------
(***************************************************************************)
(* ServiceLocation, for every cluster, cache lifetime and set of requests. *)
(***************************************************************************)
EXTENDS ServiceLocation, DistributionProofs

-----------------------------------------------------------------------------
(* Types *)

EndpointsOK == endpoints \in [st : {"none", "listed"}, pods : SUBSET Pods, age : 0..EndpointsTTL]
ProbesOK == probes \in [Pods -> [st : {"none", "ok", "bad"}, age : 0..ProbeTTL]]
IgnoredOK == ignored \in [Pods -> 0..Forgotten]
WorldOK == up \subseteq Pods /\ listed \subseteq Pods /\ downFor \in [Pods -> 0..MaxDown]

(* A stored location has a pod exactly if it is not "unavailable". *)
LocationsOK ==
    /\ locations \in [Keys -> [st : {"none", "pod", "unavailable"},
                               pod : Pods \cup {NoPod}, age : 0..LocationTTL]]
    /\ \A k \in Keys : locations[k].pod # NoPod <=> locations[k].st = "pod"

LocalsOK ==
    /\ pc \in [Requests -> {"idle", "kube", "probe", "pod", "unavailable"}]
    /\ key \in [Requests -> Keys]
    /\ tries \in [Requests -> 0..2]
    /\ pod \in [Requests -> Pods \cup {NoPod}]
    /\ failed \in [Requests -> Pods \cup {NoPod}]
    /\ spent \in [Requests -> 0..MaxTicks]
    /\ \A r \in Requests : pod[r] # NoPod <=> pc[r] \in {"probe", "pod"}

TypeInv == WorldOK /\ EndpointsOK /\ ProbesOK /\ IgnoredOK /\ LocationsOK /\ LocalsOK

LEMMA TypeParts == TypeInv => TypeOK
  BY DEF TypeInv, WorldOK, EndpointsOK, ProbesOK, IgnoredOK, LocationsOK, LocalsOK, TypeOK

LEMMA Naturals ==
    /\ LocationTTL \in Nat /\ ProbeTTL \in Nat /\ IgnoreTTL \in Nat /\ EndpointsTTL \in Nat
    /\ MaxTicks \in Nat /\ MaxDown \in Nat /\ Forgotten \in Nat /\ Forgotten = IgnoreTTL + 1
    /\ NoPod \notin Pods
<1>1. /\ LocationTTL \in Nat /\ ProbeTTL \in Nat /\ IgnoreTTL \in Nat /\ EndpointsTTL \in Nat
      /\ MaxTicks \in Nat
  BY ServiceLocationAssumption
<1>2. QED
  BY <1>1, DistributionAssumption DEF MaxDown, Forgotten, NoPod

LEMMA InitTypes == Init => TypeInv
  BY Naturals DEF Init, TypeInv, WorldOK, EndpointsOK, ProbesOK, IgnoredOK, LocationsOK, LocalsOK,
     NoListing, NoProbe, NoLocation

LEMMA EnterTypes ==
    ASSUME LocalsOK, NEW r \in Requests, NEW label \in {"idle", "pod", "unavailable"},
           NEW p \in Pods \cup {NoPod}, p # NoPod <=> label = "pod", Enter(r, label, p)
    PROVE  LocalsOK'
<1>1. 0 \in 0..2 /\ 0 \in 0..MaxTicks
  BY Naturals
<1>2. QED
  BY <1>1 DEF Enter, LocalsOK

LEMMA StoredTypes ==
    ASSUME LocationsOK, NEW k \in Keys, NEW st \in {"pod", "unavailable"},
           NEW p \in Pods \cup {NoPod}, p # NoPod <=> st = "pod", locations' = Stored(k, st, p)
    PROVE  LocationsOK'
<1>1. 0 \in 0..LocationTTL
  BY Naturals
<1>2. QED
  BY <1>1 DEF Stored, LocationsOK

LEMMA IgnoreTypes ==
    ASSUME IgnoredOK, NEW p \in Pods
    PROVE  Ignore(p) \in [Pods -> 0..Forgotten]
<1>1. 0 \in 0..Forgotten
  BY Naturals
<1>2. QED
  BY <1>1 DEF Ignore, IgnoredOK

-----------------------------------------------------------------------------
(* The choices of getKubernetes *)

LEMMA ChoiceTypes ==
    ASSUME NEW as \in SUBSET Pods, NEW k, NEW a \in FirstChoices(k, as),
           NEW b \in FinalChoices(k, a, as)
    PROVE  a \in as \cup {NoPod} /\ b \in as \cup {NoPod}
<1>1. a \in as \cup {NoPod}
  <2> DEFINE allowed == FilterNodesByRole(Role, NodeStats)
  <2> HIDE DEF allowed
  <2>1. DistributeByNodeHash(k, as, allowed) \in as \cup {NoPod}
    BY NodeHashRange DEF UsablePods
  <2>2. DistributeByHash(k, as) \in as \cup {NoPod}
    BY HashRange
  <2>3. QED
    BY <2>1, <2>2 DEF FirstChoices, allowed
<1>2. b \in as \cup {NoPod}
  <2> DEFINE las == LocalAddresses(a, as)
  <2>1. las \in SUBSET as /\ las \in SUBSET Pods
    BY DEF LocalAddresses, On
  <2> HIDE DEF las
  <2>2. DistributeByHash(k, las) \in las \cup {NoPod}
    BY <2>1, HashRange
  <2>3. QED
    BY <1>1, <2>1, <2>2 DEF FinalChoices, las
<1>3. QED
  BY <1>1, <1>2

-----------------------------------------------------------------------------
(* Every step preserves the types. *)

LEMMA AgedTypes ==
    /\ EndpointsOK => Aged(endpoints, EndpointsTTL, NoListing) \in
                         [st : {"none", "listed"}, pods : SUBSET Pods, age : 0..EndpointsTTL]
    /\ ProbesOK => \A p \in Pods : Aged(probes[p], ProbeTTL, NoProbe) \in
                                      [st : {"none", "ok", "bad"}, age : 0..ProbeTTL]
    /\ LocationsOK => \A k \in Keys :
                         LET l == Aged(locations[k], LocationTTL, NoLocation)
                         IN  /\ l \in [st : {"none", "pod", "unavailable"},
                                       pod : Pods \cup {NoPod}, age : 0..LocationTTL]
                             /\ l.pod # NoPod <=> l.st = "pod"
<1>1. EndpointsOK => Aged(endpoints, EndpointsTTL, NoListing) \in
                        [st : {"none", "listed"}, pods : SUBSET Pods, age : 0..EndpointsTTL]
  BY Naturals DEF EndpointsOK, Aged, NoListing
<1>2. ProbesOK => \A p \in Pods : Aged(probes[p], ProbeTTL, NoProbe) \in
                                     [st : {"none", "ok", "bad"}, age : 0..ProbeTTL]
  BY Naturals DEF ProbesOK, Aged, NoProbe
<1>3. ASSUME LocationsOK, NEW k \in Keys
      PROVE  LET l == Aged(locations[k], LocationTTL, NoLocation)
             IN  /\ l \in [st : {"none", "pod", "unavailable"},
                           pod : Pods \cup {NoPod}, age : 0..LocationTTL]
                 /\ l.pod # NoPod <=> l.st = "pod"
  BY <1>3, Naturals DEF LocationsOK, Aged, NoLocation
<1>4. QED
  BY <1>1, <1>2, <1>3

LEMMA NextTypes == TypeInv /\ [Next]_vars => TypeInv'
<1> SUFFICES ASSUME TypeInv, [Next]_vars PROVE TypeInv'
  OBVIOUS
<1> USE DEF TypeInv
<1>1. ASSUME NEW r \in Requests, GetCached(r) PROVE TypeInv'
  <2> DEFINE l == locations[key[r]]
  <2>1. /\ l.st \in {"pod", "unavailable"} /\ l.pod \in Pods \cup {NoPod}
        /\ l.pod # NoPod <=> l.st = "pod"
    BY <1>1 DEF GetCached, LocationsOK, LocalsOK
  <2>2. LocalsOK'
    BY <1>1, <2>1, EnterTypes DEF GetCached
  <2>3. QED
    BY <1>1, <2>2 DEF GetCached, LocationAfterHit, WorldOK, world, EndpointsOK, ProbesOK, IgnoredOK,
       LocationsOK
<1>2. ASSUME NEW r \in Requests, Get(r) PROVE TypeInv'
  BY <1>2 DEF Get, WorldOK, world, caches, EndpointsOK, ProbesOK, IgnoredOK, LocationsOK, LocalsOK
<1>3. ASSUME NEW r \in Requests, KubeFails(r) PROVE TypeInv'
  <2>1. LocalsOK'
    BY <1>3, EnterTypes DEF KubeFails
  <2>2. QED
    BY <1>3, <2>1 DEF KubeFails, WorldOK, world, caches, EndpointsOK, ProbesOK, IgnoredOK, LocationsOK
<1>4. ASSUME NEW r \in Requests, FetchEndpoints(r) PROVE TypeInv'
  <2>1. EndpointsOK'
    BY <1>4, Naturals DEF FetchEndpoints, EndpointsOK, WorldOK
  <2>2. QED
    BY <1>4, <2>1 DEF FetchEndpoints, WorldOK, world, locals, ProbesOK, IgnoredOK, LocationsOK, LocalsOK
<1>5. ASSUME NEW r \in Requests, GetKubernetes(r) PROVE TypeInv'
  <2> DEFINE k == key[r]
             as == FilterAddressesByIgnore(endpoints.pods)
  <2>1. as \in SUBSET Pods /\ k \in Keys
    BY DEF FilterAddressesByIgnore, EndpointsOK, LocalsOK
  <2>2. WorldOK' /\ EndpointsOK' /\ ProbesOK' /\ IgnoredOK'
    BY <1>5 DEF GetKubernetes, WorldOK, world, EndpointsOK, ProbesOK, IgnoredOK
  <2>3. CASE Enter(r, "idle", NoPod) /\ UNCHANGED locations
    BY <2>2, <2>3, EnterTypes DEF LocationsOK
  <2>4. ASSUME NEW a \in FirstChoices(k, as), NEW b \in FinalChoices(k, a, as),
               ToProbe(r, b)
        PROVE  TypeInv'
    <3>1. b \in Pods \cup {NoPod}
      BY <2>1, ChoiceTypes
    <3>2. CASE b = NoPod
      <4>1. LocationsOK'
        BY <2>1, <2>4, <3>2, StoredTypes DEF ToProbe
      <4>2. LocalsOK'
        BY <2>4, <3>2, EnterTypes DEF ToProbe
      <4>3. QED
        BY <2>2, <4>1, <4>2
    <3>3. CASE b # NoPod
      <4>1. LocalsOK'
        BY <2>4, <3>1, <3>3 DEF ToProbe, LocalsOK
      <4>2. QED
        BY <2>2, <2>4, <3>3, <4>1 DEF ToProbe, LocationsOK
    <3>4. QED
      BY <3>2, <3>3
  <2>5. ASSUME NEW a \in FirstChoices(k, as), NEW b \in FinalChoices(k, a, as),
               ToFallback(r, b)
        PROVE  TypeInv'
    <3>1. b \in Pods \cup {NoPod}
      BY <2>1, ChoiceTypes
    <3>2. LocalsOK'
      BY <2>5, <3>1, EnterTypes DEF ToFallback
    <3>3. QED
      BY <2>2, <2>5, <3>2 DEF ToFallback, LocationsOK
  <2>6. QED
    BY <1>5, <2>3, <2>4, <2>5 DEF GetKubernetes
<1>6. ASSUME NEW r \in Requests, Probe(r) PROVE TypeInv'
  <2> DEFINE p == pod[r]
  <2>1. p \in Pods /\ key[r] \in Keys
    BY <1>6 DEF Probe, LocalsOK
  <2>2. PICK res \in ProbeResults(p) :
              /\ probes' = [probes EXCEPT ![p] = res]
              /\ \/ /\ res.st = "ok"
                    /\ locations' = Stored(key[r], "pod", p)
                    /\ Enter(r, "pod", p)
                    /\ UNCHANGED ignored
                 \/ /\ res.st = "bad"
                    /\ ignored' = Ignore(p)
                    /\ \/ /\ tries[r] < 2
                          /\ tries' = [tries EXCEPT ![r] = @ + 1]
                          /\ pc' = [pc EXCEPT ![r] = "kube"]
                          /\ pod' = [pod EXCEPT ![r] = NoPod]
                          /\ UNCHANGED <<locations, key, failed, spent>>
                       \/ /\ tries[r] = 2
                          /\ locations' = Stored(key[r], "unavailable", NoPod)
                          /\ Enter(r, "unavailable", NoPod)
    BY <1>6 DEF Probe
  <2>3. WorldOK' /\ EndpointsOK'
    BY <1>6 DEF Probe, world, WorldOK, EndpointsOK
  <2>4. ProbesOK'
    <3>1. res \in [st : {"none", "ok", "bad"}, age : 0..ProbeTTL]
      BY <2>1, Naturals DEF ProbeResults, ProbesOK
    <3>2. QED
      BY <2>2, <3>1 DEF ProbesOK
  <2>5. CASE res.st = "ok"
    <3>1. LocationsOK'
      BY <2>1, <2>2, <2>5, StoredTypes, Naturals
    <3>2. LocalsOK'
      BY <2>1, <2>2, <2>5, EnterTypes, Naturals
    <3>3. QED
      BY <2>2, <2>3, <2>4, <2>5, <3>1, <3>2 DEF IgnoredOK
  <2>6. CASE res.st = "bad"
    <3>1. IgnoredOK'
      BY <2>1, <2>2, <2>6, IgnoreTypes DEF IgnoredOK
    <3>2. CASE tries[r] < 2
      <4>1. LocalsOK'
        BY <2>2, <2>6, <3>2 DEF LocalsOK
      <4>2. QED
        BY <2>2, <2>3, <2>4, <2>6, <3>1, <3>2, <4>1 DEF LocationsOK
    <3>3. CASE tries[r] = 2
      <4>1. LocationsOK'
        BY <2>1, <2>2, <2>6, <3>3, StoredTypes
      <4>2. LocalsOK'
        BY <2>2, <2>6, <3>3, EnterTypes
      <4>3. QED
        BY <2>3, <2>4, <3>1, <4>1, <4>2
    <3>4. QED
      BY <2>2, <2>6, <3>2, <3>3
  <2>7. QED
    BY <2>2, <2>5, <2>6
<1>7. ASSUME NEW r \in Requests, GetFallback(r) PROVE TypeInv'
  <2>1. pod[r] \in Pods
    BY <1>7 DEF GetFallback, LocalsOK
  <2>2. IgnoredOK'
    BY <1>7, <2>1, IgnoreTypes DEF GetFallback, IgnoredOK
  <2>3. LocalsOK'
    BY <1>7, <2>1 DEF GetFallback, LocalsOK
  <2>4. QED
    BY <1>7, <2>2, <2>3 DEF GetFallback, WorldOK, world, EndpointsOK, ProbesOK, LocationsOK
<1>8. ASSUME NEW r \in Requests, Done(r) PROVE TypeInv'
  BY <1>8 DEF Done, WorldOK, world, caches, EndpointsOK, ProbesOK, IgnoredOK, LocationsOK, LocalsOK
<1>9. ASSUME NEW p \in Pods, PodDies(p) PROVE TypeInv'
  BY <1>9 DEF PodDies, WorldOK, caches, locals, EndpointsOK, ProbesOK, IgnoredOK, LocationsOK, LocalsOK
<1>10. ASSUME NEW p \in Pods, PodStarts(p) PROVE TypeInv'
  BY <1>10, Naturals DEF PodStarts, WorldOK, caches, locals, EndpointsOK, ProbesOK, IgnoredOK,
     LocationsOK, LocalsOK
<1>11. ASSUME KubeSync PROVE TypeInv'
  BY <1>11 DEF KubeSync, WorldOK, caches, locals, EndpointsOK, ProbesOK, IgnoredOK, LocationsOK, LocalsOK
<1>12. ASSUME Tick PROVE TypeInv'
  <2>1. WorldOK'
    BY <1>12, Naturals DEF Tick, WorldOK
  <2>2. EndpointsOK'
    BY <1>12, AgedTypes DEF Tick, EndpointsOK
  <2>3. ProbesOK'
    BY <1>12, AgedTypes DEF Tick, ProbesOK
  <2>4. IgnoredOK'
    BY <1>12, Naturals DEF Tick, IgnoredOK
  <2>5. LocationsOK'
    BY <1>12, AgedTypes DEF Tick, LocationsOK
  <2>6. LocalsOK'
    BY <1>12, Naturals DEF Tick, LocalsOK
  <2>7. QED
    BY <2>1, <2>2, <2>3, <2>4, <2>5, <2>6
<1>13. CASE UNCHANGED vars
  BY <1>13 DEF vars, WorldOK, EndpointsOK, ProbesOK, IgnoredOK, LocationsOK, LocalsOK
<1>14. QED
  BY <1>1, <1>2, <1>3, <1>4, <1>5, <1>6, <1>7, <1>8, <1>9, <1>10, <1>11, <1>12, <1>13
     DEF Next, Resolve

(* Every request is at a point of the resolution that agrees with the pod  *)
(* it holds, and every cache holds entries within their lifetime.          *)
THEOREM TypeCorrect == Spec => []TypeOK
<1>1. Init => TypeInv
  BY InitTypes
<1>2. TypeInv /\ [Next]_vars => TypeInv'
  BY NextTypes
<1>3. TypeInv => TypeOK
  BY TypeParts
<1>4. QED
  BY <1>1, <1>2, <1>3, PTL DEF Spec

-----------------------------------------------------------------------------
(* How long a pod may have been down *)

(* A pod that is up has not been down; one that answered a probe went down *)
(* after the probe; and the probe that a stored location rests on was not  *)
(* older than ProbeTTL when the location was stored.                       *)
UpIsFresh == \A p \in up : downFor[p] = 0
ProbesFresh == \A p \in Pods : probes[p].st = "ok" => downFor[p] <= probes[p].age
LocationsFresh ==
    \A k \in Keys : locations[k].st = "pod" =>
        downFor[locations[k].pod] <= ProbeTTL + locations[k].age

Fresh == UpIsFresh /\ ProbesFresh /\ LocationsFresh

LEMMA FreshStays ==
    ASSUME Fresh, UNCHANGED <<up, downFor, probes, locations>>
    PROVE  Fresh'
  BY DEF Fresh, UpIsFresh, ProbesFresh, LocationsFresh

LEMMA StoredUnavailableFresh ==
    ASSUME TypeInv, Fresh, NEW k \in Keys, UNCHANGED <<up, downFor>>,
           locations' = Stored(k, "unavailable", NoPod)
    PROVE  LocationsFresh'
  BY DEF TypeInv, LocationsOK, Fresh, LocationsFresh, Stored

(* What a probe that succeeds says of the pod. *)
LEMMA ProbeFresh ==
    ASSUME TypeInv, Fresh, NEW p \in Pods, NEW res \in ProbeResults(p), res.st = "ok"
    PROVE  downFor[p] <= res.age /\ res.age \in 0..ProbeTTL
  BY Naturals DEF TypeInv, ProbesOK, WorldOK, Fresh, UpIsFresh, ProbesFresh, ProbeResults

LEMMA NextFresh == TypeInv /\ Fresh /\ [Next]_vars => Fresh'
<1> SUFFICES ASSUME TypeInv, Fresh, [Next]_vars PROVE Fresh'
  OBVIOUS
<1>1. ASSUME NEW r \in Requests, GetCached(r) \/ Get(r) \/ KubeFails(r) \/ FetchEndpoints(r)
                                   \/ GetFallback(r) \/ Done(r)
      PROVE  Fresh'
  BY <1>1, FreshStays DEF GetCached, LocationAfterHit, Get, KubeFails, FetchEndpoints, GetFallback, Done,
     world, caches
<1>2. ASSUME NEW r \in Requests, GetKubernetes(r) PROVE Fresh'
  <2>1. key[r] \in Keys
    BY DEF TypeInv, LocalsOK
  <2>2. UNCHANGED <<up, downFor, probes>>
    BY <1>2 DEF GetKubernetes, world
  <2>3. UNCHANGED locations \/ locations' = Stored(key[r], "unavailable", NoPod)
    BY <1>2 DEF GetKubernetes, ToProbe, ToFallback
  <2>4. CASE UNCHANGED locations
    BY <2>2, <2>4, FreshStays
  <2>5. CASE locations' = Stored(key[r], "unavailable", NoPod)
    <3>1. LocationsFresh'
      BY <2>1, <2>2, <2>5, StoredUnavailableFresh
    <3>2. QED
      BY <2>2, <3>1 DEF Fresh, UpIsFresh, ProbesFresh
  <2>6. QED
    BY <2>3, <2>4, <2>5
<1>3. ASSUME NEW r \in Requests, Probe(r) PROVE Fresh'
  <2> DEFINE p == pod[r]
             k == key[r]
  <2>1. p \in Pods /\ k \in Keys
    BY <1>3 DEF Probe, TypeInv, LocalsOK
  <2>2. UNCHANGED <<up, downFor>>
    BY <1>3 DEF Probe, world
  <2>3. PICK res \in ProbeResults(p) :
              /\ probes' = [probes EXCEPT ![p] = res]
              /\ \/ res.st = "ok" /\ locations' = Stored(k, "pod", p)
                 \/ res.st = "bad" /\ (UNCHANGED locations \/ locations' = Stored(k, "unavailable", NoPod))
    BY <1>3 DEF Probe
  <2>4. res.st = "ok" => downFor[p] <= res.age /\ res.age \in 0..ProbeTTL
    BY <2>1, ProbeFresh
  <2>5. UpIsFresh'
    BY <2>2 DEF Fresh, UpIsFresh
  <2>6. ProbesFresh'
    BY <2>1, <2>2, <2>3, <2>4 DEF Fresh, ProbesFresh, TypeInv, ProbesOK
  <2>7. LocationsFresh'
    <3>1. CASE res.st = "ok"
      <4>1. downFor[p] <= ProbeTTL + 0
        BY <2>1, <2>4, <3>1, Naturals DEF TypeInv, WorldOK
      <4>2. locations' = Stored(k, "pod", p)
        BY <2>3, <3>1
      <4>3. QED
        BY <2>1, <2>2, <4>1, <4>2 DEF Fresh, LocationsFresh, Stored, TypeInv, LocationsOK
    <3>2. CASE UNCHANGED locations
      BY <2>2, <3>2 DEF Fresh, LocationsFresh
    <3>3. CASE locations' = Stored(k, "unavailable", NoPod)
      BY <2>1, <2>2, <3>3, StoredUnavailableFresh
    <3>4. QED
      BY <2>3, <3>1, <3>2, <3>3
  <2>8. QED
    BY <2>5, <2>6, <2>7 DEF Fresh
<1>4. ASSUME NEW p \in Pods, PodDies(p) PROVE Fresh'
  BY <1>4 DEF PodDies, caches, Fresh, UpIsFresh, ProbesFresh, LocationsFresh
<1>5. ASSUME NEW p \in Pods, PodStarts(p) PROVE Fresh'
  <2>1. /\ up' = up \cup {p} /\ downFor' = [downFor EXCEPT ![p] = 0]
        /\ UNCHANGED <<probes, locations>>
    BY <1>5 DEF PodStarts, caches
  <2>2. UpIsFresh'
    BY <2>1 DEF Fresh, UpIsFresh, TypeInv, WorldOK
  <2>3. ASSUME NEW q \in Pods
        PROVE  downFor'[q] <= downFor[q]
    BY <2>1, Naturals DEF TypeInv, WorldOK
  <2>4. \A q \in Pods : downFor[q] \in Nat /\ downFor'[q] \in Nat
    BY <2>1, Naturals DEF TypeInv, WorldOK
  <2>5. ProbesFresh'
    <3>1. \A q \in Pods : probes[q].age \in Nat
      BY Naturals DEF TypeInv, ProbesOK
    <3>2. QED
      BY <2>1, <2>3, <2>4, <3>1 DEF Fresh, ProbesFresh
  <2>6. LocationsFresh'
    <3>1. \A k \in Keys : /\ locations[k].age \in Nat
                          /\ locations[k].st = "pod" => locations[k].pod \in Pods
      BY Naturals DEF TypeInv, LocationsOK
    <3>2. QED
      BY <2>1, <2>3, <2>4, <3>1, Naturals DEF Fresh, LocationsFresh
  <2>7. QED
    BY <2>2, <2>5, <2>6 DEF Fresh
<1>6. ASSUME KubeSync PROVE Fresh'
  BY <1>6, FreshStays DEF KubeSync, caches
<1>7. ASSUME Tick PROVE Fresh'
  <2>1. \A q \in Pods : /\ downFor[q] \in Nat /\ downFor'[q] \in Nat
                        /\ downFor'[q] <= downFor[q] + 1
                        /\ q \in up => downFor'[q] = 0
    BY <1>7, Naturals DEF Tick, TypeInv, WorldOK
  <2>2. UpIsFresh'
    BY <1>7, <2>1 DEF Tick, UpIsFresh, TypeInv, WorldOK
  <2>3. ProbesFresh'
    <3>1. ASSUME NEW q \in Pods, probes'[q].st = "ok"
          PROVE  /\ probes[q].st = "ok" /\ probes'[q].age = probes[q].age + 1
                 /\ probes[q].age \in Nat
      BY <1>7, <3>1, Naturals DEF Tick, Aged, NoProbe, TypeInv, ProbesOK
    <3>2. QED
      BY <2>1, <3>1 DEF Fresh, ProbesFresh
  <2>4. LocationsFresh'
    <3>1. ASSUME NEW k \in Keys, locations'[k].st = "pod"
          PROVE  /\ locations[k].st = "pod" /\ locations'[k].age = locations[k].age + 1
                 /\ locations[k].age \in Nat /\ locations[k].pod \in Pods
                 /\ locations'[k].pod = locations[k].pod
      BY <1>7, <3>1, Naturals DEF Tick, Aged, NoLocation, TypeInv, LocationsOK
    <3>2. QED
      BY <2>1, <3>1, Naturals DEF Fresh, LocationsFresh
  <2>5. QED
    BY <2>2, <2>3, <2>4 DEF Fresh
<1>8. CASE UNCHANGED vars
  BY <1>8, FreshStays DEF vars
<1>9. QED
  BY <1>1, <1>2, <1>3, <1>4, <1>5, <1>6, <1>7, <1>8 DEF Next, Resolve

NotLongDead(r) ==
    (Arrives(r, "pod") /\ failed[r] = NoPod) => downFor[pod'[r]] <= ProbeTTL + LocationTTL

LEMMA StepNotLongDead ==
    ASSUME TypeInv, Fresh, Next, NEW r \in Requests
    PROVE  NotLongDead(r)
<1> SUFFICES ASSUME Arrives(r, "pod"), failed[r] = NoPod
             PROVE  downFor[pod'[r]] <= ProbeTTL + LocationTTL
  BY DEF NotLongDead
<1>1. /\ pc[r] # "pod" /\ pc'[r] = "pod"
      /\ pc \in [Requests -> {"idle", "kube", "probe", "pod", "unavailable"}]
  BY DEF Arrives, TypeInv, LocalsOK
<1>2. ASSUME NEW q \in Requests, GetCached(q) PROVE downFor[pod'[r]] <= ProbeTTL + LocationTTL
  <2>1. q = r /\ locations[key[r]].st = "pod" /\ pod'[r] = locations[key[r]].pod /\ key[r] \in Keys
    BY <1>1, <1>2 DEF GetCached, Enter, TypeInv, LocalsOK
  <2> DEFINE l == locations[key[r]]
  <2>2. l.age \in 0..LocationTTL /\ l.pod \in Pods /\ downFor[l.pod] <= ProbeTTL + l.age
    BY <2>1 DEF TypeInv, LocationsOK, Fresh, LocationsFresh
  <2>3. downFor[l.pod] \in Nat
    BY <2>2, Naturals DEF TypeInv, WorldOK
  <2> HIDE DEF l
  <2>4. downFor[l.pod] <= ProbeTTL + LocationTTL
    BY <2>2, <2>3, Naturals
  <2>5. QED
    BY <2>1, <2>4 DEF l
<1>3. ASSUME NEW q \in Requests, Probe(q) PROVE downFor[pod'[r]] <= ProbeTTL + LocationTTL
  <2>1. pod[q] \in Pods
    BY <1>3 DEF Probe, TypeInv, LocalsOK
  <2>2. PICK res \in ProbeResults(pod[q]) : res.st = "ok" /\ Enter(q, "pod", pod[q]) /\ q = r
    BY <1>1, <1>3 DEF Probe, Enter, TypeInv, LocalsOK
  <2>3. pod'[r] = pod[q]
    BY <2>2 DEF Enter, TypeInv, LocalsOK
  <2>4. downFor[pod[q]] <= res.age /\ res.age \in 0..ProbeTTL
    BY <2>1, <2>2, ProbeFresh
  <2>5. downFor[pod[q]] \in Nat
    BY <2>1, Naturals DEF TypeInv, WorldOK
  <2>6. QED
    BY <2>3, <2>4, <2>5, Naturals
<1>4. ASSUME NEW q \in Requests,
             Get(q) \/ KubeFails(q) \/ FetchEndpoints(q) \/ GetFallback(q) \/ Done(q)
      PROVE  FALSE
  BY <1>1, <1>4 DEF Get, KubeFails, FetchEndpoints, GetFallback, Done, Enter, locals
<1>5. ASSUME NEW q \in Requests, GetKubernetes(q) PROVE FALSE
  BY <1>1, <1>5 DEF GetKubernetes, ToProbe, ToFallback, Enter
<1>6. ASSUME NEW p \in Pods, PodDies(p) \/ PodStarts(p) PROVE FALSE
  BY <1>1, <1>6 DEF PodDies, PodStarts, locals
<1>7. ASSUME KubeSync \/ Tick PROVE FALSE
  BY <1>1, <1>7 DEF KubeSync, Tick, locals
<1>8. QED
  BY <1>2, <1>3, <1>4, <1>5, <1>6, <1>7 DEF Next, Resolve

(* No request is sent to a pod that has been down for longer than a probe  *)
(* result and a location are kept: the lifetimes of the two caches add up, *)
(* and nothing renews them.                                                *)
THEOREM LocationsStayFresh == Spec => NeverLongDead
<1>1. Init => TypeInv /\ Fresh
  <2>1. Init => Fresh
    BY DEF Init, Fresh, UpIsFresh, ProbesFresh, LocationsFresh, NoProbe, NoLocation
  <2>2. QED
    BY <2>1, InitTypes
<1>2. TypeInv /\ Fresh /\ [Next]_vars => (TypeInv /\ Fresh)'
  BY NextTypes, NextFresh
<1>3. TypeInv /\ Fresh /\ [Next]_vars =>
        [\A r \in Requests : (Arrives(r, "pod") /\ failed[r] = NoPod)
                                => downFor[pod'[r]] <= ProbeTTL + LocationTTL]_vars
  BY StepNotLongDead DEF NotLongDead
<1>4. QED
  BY <1>1, <1>2, <1>3, PTL DEF Spec, NeverLongDead

-----------------------------------------------------------------------------
(* The three tries of a resolution *)

(* The pods that have been put on the ignore list since the resolution     *)
(* began, without the one that it is about to probe.                       *)
Counted(r) == {p \in Pods : p # pod[r] /\ ignored[p] <= spent[r]}

(* A failed try has left a pod behind; the pod about to be probed was not  *)
(* on the list when it was chosen, whoever may have put it there since.    *)
Tried(r) ==
    /\ tries[r] <= Cardinality(Counted(r))
    /\ (pc[r] \notin Resolving \/ failed[r] # NoPod) => tries[r] = 0
    /\ pc[r] = "probe" => failed[r] = NoPod
    /\ (pc[r] = "probe" /\ pod[r] \in Ignored) => ignored[pod[r]] <= spent[r]

AllTried == \A r \in Requests : Tried(r)

LEMMA CountedFinite ==
    ASSUME NEW r
    PROVE  /\ IsFiniteSet(Counted(r)) /\ Cardinality(Counted(r)) \in Nat
           /\ IsFiniteSet(Counted(r)') /\ Cardinality(Counted(r)') \in Nat
<1>1. Counted(r) \in SUBSET Pods /\ Counted(r)' \in SUBSET Pods
  BY DEF Counted
<1>2. QED
  BY <1>1, SomePods

LEMMA LocalNumbers ==
    ASSUME TypeInv, NEW r \in Requests
    PROVE  /\ tries[r] \in Nat /\ tries[r] <= 2 /\ spent[r] \in Nat /\ spent[r] <= MaxTicks
           /\ \A p \in Pods : ignored[p] \in Nat /\ ignored[p] <= IgnoreTTL + 1
           /\ Ignored = {p \in Pods : ignored[p] # IgnoreTTL + 1}
           /\ key[r] \in Keys /\ pod[r] \in Pods \cup {NoPod}
  BY Naturals DEF TypeInv, LocalsOK, IgnoredOK, Ignored

LEMMA LocalNumbersNext ==
    ASSUME TypeInv', NEW r \in Requests
    PROVE  /\ tries'[r] \in Nat /\ spent'[r] \in Nat /\ spent'[r] <= MaxTicks
           /\ \A p \in Pods : ignored'[p] \in Nat /\ ignored'[p] <= IgnoreTTL + 1
           /\ Ignored' = {p \in Pods : ignored'[p] # IgnoreTTL + 1}
  BY Naturals DEF TypeInv, LocalsOK, IgnoredOK, Ignored

(* The ignore list changes by new entries only. *)
IgnoreGrows == \A p \in Pods : ignored'[p] = ignored[p] \/ (p \notin Ignored /\ ignored'[p] = 0)

LEMMA IgnoreIsGrowth ==
    ASSUME TypeInv, NEW p \in Pods, ignored' = Ignore(p)
    PROVE  IgnoreGrows /\ (p \notin Ignored => ignored'[p] = 0)
  BY DEF Ignore, IgnoreGrows, TypeInv, IgnoredOK

LEMMA TriedStays ==
    ASSUME TypeInv, TypeInv', IgnoreGrows, NEW q \in Requests, Tried(q),
           pc'[q] = pc[q], pod'[q] = pod[q], tries'[q] = tries[q],
           failed'[q] = failed[q], spent'[q] = spent[q]
    PROVE  Tried(q)'
<1>1. Counted(q) \in SUBSET Counted(q)'
  BY LocalNumbers DEF Counted, IgnoreGrows
<1>2. Cardinality(Counted(q)) <= Cardinality(Counted(q)')
  BY <1>1, CountedFinite, FS_Subset
<1>3. tries'[q] <= Cardinality(Counted(q)')
  BY <1>2, CountedFinite, LocalNumbers DEF Tried
<1>4. (pc'[q] = "probe" /\ pod'[q] \in Ignored') => ignored'[pod'[q]] <= spent'[q]
  <2>1. pc[q] = "probe" => pod[q] \in Pods
    BY DEF TypeInv, LocalsOK
  <2>2. QED
    BY <2>1, LocalNumbers, LocalNumbersNext DEF Tried, IgnoreGrows
<1>5. QED
  BY <1>3, <1>4 DEF Tried

LEMMA TriedReset ==
    ASSUME NEW q \in Requests, tries'[q] = 0, pc'[q] # "probe"
    PROVE  Tried(q)'
<1>1. 0 <= Cardinality(Counted(q)')
  BY CountedFinite
<1>2. QED
  BY <1>1 DEF Tried

LEMMA EnterTried ==
    ASSUME TypeInv, TypeInv', AllTried, IgnoreGrows, NEW r \in Requests, NEW p,
           NEW label \in {"idle", "pod", "unavailable"}, Enter(r, label, p)
    PROVE  AllTried'
<1> SUFFICES ASSUME NEW q \in Requests PROVE Tried(q)'
  BY DEF AllTried
<1>1. CASE q = r
  <2>1. tries'[q] = 0 /\ pc'[q] # "probe"
    BY <1>1 DEF Enter, TypeInv, LocalsOK
  <2>2. QED
    BY <2>1, TriedReset
<1>2. CASE q # r
  BY <1>2, TriedStays DEF Enter, TypeInv, LocalsOK, AllTried
<1>3. QED
  BY <1>1, <1>2

LEMMA NextTried ==
    ASSUME MaxTicks <= IgnoreTTL, TypeInv, TypeInv', AllTried, [Next]_vars
    PROVE  AllTried'
<1> USE DEF AllTried
<1>0. UNCHANGED ignored => IgnoreGrows
  BY DEF IgnoreGrows
<1>1. ASSUME NEW r \in Requests, GetCached(r) PROVE AllTried'
  <2>1. locations[key[r]].st \in {"pod", "unavailable"}
    BY <1>1 DEF GetCached, TypeInv, LocationsOK, LocalsOK
  <2>2. QED
    BY <1>0, <1>1, <2>1, EnterTried DEF GetCached
<1>2. ASSUME NEW r \in Requests, Get(r) PROVE AllTried'
  <2>1. /\ pc' = [pc EXCEPT ![r] = "kube"] /\ pc[r] = "idle"
        /\ UNCHANGED <<ignored, tries, pod, failed, spent>>
    BY <1>2 DEF Get, caches
  <2>2. ASSUME NEW q \in Requests PROVE Tried(q)'
    <3>1. CASE q = r
      <4>1. tries'[q] = 0 /\ pc'[q] # "probe"
        BY <2>1, <3>1 DEF Tried, Resolving, TypeInv, LocalsOK
      <4>2. QED
        BY <4>1, TriedReset
    <3>2. CASE q # r
      BY <1>0, <2>1, <3>2, TriedStays DEF TypeInv, LocalsOK
    <3>3. QED
      BY <3>1, <3>2
  <2>3. QED
    BY <2>2
<1>3. ASSUME NEW r \in Requests, KubeFails(r) PROVE AllTried'
  BY <1>0, <1>3, EnterTried DEF KubeFails, caches
<1>4. ASSUME NEW r \in Requests, FetchEndpoints(r) PROVE AllTried'
  BY <1>0, <1>4, TriedStays DEF FetchEndpoints, locals
<1>5. ASSUME NEW r \in Requests, GetKubernetes(r) PROVE AllTried'
  <2> DEFINE k == key[r]
             as == FilterAddressesByIgnore(endpoints.pods)
  <2>1. as \in SUBSET Pods /\ UNCHANGED ignored /\ pc[r] = "kube"
    BY <1>5 DEF GetKubernetes, FilterAddressesByIgnore, TypeInv, EndpointsOK
  <2>2. CASE Enter(r, "idle", NoPod)
    BY <1>0, <2>1, <2>2, EnterTried
  <2>3. ASSUME NEW a \in FirstChoices(k, as), NEW b \in FinalChoices(k, a, as),
               ToProbe(r, b), failed[r] = NoPod
        PROVE  AllTried'
    <3>1. CASE b = NoPod
      BY <1>0, <2>1, <2>3, <3>1, EnterTried DEF ToProbe
    <3>2. CASE b # NoPod
      <4>1. b \in Pods /\ b \notin Ignored
        BY <2>1, <3>2, ChoiceTypes DEF FilterAddressesByIgnore
      <4>2. /\ pc' = [pc EXCEPT ![r] = "probe"] /\ pod' = [pod EXCEPT ![r] = b]
            /\ UNCHANGED <<tries, failed, spent>>
        BY <2>3, <3>2 DEF ToProbe
      <4>3. Tried(r)'
        <5>1. ignored[b] = IgnoreTTL + 1
          BY <4>1, LocalNumbers
        <5>2. Counted(r)' = Counted(r)
          <6>1. pod[r] = NoPod /\ pod'[r] = b /\ spent'[r] = spent[r]
            BY <2>1, <4>2 DEF TypeInv, LocalsOK
          <6>2. ~(ignored[b] <= spent[r])
            BY <5>1, LocalNumbers, Naturals
          <6>3. QED
            BY <2>1, <6>1, <6>2, Naturals DEF Counted
        <5>3. pc'[r] = "probe" /\ pod'[r] = b /\ tries'[r] = tries[r] /\ failed'[r] = NoPod
          BY <2>3, <4>2 DEF TypeInv, LocalsOK
        <5>4. pod'[r] \notin Ignored'
          BY <2>1, <4>1, <5>3 DEF Ignored
        <5>5. tries'[r] <= Cardinality(Counted(r)')
          BY <5>2, <5>3 DEF Tried
        <5>6. QED
          BY <5>3, <5>4, <5>5 DEF Tried, Resolving
      <4>4. ASSUME NEW q \in Requests, q # r PROVE Tried(q)'
        BY <1>0, <2>1, <4>2, <4>4, TriedStays DEF TypeInv, LocalsOK
      <4>5. QED
        BY <4>3, <4>4
    <3>3. QED
      BY <3>1, <3>2
  <2>4. ASSUME NEW a \in FirstChoices(k, as), NEW b \in FinalChoices(k, a, as),
               ToFallback(r, b)
        PROVE  AllTried'
    BY <1>0, <2>1, <2>4, EnterTried DEF ToFallback
  <2>5. QED
    BY <1>5, <2>2, <2>3, <2>4 DEF GetKubernetes
<1>6. ASSUME NEW r \in Requests, Probe(r) PROVE AllTried'
  <2> DEFINE p == pod[r]
  <2>1. p \in Pods /\ pc[r] = "probe"
    BY <1>6 DEF Probe, TypeInv, LocalsOK
  <2>2. CASE Enter(r, "pod", p) /\ UNCHANGED ignored
    BY <1>0, <2>2, EnterTried
  <2>3. CASE Enter(r, "unavailable", NoPod) /\ ignored' = Ignore(p)
    BY <2>1, <2>3, EnterTried, IgnoreIsGrowth
  <2>4. CASE /\ tries' = [tries EXCEPT ![r] = @ + 1]
             /\ pc' = [pc EXCEPT ![r] = "kube"]
             /\ pod' = [pod EXCEPT ![r] = NoPod]
             /\ UNCHANGED <<failed, spent>>
             /\ ignored' = Ignore(p)
    <3>1. IgnoreGrows /\ (p \notin Ignored => ignored'[p] = 0)
      BY <2>1, <2>4, IgnoreIsGrowth
    <3>2. ASSUME NEW q \in Requests, q # r PROVE Tried(q)'
      BY <2>4, <3>1, <3>2, TriedStays DEF TypeInv, LocalsOK
    <3>3. Tried(r)'
      <4>1. /\ tries'[r] = tries[r] + 1 /\ pc'[r] = "kube" /\ pod'[r] = NoPod
            /\ failed'[r] = failed[r] /\ spent'[r] = spent[r]
        BY <2>4 DEF TypeInv, LocalsOK
      <4>2. ignored'[p] <= spent[r]
        <5>1. p \in Ignored => ignored[p] <= spent[r]
          BY <2>1 DEF Tried
        <5>2. p \in Ignored => ignored'[p] = ignored[p]
          BY <2>1, <3>1 DEF IgnoreGrows
        <5>3. spent[r] \in Nat
          BY LocalNumbers
        <5>4. QED
          BY <3>1, <5>1, <5>2, <5>3
      <4>3. p \in Counted(r)' /\ p \notin Counted(r) /\ Counted(r) \subseteq Counted(r)'
        BY <2>1, <3>1, <4>1, <4>2, LocalNumbers, Naturals DEF Counted, IgnoreGrows
      <4>4. Cardinality(Counted(r)) < Cardinality(Counted(r)')
        <5> DEFINE A == Counted(r)
                   B == Counted(r)'
        <5>1. /\ IsFiniteSet(A) /\ IsFiniteSet(B)
              /\ Cardinality(A) \in Nat /\ Cardinality(B) \in Nat
          BY CountedFinite
        <5>2. A \in SUBSET B /\ A # B
          BY <4>3
        <5> HIDE DEF A, B
        <5>3. Cardinality(A) <= Cardinality(B) /\ Cardinality(A) # Cardinality(B)
          BY <5>1, <5>2, FS_Subset
        <5>4. Cardinality(A) < Cardinality(B)
          BY <5>1, <5>3
        <5>5. QED
          BY <5>4 DEF A, B
      <4>5. tries'[r] <= Cardinality(Counted(r)')
        BY <4>1, <4>4, LocalNumbers, CountedFinite DEF Tried
      <4>6. failed[r] = NoPod
        BY <2>1 DEF Tried
      <4>7. QED
        BY <4>1, <4>5, <4>6 DEF Tried, Resolving
    <3>4. QED
      BY <3>2, <3>3
  <2>5. QED
    BY <1>6, <2>2, <2>3, <2>4 DEF Probe
<1>7. ASSUME NEW r \in Requests, GetFallback(r) PROVE AllTried'
  <2>1. pod[r] \in Pods /\ pc[r] = "pod" /\ tries[r] = 0
    BY <1>7 DEF GetFallback, Tried, Resolving, TypeInv, LocalsOK
  <2>2. IgnoreGrows
    BY <1>7, <2>1, IgnoreIsGrowth DEF GetFallback
  <2>3. ASSUME NEW q \in Requests PROVE Tried(q)'
    <3>1. CASE q = r
      <4>1. tries'[q] = 0 /\ pc'[q] # "probe"
        BY <1>7, <2>1, <3>1 DEF GetFallback, TypeInv, LocalsOK
      <4>2. QED
        BY <4>1, TriedReset
    <3>2. CASE q # r
      BY <1>7, <2>2, <3>2, TriedStays DEF GetFallback, TypeInv, LocalsOK
    <3>3. QED
      BY <3>1, <3>2
  <2>4. QED
    BY <2>3
<1>8. ASSUME NEW r \in Requests, Done(r) PROVE AllTried'
  <2>1. pc[r] \in {"pod", "unavailable"} /\ tries[r] = 0
    BY <1>8 DEF Done, Tried, Resolving
  <2>2. /\ pc' = [pc EXCEPT ![r] = "idle"] /\ pod' = [pod EXCEPT ![r] = NoPod]
        /\ UNCHANGED <<ignored, tries, failed, spent>>
    BY <1>8 DEF Done, caches
  <2>3. ASSUME NEW q \in Requests PROVE Tried(q)'
    <3>1. CASE q = r
      <4>1. tries'[q] = 0 /\ pc'[q] # "probe"
        BY <2>1, <2>2, <3>1 DEF TypeInv, LocalsOK
      <4>2. QED
        BY <4>1, TriedReset
    <3>2. CASE q # r
      BY <1>0, <2>2, <3>2, TriedStays DEF TypeInv, LocalsOK
    <3>3. QED
      BY <3>1, <3>2
  <2>4. QED
    BY <2>3
<1>9. ASSUME NEW p \in Pods, PodDies(p) \/ PodStarts(p) PROVE AllTried'
  BY <1>0, <1>9, TriedStays DEF PodDies, PodStarts, caches, locals
<1>10. ASSUME KubeSync PROVE AllTried'
  BY <1>0, <1>10, TriedStays DEF KubeSync, caches, locals
<1>11. ASSUME Tick PROVE AllTried'
  <2> SUFFICES ASSUME NEW q \in Requests PROVE Tried(q)'
    OBVIOUS
  <2>1. /\ pc'[q] = pc[q] /\ pod'[q] = pod[q] /\ tries'[q] = tries[q] /\ failed'[q] = failed[q]
        /\ spent[q] < MaxTicks
        /\ spent'[q] = IF pc[q] \in Resolving THEN spent[q] + 1 ELSE 0
        /\ \A p \in Pods : ignored'[p] = IF ignored[p] >= IgnoreTTL THEN IgnoreTTL + 1 ELSE ignored[p] + 1
    BY <1>11, Naturals DEF Tick
  <2>2. CASE pc[q] \in Resolving
    <3>1. ASSUME NEW p \in Pods, ignored[p] <= spent[q] PROVE ignored'[p] <= spent'[q]
      BY <2>1, <2>2, <3>1, LocalNumbers, Naturals
    <3>2. Counted(q) \in SUBSET Counted(q)'
      BY <2>1, <3>1 DEF Counted
    <3>3. Cardinality(Counted(q)) <= Cardinality(Counted(q)')
      BY <3>2, CountedFinite, FS_Subset
    <3>4. tries'[q] <= Cardinality(Counted(q)')
      BY <2>1, <3>3, CountedFinite, LocalNumbers DEF Tried
    <3>5. (pc'[q] = "probe" /\ pod'[q] \in Ignored') => ignored'[pod'[q]] <= spent'[q]
      <4>1. ASSUME pc[q] = "probe", pod[q] \in Ignored' PROVE pod[q] \in Ignored
        BY <2>1, <4>1, LocalNumbers, LocalNumbersNext, Naturals
      <4>2. pod[q] \in Ignored => pod[q] \in Pods
        BY DEF Ignored
      <4>3. QED
        BY <2>1, <3>1, <4>1, <4>2 DEF Tried
    <3>6. QED
      BY <2>1, <3>4, <3>5 DEF Tried
  <2>3. CASE pc[q] \notin Resolving
    <3>1. tries'[q] = 0 /\ pc'[q] # "probe"
      BY <2>1, <2>3 DEF Tried, Resolving
    <3>2. QED
      BY <3>1, TriedReset
  <2>4. QED
    BY <2>2, <2>3
<1>12. CASE UNCHANGED vars
  BY <1>0, <1>12, TriedStays DEF vars
<1>13. QED
  BY <1>1, <1>2, <1>3, <1>4, <1>5, <1>6, <1>7, <1>8, <1>9, <1>10, <1>11, <1>12 DEF Next, Resolve

Justified(r) ==
    (Arrives(r, "unavailable") /\ pc[r] # "idle") =>
        \/ key[r] = MaxPrefix \/ (key[r] = NotAHash /\ LocalNode # 0)
        \/ Usable \subseteq Ignored'
        \/ Cardinality(Ignored') >= 3

(* getKubernetes finds no pod only if there is none to be found. *)
LEMMA NoChoice ==
    ASSUME Cardinality(Pods) <= Scale, TypeInv, NEW k \in Keys,
           NEW a \in FirstChoices(k, FilterAddressesByIgnore(endpoints.pods)),
           NoPod \in FinalChoices(k, a, FilterAddressesByIgnore(endpoints.pods))
    PROVE  \/ k = MaxPrefix \/ (k = NotAHash /\ LocalNode # 0)
           \/ Usable \subseteq Ignored
<1> DEFINE as == FilterAddressesByIgnore(endpoints.pods)
           las == LocalAddresses(a, as)
           allowed == FilterNodesByRole(Role, NodeStats)
<1> SUFFICES ASSUME k # MaxPrefix, ~(k = NotAHash /\ LocalNode # 0), ~(Usable \subseteq Ignored)
             PROVE  FALSE
  OBVIOUS
<1>1. as \in SUBSET Pods /\ as = endpoints.pods \ Ignored
  BY DEF FilterAddressesByIgnore, TypeInv, EndpointsOK
<1>2. as # {}
  BY <1>1 DEF Usable
<1>3. a \in as \cup {NoPod}
  BY <1>1, ChoiceTypes
<1>4. las \in SUBSET as /\ las \in SUBSET Pods
  BY <1>1 DEF LocalAddresses, On
<1>5. NoPod \notin as /\ NoPod \notin las
  BY <1>1, <1>4, SomePods
<1>6. ASSUME NEW S \in SUBSET Pods PROVE Cardinality(S) <= Scale
  <2>1. Cardinality(S) <= Cardinality(Pods) /\ Cardinality(S) \in Nat /\ Cardinality(Pods) \in Nat
    BY FS_Subset, FS_CardinalityType, DistributionAssumption
  <2>2. QED
    BY <2>1, ConstantsNat
<1>7. CASE k = NotAHash
  <2>1. a \in as
    BY <1>2, <1>7 DEF FirstChoices
  <2>2. las = {}
    BY <1>7 DEF LocalAddresses
  <2>3. QED
    BY <1>5, <2>1, <2>2 DEF FinalChoices
<1>8. CASE k # NotAHash
  <2>1. k \in HashPrefixes
    BY <1>8, ServiceLocationAssumption
  <2> HIDE DEF as, las, allowed
  <2>2. CASE las # {}
    <3>1. DistributeByHash(k, las) \in las
      BY <1>4, <1>6, <2>1, <2>2, HashCovers
    <3>2. QED
      BY <1>5, <1>8, <2>2, <3>1 DEF FinalChoices, as, las
  <2>3. CASE las = {}
    <3>1. a = NoPod
      BY <2>3 DEF FinalChoices, as, las
    <3>2. CASE NodeHash
      <4>1. DistributeByNodeHash(k, as, allowed) = NoPod
        BY <1>2, <1>8, <3>1, <3>2 DEF FirstChoices, as, allowed
      <4>2. NoPod \notin UsablePods(as, allowed)
        BY <1>5 DEF UsablePods
      <4>3. UsablePods(as, allowed) = {}
        BY <1>1, <1>6, <2>1, <4>1, <4>2, NodeHashCovers
      <4>4. QED
        BY <1>1, <3>2, <4>3 DEF Usable, UsablePods, allowed
    <3>3. CASE ~NodeHash
      <4>1. DistributeByHash(k, as) = NoPod
        BY <1>2, <1>8, <3>1, <3>3 DEF FirstChoices, as
      <4>2. DistributeByHash(k, as) \in as
        BY <1>1, <1>2, <1>6, <2>1, HashCovers
      <4>3. QED
        BY <1>5, <4>1, <4>2
    <3>4. QED
      BY <3>2, <3>3
  <2>4. QED
    BY <2>2, <2>3
<1>9. QED
  BY <1>7, <1>8

LEMMA StepJustified ==
    ASSUME Cardinality(Pods) <= Scale, MaxTicks <= IgnoreTTL, TypeInv, TypeInv', AllTried, Next,
           NEW r \in Requests
    PROVE  Justified(r)
<1> SUFFICES ASSUME Arrives(r, "unavailable"), pc[r] # "idle"
             PROVE  \/ key[r] = MaxPrefix \/ (key[r] = NotAHash /\ LocalNode # 0)
                    \/ Usable \subseteq Ignored'
                    \/ Cardinality(Ignored') >= 3
  BY DEF Justified
<1> DEFINE Goal == \/ key[r] = MaxPrefix \/ (key[r] = NotAHash /\ LocalNode # 0)
                   \/ Usable \subseteq Ignored'
                   \/ Cardinality(Ignored') >= 3
<1>1. /\ pc[r] # "unavailable" /\ pc'[r] = "unavailable" /\ pc[r] # "idle"
      /\ pc \in [Requests -> {"idle", "kube", "probe", "pod", "unavailable"}]
  BY DEF Arrives, TypeInv, LocalsOK
<1>2. ASSUME NEW q \in Requests, GetKubernetes(q) PROVE Goal
  <2> DEFINE k == key[q]
             as == FilterAddressesByIgnore(endpoints.pods)
  <2>1. q = r
    BY <1>1, <1>2 DEF GetKubernetes, ToProbe, ToFallback, Enter
  <2>2. PICK a \in FirstChoices(k, as) : NoPod \in FinalChoices(k, a, as)
    BY <1>1, <1>2, <2>1 DEF GetKubernetes, ToProbe, ToFallback, Enter
  <2>3. k \in Keys /\ Ignored' = Ignored
    BY <1>2 DEF GetKubernetes, Ignored, TypeInv, LocalsOK
  <2>4. QED
    BY <2>1, <2>2, <2>3, NoChoice
<1>3. ASSUME NEW q \in Requests, Probe(q) PROVE Goal
  <2> DEFINE p == pod[r]
  <2>1. q = r
    BY <1>1, <1>3 DEF Probe, Enter
  <2>2. tries[r] = 2 /\ ignored' = Ignore(p) /\ pc[r] = "probe" /\ p \in Pods
    BY <1>1, <1>3, <2>1 DEF Probe, Enter, TypeInv, LocalsOK
  <2>3. IgnoreGrows /\ (p \notin Ignored => ignored'[p] = 0)
    BY <2>2, IgnoreIsGrowth
  <2>4. Counted(r) \cup {p} \subseteq Ignored' /\ p \notin Counted(r)
    <3>1. ASSUME NEW x \in Counted(r) PROVE x \in Ignored'
      <4>1. x \in Pods /\ ignored[x] <= spent[r]
        BY DEF Counted
      <4>2. ignored'[x] # IgnoreTTL + 1
        BY <2>3, <4>1, LocalNumbers, Naturals DEF IgnoreGrows
      <4>3. QED
        BY <4>1, <4>2, LocalNumbersNext
    <3>2. p \in Ignored'
      <4>1. ignored'[p] # IgnoreTTL + 1
        BY <2>2, <2>3, LocalNumbers, Naturals DEF IgnoreGrows
      <4>2. QED
        BY <2>2, <4>1, LocalNumbersNext
    <3>3. QED
      BY <3>1, <3>2 DEF Counted
  <2>5. Cardinality(Counted(r) \cup {p}) = Cardinality(Counted(r)) + 1
    BY <2>4, CountedFinite, FS_AddElement
  <2>6. /\ Cardinality(Counted(r) \cup {p}) <= Cardinality(Ignored')
        /\ Cardinality(Ignored') \in Nat
    <3>1. Ignored' \in SUBSET Pods
      BY LocalNumbersNext
    <3>2. QED
      BY <2>4, <3>1, SomePods, FS_Subset
  <2>7. Cardinality(Counted(r)) >= 2 /\ Cardinality(Counted(r)) \in Nat
    <3>1. tries[r] <= Cardinality(Counted(r))
      BY DEF AllTried, Tried
    <3>2. QED
      BY <2>2, <3>1, CountedFinite
  <2>8. Cardinality(Ignored') >= 3
    BY <2>5, <2>6, <2>7
  <2>9. QED
    BY <2>8
<1>4. ASSUME NEW q \in Requests,
             GetCached(q) \/ Get(q) \/ KubeFails(q) \/ FetchEndpoints(q) \/ GetFallback(q) \/ Done(q)
      PROVE  FALSE
  BY <1>1, <1>4 DEF GetCached, Get, KubeFails, FetchEndpoints, GetFallback, Done, Enter, locals
<1>5. ASSUME NEW p \in Pods, PodDies(p) \/ PodStarts(p) PROVE FALSE
  BY <1>1, <1>5 DEF PodDies, PodStarts, locals
<1>6. ASSUME KubeSync \/ Tick PROVE FALSE
  BY <1>1, <1>6 DEF KubeSync, Tick, locals
<1>7. QED
  BY <1>2, <1>3, <1>4, <1>5, <1>6 DEF Next, Resolve

(* A resolution answers "unavailable" only for lack of pods, for every     *)
(* distribution, role and local node, if pods stay on the ignore list for  *)
(* as long as a resolution takes and are no more than the scale of the     *)
(* hash line (1000 in the code).  Pods may come and go.                    *)
THEOREM UnavailableForLackOfPods ==
    ASSUME Cardinality(Pods) <= Scale, MaxTicks <= IgnoreTTL
    PROVE  Spec => UnavailableJustified
<1>1. Init => TypeInv /\ AllTried
  <2>1. Init => AllTried
    <3> SUFFICES ASSUME Init, NEW r \in Requests PROVE Tried(r)
      BY DEF AllTried
    <3>1. tries[r] = 0 /\ pc[r] = "idle" /\ 0 <= Cardinality(Counted(r))
      BY CountedFinite DEF Init
    <3>2. QED
      BY <3>1 DEF Tried
  <2>2. QED
    BY <2>1, InitTypes
<1>2. TypeInv /\ AllTried /\ [Next]_vars => (TypeInv /\ AllTried)'
  BY NextTypes, NextTried
<1>3. TypeInv /\ TypeInv' /\ AllTried /\ [Next]_vars =>
        [\A r \in Requests :
            (Arrives(r, "unavailable") /\ pc[r] # "idle") =>
                \/ key[r] = MaxPrefix \/ (key[r] = NotAHash /\ LocalNode # 0)
                \/ Usable \subseteq Ignored'
                \/ Cardinality(Ignored') >= 3]_vars
  BY StepJustified DEF Justified
<1>4. QED
  BY <1>1, <1>2, <1>3, PTL DEF Spec, UnavailableJustified
=============================================================================
