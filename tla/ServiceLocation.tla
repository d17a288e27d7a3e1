-------------------------- MODULE ServiceLocation --------------------------
(***************************************************************************)
(* services/service_location.go, with the callers of Get (Resolver.Resolve *)
(* and HTTPProxy.Get) and of GetFallback (reconnectFn): how a request      *)
(* comes to the pod that serves it, for one Kubernetes service and one     *)
(* role.  Four caches are involved: the location of a torrent, the         *)
(* endpoints Kubernetes lists, the probe result of a pod, and the list of  *)
(* pods to ignore.                                                         *)
(*                                                                         *)
(* The caches are lazymaps (external): a value is computed by one caller   *)
(* while others wait, is dropped a fixed time after it was stored, and an  *)
(* error is kept only where the map was asked to (the probes).             *)
(*                                                                         *)
(* Ages are counted in ticks of a clock.  An entry of TTL t lives through  *)
(* t ticks, so up to one tick longer than in the code.                     *)
(***************************************************************************)
EXTENDS Distribution

CONSTANTS
    Requests,
    Keys,           \* infohashes that are asked for, by their prefixes
    NodeHash,       \* the service's distribution is NodeHash, else Hash
    Role, NodeStats,
    LocalNode,      \* my-node-name if preferLocalNode is set, else 0
    LocationTTL, ProbeTTL, IgnoreTTL, EndpointsTTL,
    MaxTicks        \* ticks a resolution may take

(* What stands in the place of an infohash when a URL starts with the name *)
(* of a service, or has other characters in it: sha1R does not match.      *)
NotAHash == MaxPrefix + 1

ASSUME ServiceLocationAssumption ==
    /\ Keys \subseteq HashPrefixes \cup {NotAHash}
    /\ NodeHash \in BOOLEAN
    /\ {LocationTTL, ProbeTTL, IgnoreTTL, EndpointsTTL, MaxTicks} \subseteq Nat

VARIABLES
    up,         \* pods that answer probes and requests
    downFor,    \* [Pods -> ticks since p was last up], saturated
    listed,     \* addresses of the service in Kubernetes
    endpoints,  \* k8s.Endpoints: a listing, or none
    ignored,    \* [Pods -> age], EndpointIgnoreList
    probes,     \* [Pods -> result and age], ProbeChecker
    locations,  \* [Keys -> location and age], ServiceLocation
    pc, key,    \* where each request is, and the torrent it asks for
    tries,      \* failed probes of its resolution
    pod,        \* the pod it probes, or is served by
    failed,     \* the pod it lost, while it looks for another
    spent       \* ticks its resolution has taken

caches == <<endpoints, ignored, probes, locations>>
world == <<up, downFor, listed>>
locals == <<pc, key, tries, pod, failed, spent>>
vars == <<up, downFor, listed, endpoints, ignored, probes, locations,
          pc, key, tries, pod, failed, spent>>

Forgotten == IgnoreTTL + 1
MaxDown == ProbeTTL + LocationTTL + 1
NoListing == [st |-> "none", pods |-> {}, age |-> 0]
NoProbe == [st |-> "none", age |-> 0]
NoLocation == [st |-> "none", pod |-> NoPod, age |-> 0]

Init ==
    /\ up = Pods
    /\ downFor = [p \in Pods |-> 0]
    /\ listed = Pods
    /\ endpoints = NoListing
    /\ ignored = [p \in Pods |-> Forgotten]
    /\ probes = [p \in Pods |-> NoProbe]
    /\ locations = [k \in Keys |-> NoLocation]
    /\ pc = [r \in Requests |-> "idle"]
    /\ key \in [Requests -> Keys]
    /\ tries = [r \in Requests |-> 0]
    /\ pod = [r \in Requests |-> NoPod]
    /\ failed = [r \in Requests |-> NoPod]
    /\ spent = [r \in Requests |-> 0]

-----------------------------------------------------------------------------
(* Helpers *)

Ignored == {p \in Pods : ignored[p] # Forgotten}

Ignore_Nothing(p) == ignored

(* EndpointIgnoreList.Ignore: an entry that is there keeps its age. *)
Ignore(p) == IF p \in Ignored THEN ignored ELSE [ignored EXCEPT ![p] = 0]

FilterAddressesByIgnore(as) == as \ Ignored

Resolving == {"kube", "probe"}

(* The request has its answer and leaves the resolution. *)
Enter(r, label, p) ==
    /\ pc' = [pc EXCEPT ![r] = label]
    /\ pod' = [pod EXCEPT ![r] = p]
    /\ failed' = [failed EXCEPT ![r] = NoPod]
    /\ tries' = [tries EXCEPT ![r] = 0]
    /\ spent' = [spent EXCEPT ![r] = 0]
    /\ UNCHANGED key

Stored(k, st, p) == [locations EXCEPT ![k] = [st |-> st, pod |-> p, age |-> 0]]

(* getKubernetes picks one of the addresses that are left: any, or the one *)
(* for the hash.                                                           *)
FirstChoices(k, as) ==
    IF as = {} THEN {NoPod}
    ELSE IF k = NotAHash THEN as
    ELSE IF NodeHash THEN {DistributeByNodeHash(k, as, FilterNodesByRole(Role, NodeStats))}
    ELSE {DistributeByHash(k, as)}

(* The preference for pods on this node comes last: it does not ask for    *)
(* roles, and hashes what may not be a hash (any outcome, or an error).    *)
LocalAddresses(a, as) ==
    IF a # NoPod /\ LocalNode # 0 /\ NodeOf[a] # LocalNode THEN On(LocalNode, as) ELSE {}

FinalChoices(k, a, as) ==
    LET las == LocalAddresses(a, as)
    IN  IF las = {} THEN {a}
        ELSE IF k = NotAHash THEN las \cup {NoPod}
        ELSE {DistributeByHash(k, las)}

-----------------------------------------------------------------------------
(* Get *)

(* A hit renews the entry. *)
LocationAfterHit_Touched(k) == [locations EXCEPT ![k].age = 0]

(* The location is in the cache. *)
LocationAfterHit(k) == locations

GetCached(r) ==
    /\ pc[r] = "idle"
    /\ locations[key[r]].st # "none"
    /\ locations' = LocationAfterHit(key[r])
    /\ Enter(r, locations[key[r]].st, locations[key[r]].pod)
    /\ UNCHANGED <<world, endpoints, ignored, probes>>

(* It is not, and nobody is computing it. *)
Get(r) ==
    /\ pc[r] = "idle"
    /\ locations[key[r]].st = "none"
    /\ \A q \in Requests : ~(pc[q] \in Resolving /\ key[q] = key[r] /\ failed[q] = NoPod)
    /\ pc' = [pc EXCEPT ![r] = "kube"]
    /\ UNCHANGED <<world, caches, key, tries, pod, failed, spent>>

(* k8s.Endpoints.Get, or NodesStat.Get, fails: 500, and nothing is stored. *)
KubeFails(r) ==
    /\ pc[r] = "kube"
    /\ endpoints.st = "none" \/ (NodeHash /\ Role # NoRole)
    /\ Enter(r, "idle", NoPod)
    /\ UNCHANGED <<world, caches>>

FetchEndpoints(r) ==
    /\ pc[r] = "kube"
    /\ endpoints.st = "none"
    /\ endpoints' = [st |-> "listed", pods |-> listed, age |-> 0]
    /\ UNCHANGED <<world, ignored, probes, locations, locals>>

(* What the two callers of getKubernetes make of its choice. *)
ToProbe(r, b) ==
    \/ /\ b = NoPod
       /\ locations' = Stored(key[r], "unavailable", NoPod)
       /\ Enter(r, "unavailable", NoPod)
    \/ /\ b # NoPod
       /\ pc' = [pc EXCEPT ![r] = "probe"]
       /\ pod' = [pod EXCEPT ![r] = b]
       /\ UNCHANGED <<locations, key, tries, failed, spent>>

ToFallback(r, b) ==
    /\ Enter(r, IF b = NoPod THEN "idle" ELSE "pod", b)
    /\ UNCHANGED locations

(* getKubernetes on the cached endpoints.  Without any address Kubernetes  *)
(* may send no subset at all, and endpoints.Subsets[0] panics; net/http    *)
(* ends the request.                                                       *)
GetKubernetes(r) ==
    LET k == key[r]
        as == FilterAddressesByIgnore(endpoints.pods)
    IN  /\ pc[r] = "kube"
        /\ endpoints.st = "listed"
        /\ \/ /\ \/ endpoints.pods = {}
                 \/ k = NotAHash /\ \E a \in FirstChoices(k, as) : LocalAddresses(a, as) # {}
              /\ Enter(r, "idle", NoPod)
              /\ UNCHANGED locations
           \/ \E a \in FirstChoices(k, as) : \E b \in FinalChoices(k, a, as) :
                 IF failed[r] = NoPod THEN ToProbe(r, b) ELSE ToFallback(r, b)
        /\ UNCHANGED <<world, endpoints, ignored, probes>>

(* What ProbeChecker.Get may find out: the cached result, or an answer     *)
(* that only a pod that is up can give.                                    *)
ProbeResults(p) ==
    IF probes[p].st # "none" THEN {probes[p]}
    ELSE {[st |-> "bad", age |-> 0]} \cup
         (IF p \in up THEN {[st |-> "ok", age |-> 0]} ELSE {})

(* A probe in getKubernetesWithProbeCheck: the location is stored, or the  *)
(* pod is ignored and the next one tried, three in all.                    *)
Probe(r) ==
    LET p == pod[r]
    IN  /\ pc[r] = "probe"
        /\ \E res \in ProbeResults(p) :
              /\ probes' = [probes EXCEPT ![p] = res]
              /\ \/ /\ res.st = "ok"
                    /\ locations' = Stored(key[r], "pod", p)
                    /\ Enter(r, "pod", p)
                    /\ UNCHANGED ignored
                 \/ /\ res.st = "bad"
                    /\ ignored' = Ignore(p)
                    /\ \/ /\ tries[r] < 2
                          /\ tries' = [tries EXCEPT ![r] = @ + 1]
                          /\ pc' = [pc EXCEPT ![r] = "kube"]
                          /\ pod' = [pod EXCEPT ![r] = NoPod]
                          /\ UNCHANGED <<locations, key, failed, spent>>
                       \/ /\ tries[r] = 2
                          /\ locations' = Stored(key[r], "unavailable", NoPod)
                          /\ Enter(r, "unavailable", NoPod)
        /\ UNCHANGED <<world, endpoints>>

-----------------------------------------------------------------------------
(* The request is served by its pod, or gets a 503 without one. *)

(* The upstream connection breaks: reconnectFn calls GetFallback, which    *)
(* resolves once more without probes or location cache.                    *)
GetFallback(r) ==
    /\ pc[r] = "pod"
    /\ pc' = [pc EXCEPT ![r] = "kube"]
    /\ failed' = [failed EXCEPT ![r] = pod[r]]
    /\ pod' = [pod EXCEPT ![r] = NoPod]
    /\ ignored' = Ignore(pod[r])
    /\ UNCHANGED <<world, endpoints, probes, locations, key, tries, spent>>

(* The request ends, served by the pod or by the 503 of stubTransport; the *)
(* goroutine's next one may be for another torrent.                        *)
Done(r) ==
    /\ pc[r] \in {"pod", "unavailable"}
    /\ pc' = [pc EXCEPT ![r] = "idle"]
    /\ pod' = [pod EXCEPT ![r] = NoPod]
    /\ key' \in {[key EXCEPT ![r] = k] : k \in Keys}
    /\ UNCHANGED <<world, caches, tries, failed, spent>>

-----------------------------------------------------------------------------
(* The cluster and the clock.  External. *)

PodDies(p) ==
    /\ p \in up
    /\ up' = up \ {p}
    /\ UNCHANGED <<downFor, listed, caches, locals>>

PodStarts(p) ==
    /\ p \notin up
    /\ up' = up \cup {p}
    /\ downFor' = [downFor EXCEPT ![p] = 0]
    /\ UNCHANGED <<listed, caches, locals>>

(* Readiness reaches the endpoints of the service. *)
KubeSync ==
    /\ listed # up
    /\ listed' = up
    /\ UNCHANGED <<up, downFor, caches, locals>>

Aged_Late(entry, ttl, none) ==
    IF entry.st = "none" \/ entry.age > ttl THEN none ELSE [entry EXCEPT !.age = @ + 1]

Aged(entry, ttl, none) ==
    IF entry.st = "none" \/ entry.age >= ttl THEN none ELSE [entry EXCEPT !.age = @ + 1]

(* A resolution is over within MaxTicks: probes time out after 3 seconds,  *)
(* the two queries to Kubernetes after 10.                                 *)
Tick ==
    /\ \A r \in Requests : spent[r] < MaxTicks
    /\ downFor' = [p \in Pods |-> IF p \in up THEN 0
                                  ELSE IF downFor[p] < MaxDown THEN downFor[p] + 1
                                  ELSE MaxDown]
    /\ endpoints' = Aged(endpoints, EndpointsTTL, NoListing)
    /\ ignored' = [p \in Pods |-> IF ignored[p] >= IgnoreTTL THEN Forgotten ELSE ignored[p] + 1]
    /\ probes' = [p \in Pods |-> Aged(probes[p], ProbeTTL, NoProbe)]
    /\ locations' = [k \in Keys |-> Aged(locations[k], LocationTTL, NoLocation)]
    /\ spent' = [r \in Requests |-> IF pc[r] \in Resolving THEN spent[r] + 1 ELSE 0]
    /\ UNCHANGED <<up, listed, pc, key, tries, pod, failed>>

Resolve(r) ==
    KubeFails(r) \/ FetchEndpoints(r) \/ GetKubernetes(r) \/ Probe(r)

Next ==
    \/ \E r \in Requests : GetCached(r) \/ Get(r) \/ Resolve(r) \/ GetFallback(r) \/ Done(r)
    \/ \E p \in Pods : PodDies(p) \/ PodStarts(p)
    \/ KubeSync
    \/ Tick

Spec == Init /\ [][Next]_vars

(* The pods stay up; probes and connections may still fail. *)
SteadySpec == Init /\ [][Next /\ UNCHANGED up]_vars

-----------------------------------------------------------------------------
(* Properties *)

TypeOK ==
    /\ up \subseteq Pods /\ listed \subseteq Pods
    /\ downFor \in [Pods -> 0..MaxDown]
    /\ endpoints \in [st : {"none", "listed"}, pods : SUBSET Pods, age : 0..EndpointsTTL]
    /\ ignored \in [Pods -> 0..Forgotten]
    /\ probes \in [Pods -> [st : {"none", "ok", "bad"}, age : 0..ProbeTTL]]
    /\ locations \in [Keys -> [st : {"none", "pod", "unavailable"},
                               pod : Pods \cup {NoPod}, age : 0..LocationTTL]]
    /\ pc \in [Requests -> {"idle", "kube", "probe", "pod", "unavailable"}]
    /\ key \in [Requests -> Keys]
    /\ tries \in [Requests -> 0..2]
    /\ pod \in [Requests -> Pods \cup {NoPod}]
    /\ failed \in [Requests -> Pods \cup {NoPod}]
    /\ spent \in [Requests -> 0..MaxTicks]
    /\ \A r \in Requests : pod[r] # NoPod <=> pc[r] \in {"probe", "pod"}

Arrives(r, label) == pc[r] # label /\ pc'[r] = label

(* Get never sends a request to a pod that has been down for longer than a *)
(* probe result and a location are kept, although what it hands out was    *)
(* looked up, probed and cached at different times by different requests.  *)
NeverLongDead ==
    [][\A r \in Requests :
         (Arrives(r, "pod") /\ failed[r] = NoPod)
            => downFor[pod'[r]] <= ProbeTTL + LocationTTL]_vars

(* A resolution answers "unavailable" only for lack of pods: all the pods  *)
(* it could use are on the ignore list, or three of the service are; a     *)
(* resolution never spends its three tries on fewer pods.  (Infohashes     *)
(* that start with fffff never have a pod, nor need other strings have a   *)
(* local one.)                                                             *)
Usable == {p \in endpoints.pods :
              ~NodeHash \/ NodeOf[p] \in FilterNodesByRole(Role, NodeStats)}

UnavailableJustified ==
    [][\A r \in Requests :
         (Arrives(r, "unavailable") /\ pc[r] # "idle") =>
             \/ key[r] = MaxPrefix \/ (key[r] = NotAHash /\ LocalNode # 0)
             \/ Usable \subseteq Ignored'
             \/ Cardinality(Ignored') >= 3]_vars
=============================================================================
