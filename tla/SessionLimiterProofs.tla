----------------------- MODULE SessionLimiterProofs -----------------------
(***************************************************************************)
(* Theorems about SessionLimiter, for every number of requests, files,     *)
(* sessions and every setting of the limits.                               *)
(***************************************************************************)
EXTENDS SessionLimiter, FiniteSetTheorems, TLAPS

(* A size read from response headers is a natural number, 0 for unknown. *)
LEMMA SizesAreNatural ==
    ASSUME NEW f \in Files, NEW resp \in UpstreamResponses(f)
    PROVE  SizeFromHeaders(resp) \in Nat
BY FileSizeCacheAssumption DEF UpstreamResponses, SizeFromHeaders

LEMMA CaptureKeepsType ==
    ASSUME CacheTypeOK, NEW f \in Files, CaptureFileSize(f)
    PROVE  CacheTypeOK'
<1>1. PICK resp \in UpstreamResponses(f) : Set(f, SizeFromHeaders(resp))
  BY DEF CaptureFileSize
<1>2. SizeFromHeaders(resp) \in Nat
  BY SizesAreNatural
<1>3. QED
  BY <1>1, <1>2 DEF Set, CacheTypeOK

LEMMA InitType == Init => TypeOK
BY SessionLimiterAssumption
   DEF Init, TypeOK, CacheInit, CacheTypeOK, NoAges, Gone, Labels

LEMMA AgesType ==
    /\ NoAges \in [Subnets -> 0..Gone]
    /\ \A ages \in [Subnets -> 0..Gone] : Older(ages) \in [Subnets -> 0..Gone]
    /\ \A ages \in [Subnets -> 0..Gone], i \in Subnets :
          [ages EXCEPT ![i] = 0] \in [Subnets -> 0..Gone]
BY SessionLimiterAssumption DEF NoAges, Older, Gone

(* Return is the end of a call: it resets the locals of r and no others. *)
LEMMA ReturnKeepsLocals ==
    ASSUME TypeOK, NEW r \in Requests, Return(r)
    PROVE  /\ pc' \in [Requests -> Labels]
           /\ big' \in [Requests -> BOOLEAN]
           /\ DOMAIN req' = Requests /\ DOMAIN obj' = Requests
           /\ \A q \in Requests :
                IF pc'[q] \in {"idle", "unlimited"}
                THEN req'[q] = Null /\ obj'[q] = Null /\ ~big'[q]
                ELSE req'[q] \in Request /\ obj'[q] \in Addrs
BY DEF TypeOK, Return, Goto, Labels

(* A jump inside the call leaves the locals alone. *)
LEMMA GotoKeepsLocals ==
    ASSUME TypeOK, NEW r \in Requests,
           NEW label \in Labels \ {"idle", "unlimited"},
           pc[r] \notin {"idle", "unlimited"},
           Goto(r, label), UNCHANGED <<req, obj>>, big' \in [Requests -> BOOLEAN],
           \A q \in Requests \ {r} : big'[q] = big[q]
    PROVE  /\ pc' \in [Requests -> Labels]
           /\ DOMAIN req' = Requests /\ DOMAIN obj' = Requests
           /\ \A q \in Requests :
                IF pc'[q] \in {"idle", "unlimited"}
                THEN req'[q] = Null /\ obj'[q] = Null /\ ~big'[q]
                ELSE req'[q] \in Request /\ obj'[q] \in Addrs
BY DEF TypeOK, Goto, Labels

(* Inside a call a request has arguments and a session state. *)
LEMMA HasLocals ==
    ASSUME TypeOK, NEW r \in Requests, pc[r] \notin {"idle", "unlimited"}
    PROVE  /\ obj[r] \in Addrs
           /\ req[r].file \in Files
           /\ req[r].sid \in Sessions
           /\ req[r].ip \in Subnets \cup {NoIP}
<1>1. req[r] \in Request /\ obj[r] \in Addrs
  BY DEF TypeOK
<1>2. QED
  BY <1>1 DEF Request

(* Incrementing or decrementing one entry of a table of counters. *)
LEMMA CounterType ==
    ASSUME NEW c \in [Addrs -> [Files -> Int]], NEW a \in Addrs, NEW f \in Files
    PROVE  /\ [c EXCEPT ![a][f] = @ + 1] \in [Addrs -> [Files -> Int]]
           /\ [c EXCEPT ![a][f] = @ - 1] \in [Addrs -> [Files -> Int]]
OBVIOUS

(* One step of one request keeps the types. *)
LEMMA StepType ==
    ASSUME TypeOK, NEW r \in Requests, Step(r)
    PROVE  TypeOK'
<1> USE DEF objects
<1>1. CASE AcquireAnonymous(r) \/ ReleaseAnonymous(r)
  BY <1>1 DEF AcquireAnonymous, ReleaseAnonymous, TypeOK, CacheTypeOK, Goto, Labels
<1>2. ASSUME NEW s \in Sessions, NEW f \in Files, NEW i \in Subnets \cup {NoIP},
             GetSession(r, s, f, i)
      PROVE  TypeOK'
  <2>1. [sid |-> s, file |-> f, ip |-> i] \in Request
    BY DEF Request
  <2>2. CASE sessions[s] # Null
    <3>1. sessions[s] \in Addrs
      BY <2>2 DEF TypeOK
    <3>2. QED
      BY <1>2, <2>1, <2>2, <3>1 DEF GetSession, TypeOK, CacheTypeOK, Goto, Labels
  <2>3. CASE sessions[s] = Null
    <3>1. PICK a \in Free :
            /\ sessions' = [sessions EXCEPT ![s] = a]
            /\ obj'      = [obj EXCEPT ![r] = a]
            /\ total'    = [total EXCEPT ![a] = 0]
            /\ conc'     = [conc EXCEPT ![a] = [g \in Files |-> 0]]
            /\ bigPaths' = [bigPaths EXCEPT ![a] = [g \in Files |-> 0]]
            /\ ips'      = [ips EXCEPT ![a] = [g \in Files |-> NoAges]]
            /\ recent'   = [recent EXCEPT ![a] = [g \in Files |-> NoAges]]
      BY <1>2, <2>3 DEF GetSession
    <3>2. a \in Addrs
      BY DEF Free
    <3>3. /\ pc' = [pc EXCEPT ![r] = "total"]
          /\ req' = [req EXCEPT ![r] = [sid |-> s, file |-> f, ip |-> i]]
          /\ UNCHANGED <<cache, big>>
      BY <1>2 DEF GetSession, Goto
    <3>4. /\ ips' \in [Addrs -> [Files -> [Subnets -> 0..Gone]]]
          /\ recent' \in [Addrs -> [Files -> [Subnets -> 0..Gone]]]
      BY <3>1, <3>2, AgesType DEF TypeOK
    <3>5. QED
      BY <2>1, <3>1, <3>2, <3>3, <3>4 DEF TypeOK, CacheTypeOK, Labels
  <2>4. QED
    BY <2>2, <2>3
<1>3. CASE CheckTotal(r)
  <2>1. CASE TotalFull(obj[r])
    BY <1>3, <2>1, ReturnKeepsLocals DEF CheckTotal, TypeOK, CacheTypeOK
  <2>2. CASE ~TotalFull(obj[r])
    BY <1>3, <2>2, GotoKeepsLocals DEF CheckTotal, TypeOK, CacheTypeOK, Labels
  <2>3. QED
    BY <2>1, <2>2
<1>4. CASE Classify(r)
  <2>1. big' \in [Requests -> BOOLEAN] /\ \A q \in Requests \ {r} : big'[q] = big[q]
    BY <1>4 DEF Classify, TypeOK, IsBigFile
  <2>2. QED
    BY <1>4, <2>1, GotoKeepsLocals DEF Classify, TypeOK, CacheTypeOK, Labels
<1>5. CASE TryAddBig(r)
  <2>1. CASE BigFull(obj[r], req[r].file)
    BY <1>5, <2>1, ReturnKeepsLocals DEF TryAddBig, TypeOK, CacheTypeOK
  <2>2. CASE ~BigFull(obj[r], req[r].file)
    <3>1. bigPaths' \in [Addrs -> [Files -> Int]]
      <4>1. obj[r] \in Addrs /\ req[r].file \in Files
        BY <1>5, HasLocals DEF TryAddBig
      <4>2. bigPaths \in [Addrs -> [Files -> Int]]
        BY DEF TypeOK
      <4>3. QED
        BY <1>5, <2>2, <4>1, <4>2, CounterType DEF TryAddBig
    <3>2. QED
      BY <1>5, <2>2, <3>1, GotoKeepsLocals DEF TryAddBig, TypeOK, CacheTypeOK, Labels
  <2>3. QED
    BY <2>1, <2>2
<1>6. CASE CheckPath(r)
  <2>1. CASE PathFull(obj[r], req[r].file) /\ ~big[r]
    BY <1>6, <2>1, ReturnKeepsLocals DEF CheckPath, Refuse, TypeOK, CacheTypeOK
  <2>2. CASE ~(PathFull(obj[r], req[r].file) /\ ~big[r])
    BY <1>6, <2>2, GotoKeepsLocals DEF CheckPath, Refuse, TypeOK, CacheTypeOK, Labels
  <2>3. QED
    BY <2>1, <2>2
<1>7. CASE TrackIP(r)
  <2> DEFINE a == obj[r]  f == req[r].file  i == req[r].ip
             ages == [ips[a][f] EXCEPT ![i] = 0]
  <2>1. a \in Addrs /\ f \in Files /\ i \in Subnets \cup {NoIP}
    BY <1>7, HasLocals DEF TrackIP
  <2>2. ages \in [Subnets -> 0..Gone]
    <3>1. ips[a][f] \in [Subnets -> 0..Gone] /\ 0 \in 0..Gone
      BY <2>1, SessionLimiterAssumption DEF TypeOK, Gone
    <3>2. QED
      BY <3>1
  <2>3. ips' \in [Addrs -> [Files -> [Subnets -> 0..Gone]]]
    BY <1>7, <2>1, <2>2 DEF TrackIP, TypeOK
  <2>4. recent' \in [Addrs -> [Files -> [Subnets -> 0..Gone]]]
    <3>1. CASE TooManyIPs(ips[a][f], ages)
      BY <1>7, <3>1 DEF TrackIP, TypeOK
    <3>2. CASE ~TooManyIPs(ips[a][f], ages)
      <4>1. recent \in [Addrs -> [Files -> [Subnets -> 0..Gone]]]
            /\ 0 \in 0..Gone
        BY SessionLimiterAssumption DEF TypeOK, Gone
      <4>2. recent' = [recent EXCEPT ![a][f][i] = 0]
        BY <1>7, <3>2 DEF TrackIP
      <4>3. [recent[a][f] EXCEPT ![i] = 0] \in [Subnets -> 0..Gone]
        BY <2>1, <4>1
      <4>4. QED
        BY <2>1, <4>1, <4>2, <4>3
    <3>3. QED
      BY <3>1, <3>2
  <2>5. CASE TooManyIPs(ips[a][f], ages) /\ ~big[r]
    BY <1>7, <2>3, <2>4, <2>5, ReturnKeepsLocals
       DEF TrackIP, Refuse, TypeOK, CacheTypeOK
  <2>6. CASE ~(TooManyIPs(ips[a][f], ages) /\ ~big[r])
    BY <1>7, <2>3, <2>4, <2>6, GotoKeepsLocals
       DEF TrackIP, Refuse, TypeOK, CacheTypeOK, Labels
  <2>7. QED
    BY <2>5, <2>6
<1>8. CASE Unwind(r)
  <2>1. bigPaths' \in [Addrs -> [Files -> Int]]
    <3>1. obj[r] \in Addrs /\ req[r].file \in Files
      BY <1>8, HasLocals DEF Unwind
    <3>2. bigPaths \in [Addrs -> [Files -> Int]]
      BY DEF TypeOK
    <3>3. QED
      BY <1>8, <3>1, <3>2, CounterType DEF Unwind, ReleaseHash
  <2>2. QED
    BY <1>8, <2>1, ReturnKeepsLocals DEF Unwind, TypeOK, CacheTypeOK
<1>9. CASE AddTotal(r)
  <2>1. total' \in [Addrs -> Int]
    <3>1. obj[r] \in Addrs
      BY <1>9, HasLocals DEF AddTotal
    <3>2. total \in [Addrs -> Int]
      BY DEF TypeOK
    <3>3. QED
      BY <1>9, <3>1, <3>2 DEF AddTotal
  <2>2. QED
    BY <1>9, <2>1, GotoKeepsLocals DEF AddTotal, TypeOK, CacheTypeOK, Labels
<1>10. CASE AddConc(r)
  <2>1. conc' \in [Addrs -> [Files -> Int]]
    <3>1. obj[r] \in Addrs /\ req[r].file \in Files
      BY <1>10, HasLocals DEF AddConc
    <3>2. conc \in [Addrs -> [Files -> Int]]
      BY DEF TypeOK
    <3>3. QED
      BY <1>10, <3>1, <3>2, CounterType DEF AddConc
  <2>2. QED
    BY <1>10, <2>1, GotoKeepsLocals DEF AddConc, TypeOK, CacheTypeOK, Labels
<1>11. CASE Respond(r)
  <2>1. req[r].file \in Files
    BY <1>11 DEF Respond, TypeOK, Request
  <2>2. CacheTypeOK'
    BY <1>11, <2>1, CaptureKeepsType DEF Respond, TypeOK
  <2>3. QED
    BY <1>11, <2>2 DEF Respond, TypeOK
<1>12. CASE ReleaseConc(r)
  <2>1. conc' \in [Addrs -> [Files -> Int]]
    <3>1. obj[r] \in Addrs /\ req[r].file \in Files
      BY <1>12, HasLocals DEF ReleaseConc
    <3>2. conc \in [Addrs -> [Files -> Int]]
      BY DEF TypeOK
    <3>3. QED
      BY <1>12, <3>1, <3>2, CounterType DEF ReleaseConc
  <2>2. QED
    BY <1>12, <2>1, GotoKeepsLocals DEF ReleaseConc, TypeOK, CacheTypeOK, Labels
<1>13. CASE ReleaseBig(r)
  <2>1. bigPaths' \in [Addrs -> [Files -> Int]]
    <3>1. obj[r] \in Addrs /\ req[r].file \in Files
      BY <1>13, HasLocals DEF ReleaseBig
    <3>2. bigPaths \in [Addrs -> [Files -> Int]]
      BY DEF TypeOK
    <3>3. QED
      BY <1>13, <3>1, <3>2, CounterType DEF ReleaseBig, ReleaseHash
  <2>2. QED
    BY <1>13, <2>1, GotoKeepsLocals DEF ReleaseBig, TypeOK, CacheTypeOK, Labels
<1>14. CASE ReleaseTotal(r)
  <2>1. total' \in [Addrs -> Int]
    <3>1. obj[r] \in Addrs
      BY <1>14, HasLocals DEF ReleaseTotal
    <3>2. total \in [Addrs -> Int]
      BY DEF TypeOK
    <3>3. QED
      BY <1>14, <3>1, <3>2 DEF ReleaseTotal
  <2>2. CASE LastOut(obj[r])
    BY <1>14, <2>1, <2>2, GotoKeepsLocals DEF ReleaseTotal, TypeOK, CacheTypeOK, Labels
  <2>3. CASE ~LastOut(obj[r])
    BY <1>14, <2>1, <2>3, ReturnKeepsLocals DEF ReleaseTotal, TypeOK, CacheTypeOK
  <2>4. QED
    BY <2>2, <2>3
<1>15. CASE Forget(r)
  <2>1. sessions' \in [Sessions -> Addrs \cup {Null}]
    BY <1>15 DEF Forget, TypeOK
  <2>2. QED
    BY <1>15, <2>1, ReturnKeepsLocals DEF Forget, TypeOK, CacheTypeOK
<1>16. QED
  BY <1>1, <1>2, <1>3, <1>4, <1>5, <1>6, <1>7, <1>8, <1>9, <1>10, <1>11, <1>12,
     <1>13, <1>14, <1>15 DEF Step, Begin, Continue

LEMMA TickType ==
    ASSUME TypeOK, Tick
    PROVE  TypeOK'
<1>1. /\ ips' \in [Addrs -> [Files -> [Subnets -> 0..Gone]]]
      /\ recent' \in [Addrs -> [Files -> [Subnets -> 0..Gone]]]
  BY AgesType DEF Tick, TypeOK
<1>2. QED
  BY <1>1 DEF Tick, TypeOK, CacheTypeOK

LEMMA NextType == TypeOK /\ [Next]_vars => TypeOK'
<1>1. ASSUME TypeOK, UNCHANGED vars PROVE TypeOK'
  BY <1>1 DEF vars, TypeOK, CacheTypeOK
<1>2. QED
  BY <1>1, StepType, TickType DEF Next

(* Every state Acquire and release can reach is well-typed, and a request  *)
(* has locals exactly while one of its calls is under way.                 *)
THEOREM TypeCorrect == Spec => []TypeOK
BY InitType, NextType, PTL DEF Spec

-----------------------------------------------------------------------------
(* Slot accounting *)

(* A count goes from old to new as r joins or leaves the counted set. *)
Follows(r, old, new, S, T) ==
    \/ (r \in S <=> r \in T) /\ new = old
    \/ r \notin S /\ r \in T /\ new = old + 1
    \/ r \in S /\ r \notin T /\ new = old - 1

(* Two finite sets that agree except perhaps on r. *)
LEMMA CardMove ==
    ASSUME NEW S, NEW T, NEW r, IsFiniteSet(S), S \ {r} = T \ {r}
    PROVE  Follows(r, Cardinality(S), Cardinality(T), S, T)
<1>1. CASE r \in S <=> r \in T
  <2>1. S = T
    BY <1>1
  <2>2. QED
    BY <2>1 DEF Follows
<1>2. CASE r \notin S /\ r \in T
  <2>1. T = S \cup {r}
    BY <1>2
  <2>2. QED
    BY <1>2, <2>1, FS_AddElement DEF Follows
<1>3. CASE r \in S /\ r \notin T
  <2>1. T = S \ {r}
    BY <1>3
  <2>2. QED
    BY <1>3, <2>1, FS_RemoveElement DEF Follows
<1>4. QED
  BY <1>1, <1>2, <1>3

LEMMA HoldersFinite ==
    ASSUME NEW a, NEW f
    PROVE  IsFiniteSet(InTotal(a)) /\ IsFiniteSet(InConc(a, f)) /\ IsFiniteSet(InBig(a, f))
<1>1. InTotal(a) \subseteq Requests /\ InConc(a, f) \subseteq Requests
      /\ InBig(a, f) \subseteq Requests
  BY DEF InTotal, InConc, InBig
<1>2. QED
  BY <1>1, SessionLimiterAssumption, FS_Subset

(* The locals of every request but r stay as they are. *)
OthersKeep(r) ==
    \A q \in Requests \ {r} : /\ pc'[q] = pc[q] /\ req'[q] = req[q]
                              /\ obj'[q] = obj[q] /\ big'[q] = big[q]

(* Each counter changes by what the step changes about r's own holdings. *)
CountersFollow(r) ==
    \A a \in Addrs :
        /\ Follows(r, total[a], total'[a], InTotal(a), InTotal(a)')
        /\ \A f \in Files :
            /\ Follows(r, conc[a][f], conc'[a][f], InConc(a, f), InConc(a, f)')
            /\ Follows(r, bigPaths[a][f], bigPaths'[a][f], InBig(a, f), InBig(a, f)')

(* If a step of r changes each counter by what it changes about r's own    *)
(* holdings, the accounting stays exact.                                   *)
LEMMA AccountingStep ==
    ASSUME SlotAccounting, NEW r \in Requests, OthersKeep(r), CountersFollow(r)
    PROVE  SlotAccounting'
<1> USE DEF CountersFollow
<1>1. ASSUME NEW a \in Addrs
      PROVE  total'[a] = Cardinality(InTotal(a)')
  <2>1. InTotal(a) \ {r} = InTotal(a)' \ {r}
    BY DEF OthersKeep, InTotal
  <2>2. Follows(r, Cardinality(InTotal(a)), Cardinality(InTotal(a)'), InTotal(a), InTotal(a)')
    BY <2>1, HoldersFinite, CardMove
  <2>3. QED
    BY <1>1, <2>2 DEF SlotAccounting, Follows
<1>2. ASSUME NEW a \in Addrs, NEW f \in Files
      PROVE  conc'[a][f] = Cardinality(InConc(a, f)')
  <2>1. InConc(a, f) \ {r} = InConc(a, f)' \ {r}
    BY DEF OthersKeep, InConc
  <2>2. Follows(r, Cardinality(InConc(a, f)), Cardinality(InConc(a, f)'), InConc(a, f), InConc(a, f)')
    BY <2>1, HoldersFinite, CardMove
  <2>3. QED
    BY <1>2, <2>2 DEF SlotAccounting, Follows
<1>3. ASSUME NEW a \in Addrs, NEW f \in Files
      PROVE  bigPaths'[a][f] = Cardinality(InBig(a, f)')
  <2>1. InBig(a, f) \ {r} = InBig(a, f)' \ {r}
    BY DEF OthersKeep, InBig
  <2>2. Follows(r, Cardinality(InBig(a, f)), Cardinality(InBig(a, f)'), InBig(a, f), InBig(a, f)')
    BY <2>1, HoldersFinite, CardMove
  <2>3. QED
    BY <1>3, <2>2 DEF SlotAccounting, Follows
<1>4. QED
  BY <1>1, <1>2, <1>3 DEF SlotAccounting

LEMMA FreeIsZero ==
    ASSUME SlotAccounting, NEW a \in Free
    PROVE  total[a] = 0 /\ \A f \in Files : conc[a][f] = 0 /\ bigPaths[a][f] = 0
<1>1. a \in Addrs /\ InTotal(a) = {}
      /\ \A f \in Files : InConc(a, f) = {} /\ InBig(a, f) = {}
  BY DEF Free, InTotal, InConc, InBig
<1>2. QED
  BY <1>1, FS_EmptySet DEF SlotAccounting

(* Where a Return or a jump leaves the locals. *)
LEMMA ReturnLocals ==
    ASSUME TypeOK, NEW r \in Requests, Return(r)
    PROVE  pc'[r] = "idle" /\ obj'[r] = Null /\ OthersKeep(r)
BY DEF TypeOK, Return, Goto, OthersKeep

LEMMA GotoLocals ==
    ASSUME TypeOK, NEW r \in Requests, NEW label, Goto(r, label), UNCHANGED <<req, obj, big>>
    PROVE  /\ pc'[r] = label
           /\ req'[r] = req[r] /\ obj'[r] = obj[r] /\ big'[r] = big[r]
           /\ OthersKeep(r)
BY DEF TypeOK, Goto, OthersKeep

(* Where the code calls releaseHash, or is about to reserve the slot, the   *)
(* file was classified as big.                                             *)
BigWhereNeeded ==
    \A r \in Requests : pc[r] \in {"hash", "unwind", "releaseHash"} => big[r]

LEMMA StepBig ==
    ASSUME TypeOK, BigWhereNeeded, NEW r \in Requests, Step(r)
    PROVE  BigWhereNeeded'
<1>1. SUFFICES ASSUME NEW q \in Requests, pc'[q] \in {"hash", "unwind", "releaseHash"}
               PROVE  big'[q]
  BY DEF BigWhereNeeded
<1>2. pc[q] \in {"hash", "unwind", "releaseHash"} => big[q]
  BY DEF BigWhereNeeded
<1>3. pc \in [Requests -> Labels] /\ big \in [Requests -> BOOLEAN]
  BY DEF TypeOK
<1>4. CASE Classify(r)
  BY <1>1, <1>2, <1>3, <1>4 DEF Classify, Goto
<1>5. CASE CheckPath(r) \/ TrackIP(r)
  BY <1>1, <1>2, <1>3, <1>5 DEF CheckPath, TrackIP, Refuse, Goto, Return
<1>6. CASE CheckTotal(r) \/ TryAddBig(r) \/ Unwind(r) \/ AddTotal(r) \/ AddConc(r)
  BY <1>1, <1>2, <1>3, <1>6 DEF CheckTotal, TryAddBig, Unwind, AddTotal, AddConc, Goto, Return
<1>7. CASE Respond(r) \/ ReleaseConc(r) \/ ReleaseBig(r) \/ ReleaseTotal(r) \/ Forget(r)
  BY <1>1, <1>2, <1>3, <1>7
     DEF Respond, ReleaseConc, ReleaseBig, ReleaseTotal, Forget, Goto, Return
<1>8. CASE AcquireAnonymous(r) \/ ReleaseAnonymous(r)
           \/ \E s \in Sessions, f \in Files, i \in Subnets \cup {NoIP} : GetSession(r, s, f, i)
  BY <1>1, <1>2, <1>3, <1>8 DEF AcquireAnonymous, ReleaseAnonymous, GetSession, Goto
<1>9. QED
  BY <1>4, <1>5, <1>6, <1>7, <1>8 DEF Step, Begin, Continue

(* The counters are integers (a consequence of TypeOK kept small). *)
CountersOK ==
    /\ total \in [Addrs -> Int]
    /\ conc \in [Addrs -> [Files -> Int]]
    /\ bigPaths \in [Addrs -> [Files -> Int]]

SameCounters ==
    \A a \in Addrs : /\ total'[a] = total[a]
                     /\ \A f \in Files : /\ conc'[a][f] = conc[a][f]
                                         /\ bigPaths'[a][f] = bigPaths[a][f]

(* A step that takes and gives back nothing. *)
LEMMA NothingMoves ==
    ASSUME TypeOK, SlotAccounting, NEW r \in Requests, OthersKeep(r), SameCounters,
           \A a \in Addrs : /\ r \in InTotal(a) <=> r \in InTotal(a)'
                            /\ \A f \in Files : /\ r \in InConc(a, f) <=> r \in InConc(a, f)'
                                                /\ r \in InBig(a, f) <=> r \in InBig(a, f)'
    PROVE  SlotAccounting'
<1>1. CountersOK
  BY DEF TypeOK, CountersOK
<1>2. CountersFollow(r)
  BY <1>1 DEF CountersFollow, SameCounters, Follows
<1>3. QED
  BY <1>2, AccountingStep

(* One step of one request keeps the accounting exact. *)
LEMMA StepAccounting ==
    ASSUME TypeOK, SlotAccounting, BigWhereNeeded, NEW r \in Requests, Step(r)
    PROVE  SlotAccounting'
<1> USE DEF objects
<1>c. CountersOK
  BY DEF TypeOK, CountersOK
<1>n. Null \notin Addrs
  BY SessionLimiterAssumption
<1>1. CASE AcquireAnonymous(r) \/ ReleaseAnonymous(r)
  <2>1. /\ pc[r] \in {"idle", "unlimited"} /\ pc'[r] \in {"idle", "unlimited"}
        /\ OthersKeep(r) /\ SameCounters
    BY <1>1, GotoLocals DEF AcquireAnonymous, ReleaseAnonymous, SameCounters
  <2>2. QED
    BY <2>1, NothingMoves DEF InTotal, InConc, InBig
<1>2. ASSUME NEW s \in Sessions, NEW g \in Files, NEW i \in Subnets \cup {NoIP},
             GetSession(r, s, g, i)
      PROVE  SlotAccounting'
  <2>1. pc[r] = "idle" /\ pc'[r] = "total" /\ OthersKeep(r)
    BY <1>2 DEF GetSession, Goto, TypeOK, OthersKeep
  <2>2. SameCounters
    <3>1. CASE sessions[s] # Null
      BY <1>2, <3>1 DEF GetSession, SameCounters
    <3>2. CASE sessions[s] = Null
      <4>1. PICK b \in Free :
              /\ total'    = [total EXCEPT ![b] = 0]
              /\ conc'     = [conc EXCEPT ![b] = [f \in Files |-> 0]]
              /\ bigPaths' = [bigPaths EXCEPT ![b] = [f \in Files |-> 0]]
        BY <1>2, <3>2 DEF GetSession
      <4>2. QED
        BY <1>c, <4>1, FreeIsZero DEF CountersOK, SameCounters
    <3>3. QED
      BY <3>1, <3>2
  <2>3. QED
    BY <2>1, <2>2, NothingMoves DEF InTotal, InConc, InBig
<1>3. CASE CheckTotal(r)
  <2>1. /\ pc[r] = "total" /\ pc'[r] \in {"idle", "classify"}
        /\ OthersKeep(r) /\ SameCounters
    BY <1>3, ReturnLocals, GotoLocals DEF CheckTotal, SameCounters
  <2>2. QED
    BY <2>1, NothingMoves DEF InTotal, InConc, InBig
<1>4. CASE Classify(r)
  <2>1. /\ pc[r] = "classify" /\ OthersKeep(r) /\ SameCounters
        /\ (pc'[r] = "hash" \/ (pc'[r] = "path" /\ ~big'[r]))
    BY <1>4 DEF Classify, Goto, TypeOK, OthersKeep, SameCounters, IsBigFile
  <2>2. QED
    BY <2>1, NothingMoves DEF InTotal, InConc, InBig
<1>5. CASE TryAddBig(r)
  <2>1. CASE BigFull(obj[r], req[r].file)
    <3>1. pc[r] = "hash" /\ pc'[r] = "idle" /\ OthersKeep(r) /\ SameCounters
      BY <1>5, <2>1, ReturnLocals DEF TryAddBig, SameCounters
    <3>2. QED
      BY <3>1, NothingMoves DEF InTotal, InConc, InBig
  <2>2. CASE ~BigFull(obj[r], req[r].file)
    <3>1. /\ pc[r] = "hash" /\ pc'[r] = "path" /\ OthersKeep(r) /\ big[r]
          /\ req'[r] = req[r] /\ obj'[r] = obj[r] /\ big'[r] = big[r]
      BY <1>5, <2>2, GotoLocals DEF TryAddBig, BigWhereNeeded
    <3>2. CountersFollow(r)
      BY <1>5, <1>c, <2>2, <3>1
         DEF TryAddBig, CountersOK, CountersFollow, Follows, InTotal, InConc, InBig
    <3>3. QED
      BY <3>1, <3>2, AccountingStep
  <2>3. QED
    BY <2>1, <2>2
<1>6. CASE CheckPath(r) \/ TrackIP(r)
  <2>1. /\ pc[r] \in {"path", "ips"} /\ OthersKeep(r) /\ SameCounters
        /\ \/ ~big[r] /\ pc'[r] = "idle"
           \/ /\ pc'[r] \in {"unwind", "ips", "addTotal"}
              /\ req'[r] = req[r] /\ obj'[r] = obj[r] /\ big'[r] = big[r]
    <3>1. CASE CheckPath(r)
      BY <3>1, ReturnLocals, GotoLocals DEF CheckPath, Refuse, SameCounters
    <3>2. CASE TrackIP(r)
      BY <3>2, ReturnLocals, GotoLocals DEF TrackIP, Refuse, SameCounters
    <3>3. QED
      BY <1>6, <3>1, <3>2
  <2>2. QED
    BY <2>1, NothingMoves DEF InTotal, InConc, InBig
<1>7. CASE Unwind(r)
  <2>1. /\ pc[r] = "unwind" /\ pc'[r] = "idle" /\ OthersKeep(r) /\ big[r]
    BY <1>7, ReturnLocals DEF Unwind, BigWhereNeeded
  <2>2. CountersFollow(r)
    BY <1>7, <1>c, <2>1
       DEF Unwind, ReleaseHash, CountersOK, CountersFollow, Follows, InTotal, InConc, InBig
  <2>3. QED
    BY <2>1, <2>2, AccountingStep
<1>8. CASE AddTotal(r)
  <2>1. /\ pc[r] = "addTotal" /\ pc'[r] = "addConc" /\ OthersKeep(r)
        /\ req'[r] = req[r] /\ obj'[r] = obj[r] /\ big'[r] = big[r]
    BY <1>8, GotoLocals DEF AddTotal
  <2>2. CountersFollow(r)
    BY <1>8, <1>c, <2>1
       DEF AddTotal, CountersOK, CountersFollow, Follows, InTotal, InConc, InBig
  <2>3. QED
    BY <2>1, <2>2, AccountingStep
<1>9. CASE AddConc(r)
  <2>1. /\ pc[r] = "addConc" /\ pc'[r] = "serving" /\ OthersKeep(r)
        /\ req'[r] = req[r] /\ obj'[r] = obj[r] /\ big'[r] = big[r]
    BY <1>9, GotoLocals DEF AddConc
  <2>2. CountersFollow(r)
    BY <1>9, <1>c, <2>1
       DEF AddConc, CountersOK, CountersFollow, Follows, InTotal, InConc, InBig
  <2>3. QED
    BY <2>1, <2>2, AccountingStep
<1>10. CASE Respond(r)
  <2>1. OthersKeep(r) /\ SameCounters /\ UNCHANGED <<pc, req, obj, big>>
    BY <1>10 DEF Respond, OthersKeep, SameCounters
  <2>2. QED
    BY <2>1, NothingMoves DEF InTotal, InConc, InBig
<1>11. CASE ReleaseConc(r)
  <2>1. /\ pc[r] = "serving" /\ OthersKeep(r)
        /\ pc'[r] = IF big[r] THEN "releaseHash" ELSE "releaseTotal"
        /\ req'[r] = req[r] /\ obj'[r] = obj[r] /\ big'[r] = big[r]
    BY <1>11, GotoLocals DEF ReleaseConc
  <2>2. CountersFollow(r)
    BY <1>11, <1>c, <2>1
       DEF ReleaseConc, CountersOK, CountersFollow, Follows, InTotal, InConc, InBig
  <2>3. QED
    BY <2>1, <2>2, AccountingStep
<1>12. CASE ReleaseBig(r)
  <2>1. /\ pc[r] = "releaseHash" /\ pc'[r] = "releaseTotal" /\ OthersKeep(r) /\ big[r]
        /\ req'[r] = req[r] /\ obj'[r] = obj[r] /\ big'[r] = big[r]
    BY <1>12, GotoLocals DEF ReleaseBig, BigWhereNeeded
  <2>2. CountersFollow(r)
    BY <1>12, <1>c, <2>1
       DEF ReleaseBig, ReleaseHash, CountersOK, CountersFollow, Follows, InTotal, InConc, InBig
  <2>3. QED
    BY <2>1, <2>2, AccountingStep
<1>13. CASE ReleaseTotal(r)
  <2>1. pc[r] = "releaseTotal" /\ pc'[r] \in {"idle", "forget"} /\ OthersKeep(r)
    BY <1>13, ReturnLocals, GotoLocals DEF ReleaseTotal
  <2>2. CountersFollow(r)
    BY <1>13, <1>c, <2>1
       DEF ReleaseTotal, CountersOK, CountersFollow, Follows, InTotal, InConc, InBig
  <2>3. QED
    BY <2>1, <2>2, AccountingStep
<1>14. CASE Forget(r)
  <2>1. pc[r] = "forget" /\ pc'[r] = "idle" /\ OthersKeep(r) /\ SameCounters
    BY <1>14, ReturnLocals DEF Forget, SameCounters
  <2>2. QED
    BY <2>1, NothingMoves DEF InTotal, InConc, InBig
<1>15. QED
  BY <1>1, <1>2, <1>3, <1>4, <1>5, <1>6, <1>7, <1>8, <1>9, <1>10, <1>11, <1>12,
     <1>13, <1>14 DEF Step, Begin, Continue

(* The inductive invariant of the accounting theorem. *)
Inv == TypeOK /\ SlotAccounting /\ BigWhereNeeded

LEMMA InitInv == Init => Inv
<1> SUFFICES ASSUME Init PROVE Inv
  OBVIOUS
<1>1. TypeOK
  BY InitType
<1>2. \A r \in Requests : pc[r] = "idle"
  BY DEF Init
<1>3. \A a \in Addrs, f \in Files : InTotal(a) = {} /\ InConc(a, f) = {} /\ InBig(a, f) = {}
  BY <1>2 DEF InTotal, InConc, InBig
<1>4. SlotAccounting
  BY <1>2, <1>3, FS_EmptySet DEF Init, SlotAccounting, InTotal
<1>5. QED
  BY <1>1, <1>2, <1>4 DEF Inv, BigWhereNeeded

LEMMA NextInv == Inv /\ [Next]_vars => Inv'
<1> SUFFICES ASSUME Inv, [Next]_vars PROVE Inv'
  OBVIOUS
<1>1. TypeOK'
  BY NextType DEF Inv
<1>2. CASE \E r \in Requests : Step(r)
  BY <1>1, <1>2, StepAccounting, StepBig DEF Inv
<1>3. CASE Tick \/ UNCHANGED vars
  <2>1. UNCHANGED <<total, conc, bigPaths, pc, req, obj, big>>
    BY <1>3 DEF Tick, vars
  <2>2. \A a \in Addrs : /\ InTotal(a)' = InTotal(a)
                         /\ \A f \in Files : /\ InConc(a, f)' = InConc(a, f)
                                             /\ InBig(a, f)' = InBig(a, f)
    BY <2>1 DEF InTotal, InConc, InBig
  <2>3. SlotAccounting'
    BY <2>1, <2>2 DEF Inv, SlotAccounting
  <2>4. BigWhereNeeded'
    BY <2>1 DEF Inv, BigWhereNeeded
  <2>5. QED
    BY <1>1, <2>3, <2>4 DEF Inv
<1>4. QED
  BY <1>2, <1>3 DEF Next

(* Each counter of each session state is exactly the number of requests    *)
(* that will still decrement it, for any number of requests interleaving   *)
(* Acquire and release in any way.                                         *)
THEOREM AccountingExact == Spec => []SlotAccounting
<1>1. Inv => SlotAccounting
  BY DEF Inv
<1>2. QED
  BY <1>1, InitInv, NextInv, PTL DEF Spec

-----------------------------------------------------------------------------
(* The big-file cap *)

(* A step that activates no file of any state cannot exceed the cap. *)
LEMMA FewerActive ==
    ASSUME BigCapPerState,
           \A a \in Addrs, f \in Files : bigPaths'[a][f] > 0 => bigPaths[a][f] > 0
    PROVE  BigCapPerState'
<1>1. ASSUME MaxBigFilesPerHash > 0, NEW a \in Addrs, NEW f \in Files
      PROVE  Cardinality(ActiveBig(a, HashOf[f])') <= MaxBigFilesPerHash
  <2>1. /\ ActiveBig(a, HashOf[f])' \subseteq ActiveBig(a, HashOf[f])
        /\ ActiveBig(a, HashOf[f]) \subseteq Files
    BY DEF ActiveBig
  <2>2. /\ IsFiniteSet(ActiveBig(a, HashOf[f]))
        /\ Cardinality(ActiveBig(a, HashOf[f])') <= Cardinality(ActiveBig(a, HashOf[f]))
    BY <2>1, FileSizeCacheAssumption, FS_Subset
  <2>3. /\ Cardinality(ActiveBig(a, HashOf[f])) <= MaxBigFilesPerHash
        /\ MaxBigFilesPerHash \in Nat
    BY <1>1, SessionLimiterAssumption DEF BigCapPerState
  <2>4. /\ Cardinality(ActiveBig(a, HashOf[f])) \in Nat
        /\ Cardinality(ActiveBig(a, HashOf[f])') \in Nat
    BY <2>1, <2>2, FS_Subset, FS_CardinalityType
  <2>5. QED
    BY <2>2, <2>3, <2>4
<1>2. QED
  BY <1>1 DEF BigCapPerState

(* tryAddBig activates at most the requested file, and a new one only      *)
(* below the cap.                                                          *)
LEMMA TryAddBigCap ==
    ASSUME TypeOK, SlotAccounting, BigCapPerState, NEW r \in Requests, TryAddBig(r)
    PROVE  BigCapPerState'
<1> DEFINE b == obj[r]
           g == req[r].file
<1>1. b \in Addrs /\ g \in Files
  BY HasLocals DEF TryAddBig
<1>2. bigPaths \in [Addrs -> [Files -> Int]]
  BY DEF TypeOK
<1>3. CASE BigFull(b, g) \/ bigPaths[b][g] > 0
  <2>1. \A a \in Addrs, f \in Files : bigPaths'[a][f] > 0 => bigPaths[a][f] > 0
    BY <1>1, <1>2, <1>3 DEF TryAddBig
  <2>2. QED
    BY <2>1, FewerActive
<1>4. CASE ~BigFull(b, g) /\ ~(bigPaths[b][g] > 0)
  <2>1. bigPaths' = [bigPaths EXCEPT ![b][g] = @ + 1]
    BY <1>4 DEF TryAddBig
  <2>2. bigPaths[b][g] = 0
    <3>1. bigPaths[b][g] = Cardinality(InBig(b, g))
      BY <1>1 DEF SlotAccounting
    <3>2. Cardinality(InBig(b, g)) \in Nat
      BY HoldersFinite, FS_CardinalityType
    <3>3. QED
      BY <1>4, <3>1, <3>2
  <2>3. SUFFICES ASSUME MaxBigFilesPerHash > 0, NEW a \in Addrs, NEW f \in Files
                 PROVE  Cardinality(ActiveBig(a, HashOf[f])') <= MaxBigFilesPerHash
    BY DEF BigCapPerState
  <2>4. CASE a = b /\ HashOf[f] = HashOf[g]
    <3>1. ActiveBig(a, HashOf[f])' = ActiveBig(b, HashOf[g]) \cup {g}
      <4>1. \A x \in Files : bigPaths'[b][x] > 0 <=> (bigPaths[b][x] > 0 \/ x = g)
        BY <1>1, <1>2, <2>1, <2>2
      <4>2. QED
        BY <1>1, <2>4, <4>1 DEF ActiveBig
    <3>2. g \notin ActiveBig(b, HashOf[g])
      BY <2>2 DEF ActiveBig
    <3>3. IsFiniteSet(ActiveBig(b, HashOf[g]))
      <4>1. ActiveBig(b, HashOf[g]) \in SUBSET Files
        BY DEF ActiveBig
      <4>2. QED
        BY <4>1, FileSizeCacheAssumption, FS_Subset
    <3>4. ~(Cardinality(ActiveBig(b, HashOf[g])) >= MaxBigFilesPerHash)
      BY <1>4, <2>2, <2>3 DEF BigFull
    <3>5. Cardinality(ActiveBig(b, HashOf[g]) \cup {g}) = Cardinality(ActiveBig(b, HashOf[g])) + 1
      BY <3>2, <3>3, FS_AddElement
    <3>6. Cardinality(ActiveBig(b, HashOf[g])) \in Nat /\ MaxBigFilesPerHash \in Nat
      BY <3>3, FS_CardinalityType, SessionLimiterAssumption
    <3>7. QED
      BY <3>1, <3>4, <3>5, <3>6
  <2>5. CASE ~(a = b /\ HashOf[f] = HashOf[g])
    <3>1. \A x \in Files : HashOf[x] = HashOf[f] => bigPaths'[a][x] = bigPaths[a][x]
      BY <1>1, <1>2, <2>1, <2>5
    <3>2. ActiveBig(a, HashOf[f])' = ActiveBig(a, HashOf[f])
      BY <3>1 DEF ActiveBig
    <3>3. QED
      BY <2>3, <3>2 DEF BigCapPerState
  <2>6. QED
    BY <2>4, <2>5
<1>5. QED
  BY <1>3, <1>4

LEMMA NextCap == Inv /\ BigCapPerState /\ [Next]_vars => BigCapPerState'
<1> SUFFICES ASSUME Inv, BigCapPerState, [Next]_vars PROVE BigCapPerState'
  OBVIOUS
<1>1. bigPaths \in [Addrs -> [Files -> Int]]
  BY DEF Inv, TypeOK
<1>2. CASE \E r \in Requests : TryAddBig(r)
  BY <1>2, TryAddBigCap DEF Inv
<1>3. ASSUME NEW r \in Requests, Unwind(r) \/ ReleaseBig(r)
      PROVE  BigCapPerState'
  <2>1. obj[r] \in Addrs /\ req[r].file \in Files
    BY <1>3, HasLocals DEF Unwind, ReleaseBig, Inv
  <2>2. bigPaths' = [bigPaths EXCEPT ![obj[r]][req[r].file] = @ - 1]
    BY <1>3 DEF Unwind, ReleaseBig, ReleaseHash
  <2>3. \A a \in Addrs, f \in Files : bigPaths'[a][f] > 0 => bigPaths[a][f] > 0
    BY <1>1, <2>1, <2>2
  <2>4. QED
    BY <2>3, FewerActive
<1>4. ASSUME NEW r \in Requests, NEW s \in Sessions, NEW g \in Files,
             NEW i \in Subnets \cup {NoIP}, GetSession(r, s, g, i)
      PROVE  BigCapPerState'
  <2>1. \/ UNCHANGED bigPaths
        \/ \E b \in Free : bigPaths' = [bigPaths EXCEPT ![b] = [f \in Files |-> 0]]
    BY <1>4 DEF GetSession, objects
  <2>2. \A a \in Addrs, f \in Files : bigPaths'[a][f] > 0 => bigPaths[a][f] > 0
    BY <1>1, <2>1 DEF Free
  <2>3. QED
    BY <2>2, FewerActive
<1>5. CASE UNCHANGED bigPaths
  BY <1>5, FewerActive
<1>6. QED
  BY <1>2, <1>3, <1>4, <1>5
     DEF Next, Step, Begin, Continue, vars, objects, Tick, AcquireAnonymous, ReleaseAnonymous, CheckTotal,
         Classify, CheckPath, TrackIP, AddTotal, AddConc, Respond, ReleaseConc,
         ReleaseTotal, Forget

LEMMA InitCap == Init => BigCapPerState
<1> SUFFICES ASSUME Init PROVE BigCapPerState
  OBVIOUS
<1>1. \A a \in Addrs, f \in Files : ActiveBig(a, HashOf[f]) = {}
  BY DEF Init, ActiveBig
<1>2. \A a \in Addrs, f \in Files : Cardinality(ActiveBig(a, HashOf[f])) = 0
  BY <1>1, FS_EmptySet
<1>3. QED
  BY <1>2, SessionLimiterAssumption DEF BigCapPerState

(* tryAddBig keeps its cap for any number of files, requests and limits:   *)
(* one session state never has more than max-big-files-per-hash distinct   *)
(* big files of a torrent active.                                          *)
THEOREM BigCapHolds == Spec => []BigCapPerState
BY InitCap, InitInv, NextInv, NextCap, PTL DEF Spec

-----------------------------------------------------------------------------
(* The IP window *)

(* A subnet admitted to a file has been recorded for it no earlier: every  *)
(* admission passes through trackIP, which records before it counts.       *)
AdmittedAreRecorded ==
    \A a \in Addrs, f \in Files, i \in Subnets : ips[a][f][i] <= recent[a][f][i]

IPInv == TypeOK /\ AdmittedAreRecorded /\ IPCapPerState

(* Ages that are nowhere smaller put no more subnets inside the window. *)
LEMMA WindowShrinks ==
    ASSUME NEW young \in [Subnets -> 0..Gone], NEW old \in [Subnets -> 0..Gone],
           \A i \in Subnets : young[i] <= old[i]
    PROVE  /\ Cardinality(InWindow(old)) \in Nat
           /\ Cardinality(InWindow(young)) \in Nat
           /\ Cardinality(InWindow(old)) <= Cardinality(InWindow(young))
<1>1. Window \in Nat /\ IsFiniteSet(Subnets)
  BY SessionLimiterAssumption
<1>2. InWindow(young) \subseteq Subnets /\ InWindow(old) \subseteq Subnets
  BY DEF InWindow
<1>3. InWindow(old) \subseteq InWindow(young)
  BY <1>1 DEF InWindow, Gone
<1>4. IsFiniteSet(InWindow(young)) /\ IsFiniteSet(InWindow(old))
  BY <1>1, <1>2, FS_Subset
<1>5. QED
  BY <1>3, <1>4, FS_Subset, FS_CardinalityType

LEMMA FreshWindowEmpty == Cardinality(InWindow(NoAges)) = 0
<1>1. InWindow(NoAges) = {}
  BY SessionLimiterAssumption DEF InWindow, NoAges, Gone
<1>2. QED
  BY <1>1, FS_EmptySet

(* A tick makes no age smaller and keeps their order. *)
LEMMA OlderMonotone ==
    ASSUME NEW young \in [Subnets -> 0..Gone], NEW old \in [Subnets -> 0..Gone],
           NEW i \in Subnets
    PROVE  /\ old[i] <= Older(old)[i]
           /\ young[i] <= old[i] => Older(young)[i] <= Older(old)[i]
<1>1. Gone \in Nat /\ young[i] \in 0..Gone /\ old[i] \in 0..Gone
  BY SessionLimiterAssumption DEF Gone
<1>2. /\ Older(young)[i] = IF young[i] < Gone THEN young[i] + 1 ELSE Gone
      /\ Older(old)[i] = IF old[i] < Gone THEN old[i] + 1 ELSE Gone
  BY DEF Older
<1>3. QED
  BY <1>1, <1>2

(* The clock ages both records alike. *)
LEMMA TickIP ==
    ASSUME IPInv, Tick
    PROVE  AdmittedAreRecorded' /\ IPCapPerState'
<1>1. TypeOK
  BY DEF IPInv
<1>2. \A a \in Addrs, f \in Files :
        /\ ips[a][f] \in [Subnets -> 0..Gone] /\ ips'[a][f] = Older(ips[a][f])
        /\ recent[a][f] \in [Subnets -> 0..Gone] /\ recent'[a][f] = Older(recent[a][f])
  BY <1>1 DEF TypeOK, Tick
<1>3. AdmittedAreRecorded'
  <2> SUFFICES ASSUME NEW a \in Addrs, NEW f \in Files, NEW i \in Subnets
               PROVE  ips'[a][f][i] <= recent'[a][f][i]
    BY DEF AdmittedAreRecorded
  <2>1. ips[a][f][i] <= recent[a][f][i]
    BY DEF IPInv, AdmittedAreRecorded
  <2>2. QED
    BY <1>2, <2>1, OlderMonotone
<1>4. ASSUME MaxIPs > 0, NEW a \in Addrs, NEW f \in Files
      PROVE  Cardinality(InWindow(recent'[a][f])) <= MaxIPs
  <2>1. /\ recent'[a][f] \in [Subnets -> 0..Gone]
        /\ \A i \in Subnets : recent[a][f][i] <= recent'[a][f][i]
    BY <1>2, AgesType, OlderMonotone
  <2>2. /\ Cardinality(InWindow(recent[a][f])) \in Nat
        /\ Cardinality(InWindow(recent'[a][f])) \in Nat
        /\ Cardinality(InWindow(recent'[a][f])) <= Cardinality(InWindow(recent[a][f]))
    BY <1>2, <2>1, WindowShrinks
  <2>3. Cardinality(InWindow(recent[a][f])) <= MaxIPs
    BY <1>4 DEF IPInv, IPCapPerState
  <2>4. QED
    BY <2>2, <2>3, SessionLimiterAssumption
<1>5. IPCapPerState'
  BY <1>4 DEF IPCapPerState, InWindow
<1>6. QED
  BY <1>3, <1>5

(* trackIP, refusing or admitting. *)
LEMMA TrackIPStep ==
    ASSUME IPInv, NEW r \in Requests, TrackIP(r)
    PROVE  AdmittedAreRecorded' /\ IPCapPerState'
<1> DEFINE b == obj[r]
           g == req[r].file
           j == req[r].ip
           seen == [ips[b][g] EXCEPT ![j] = 0]
<1>1. TypeOK /\ TypeOK'
  BY StepType DEF IPInv, Step, Begin, Continue
<1>2. b \in Addrs /\ g \in Files
  BY <1>1, HasLocals DEF TrackIP
<1>3. /\ ips \in [Addrs -> [Files -> [Subnets -> 0..Gone]]]
      /\ recent \in [Addrs -> [Files -> [Subnets -> 0..Gone]]]
      /\ ips' \in [Addrs -> [Files -> [Subnets -> 0..Gone]]]
      /\ recent' \in [Addrs -> [Files -> [Subnets -> 0..Gone]]]
      /\ Gone \in Nat
  BY <1>1, SessionLimiterAssumption DEF TypeOK, Gone
<1>4. ips' = [ips EXCEPT ![b][g] = seen]
  BY DEF TrackIP
<1>5. \A i \in Subnets : ips'[b][g][i] = IF i = j THEN 0 ELSE ips[b][g][i]
  BY <1>2, <1>3, <1>4
<1>6. \A a \in Addrs, f \in Files : ~(a = b /\ f = g) => ips'[a][f] = ips[a][f]
  BY <1>2, <1>3, <1>4
<1>7. CASE TooManyIPs(ips[b][g], seen)
  <2>1. UNCHANGED recent
    BY <1>7 DEF TrackIP
  <2>2. AdmittedAreRecorded'
    <3> SUFFICES ASSUME NEW a \in Addrs, NEW f \in Files, NEW i \in Subnets
                 PROVE  ips'[a][f][i] <= recent'[a][f][i]
      BY DEF AdmittedAreRecorded
    <3>1. ips[a][f][i] <= recent[a][f][i]
      BY DEF IPInv, AdmittedAreRecorded
    <3>2. recent[a][f][i] \in 0..Gone
      BY <1>3
    <3>3. ips'[a][f][i] = 0 \/ ips'[a][f][i] = ips[a][f][i]
      BY <1>5, <1>6
    <3>4. QED
      BY <1>3, <2>1, <3>1, <3>2, <3>3
  <2>3. QED
    BY <2>1, <2>2 DEF IPInv, IPCapPerState, InWindow
<1>8. CASE ~TooManyIPs(ips[b][g], seen)
  <2>1. recent' = [recent EXCEPT ![b][g][j] = 0]
    BY <1>8 DEF TrackIP
  <2>2. /\ \A i \in Subnets : recent'[b][g][i] = IF i = j THEN 0 ELSE recent[b][g][i]
        /\ \A a \in Addrs, f \in Files : ~(a = b /\ f = g) => recent'[a][f] = recent[a][f]
    BY <1>2, <1>3, <2>1
  <2>3. AdmittedAreRecorded'
    <3> SUFFICES ASSUME NEW a \in Addrs, NEW f \in Files, NEW i \in Subnets
                 PROVE  ips'[a][f][i] <= recent'[a][f][i]
      BY DEF AdmittedAreRecorded
    <3>1. ips[a][f][i] <= recent[a][f][i]
      BY DEF IPInv, AdmittedAreRecorded
    <3>2. QED
      BY <1>5, <1>6, <2>2, <3>1
  <2>4. ASSUME MaxIPs > 0, NEW a \in Addrs, NEW f \in Files
        PROVE  Cardinality(InWindow(recent'[a][f])) <= MaxIPs
    <3>1. CASE a = b /\ f = g
      <4>1. Cardinality(InWindow(recent'[b][g])) \in Nat
            /\ Cardinality(InWindow(ips'[b][g])) \in Nat
            /\ Cardinality(InWindow(recent'[b][g])) <= Cardinality(InWindow(ips'[b][g]))
        BY <1>2, <1>3, <2>3, WindowShrinks DEF AdmittedAreRecorded
      <4>2. ips'[b][g] = seen
        BY <1>2, <1>3, <1>4
      <4>3. ~(Cardinality(InWindow(ips'[b][g])) > MaxIPs)
        BY <1>8, <4>2 DEF TooManyIPs
      <4>4. QED
        BY <3>1, <4>1, <4>3, SessionLimiterAssumption
    <3>2. CASE ~(a = b /\ f = g)
      BY <2>2, <2>4, <3>2 DEF IPInv, IPCapPerState
    <3>3. QED
      BY <3>1, <3>2
  <2>5. IPCapPerState'
    BY <2>4 DEF IPCapPerState, InWindow
  <2>6. QED
    BY <2>3, <2>5
<1>9. QED
  BY <1>7, <1>8

(* A new session state has recorded and admitted nobody. *)
LEMMA GetSessionIP ==
    ASSUME IPInv, NEW r \in Requests, NEW s \in Sessions, NEW g \in Files,
           NEW j \in Subnets \cup {NoIP}, GetSession(r, s, g, j)
    PROVE  AdmittedAreRecorded' /\ IPCapPerState'
<1>1. CASE UNCHANGED <<ips, recent>>
  BY <1>1 DEF IPInv, AdmittedAreRecorded, IPCapPerState, InWindow
<1>2. CASE ~UNCHANGED <<ips, recent>>
  <2>1. PICK b \in Free : /\ ips' = [ips EXCEPT ![b] = [x \in Files |-> NoAges]]
                          /\ recent' = [recent EXCEPT ![b] = [x \in Files |-> NoAges]]
    BY <1>2 DEF GetSession, objects
  <2>2. /\ ips \in [Addrs -> [Files -> [Subnets -> 0..Gone]]]
        /\ recent \in [Addrs -> [Files -> [Subnets -> 0..Gone]]]
    BY DEF IPInv, TypeOK
  <2>3. \A a \in Addrs, f \in Files :
          \/ ips'[a][f] = ips[a][f] /\ recent'[a][f] = recent[a][f]
          \/ ips'[a][f] = NoAges /\ recent'[a][f] = NoAges
    BY <2>1, <2>2
  <2>4. \A i \in Subnets : NoAges[i] <= NoAges[i]
    BY SessionLimiterAssumption DEF NoAges, Gone
  <2>5. AdmittedAreRecorded'
    BY <2>3, <2>4 DEF IPInv, AdmittedAreRecorded
  <2>6. ASSUME MaxIPs > 0, NEW a \in Addrs, NEW f \in Files
        PROVE  Cardinality(InWindow(recent'[a][f])) <= MaxIPs
    <3>1. CASE recent'[a][f] = recent[a][f]
      BY <2>6, <3>1 DEF IPInv, IPCapPerState
    <3>2. CASE recent'[a][f] = NoAges
      BY <3>2, FreshWindowEmpty, SessionLimiterAssumption
    <3>3. QED
      BY <2>3, <3>1, <3>2
  <2>7. IPCapPerState'
    BY <2>6 DEF IPCapPerState, InWindow
  <2>8. QED
    BY <2>5, <2>7
<1>3. QED
  BY <1>1, <1>2

LEMMA NextIP == IPInv /\ [Next]_vars => IPInv'
<1> SUFFICES ASSUME IPInv, [Next]_vars PROVE IPInv'
  OBVIOUS
<1>1. TypeOK'
  BY NextType DEF IPInv
<1>2. CASE UNCHANGED <<ips, recent>>
  BY <1>1, <1>2 DEF IPInv, AdmittedAreRecorded, IPCapPerState, InWindow
<1>3. CASE Tick
  BY <1>1, <1>3, TickIP DEF IPInv
<1>4. CASE \E r \in Requests : TrackIP(r)
  BY <1>1, <1>4, TrackIPStep DEF IPInv
<1>5. CASE \E r \in Requests, s \in Sessions, g \in Files, j \in Subnets \cup {NoIP} :
              GetSession(r, s, g, j)
  BY <1>1, <1>5, GetSessionIP DEF IPInv
<1>6. QED
  BY <1>2, <1>3, <1>4, <1>5
     DEF Next, Step, Begin, Continue, vars, objects, AcquireAnonymous, ReleaseAnonymous, CheckTotal,
         Classify, TryAddBig, CheckPath, Unwind, AddTotal, AddConc, Respond,
         ReleaseConc, ReleaseBig, ReleaseTotal, Forget

(* Under any interleaving of any number of requests with the clock, one    *)
(* session state admits at most max-ips-per-session subnets to a file      *)
(* within a window.  The model-checked instance takes calls one at a time; *)
(* this theorem needs no such restriction.                                 *)
THEOREM IPCapKept == Spec => []IPCapPerState
<1>1. Init => IPInv
  <2> SUFFICES ASSUME Init PROVE IPInv
    OBVIOUS
  <2>1. \A a \in Addrs, f \in Files : ips[a][f] = NoAges /\ recent[a][f] = NoAges
    BY DEF Init
  <2>2. \A i \in Subnets : NoAges[i] <= NoAges[i]
    BY SessionLimiterAssumption DEF NoAges, Gone
  <2>3. AdmittedAreRecorded
    BY <2>1, <2>2 DEF AdmittedAreRecorded
  <2>4. IPCapPerState
    BY <2>1, FreshWindowEmpty, SessionLimiterAssumption DEF IPCapPerState
  <2>5. QED
    BY <2>3, <2>4, InitType DEF IPInv
<1>2. IPInv => IPCapPerState
  BY DEF IPInv
<1>3. QED
  BY <1>1, <1>2, NextIP, PTL DEF Spec

-----------------------------------------------------------------------------
(* The size cache *)

(* The cache holds, for a file, its size or that of something derived from *)
(* it by a service.                                                        *)
CacheHolds == \A f \in Files : cache[f] \in {0, SizeOf[f]} \cup ModSizes

LEMMA CaptureHolds ==
    ASSUME CacheTypeOK, CacheHolds, NEW f \in Files, CaptureFileSize(f)
    PROVE  CacheHolds'
<1>1. PICK resp \in UpstreamResponses(f) : Set(f, SizeFromHeaders(resp))
  BY DEF CaptureFileSize
<1>2. SizeFromHeaders(resp) \in {0, SizeOf[f]} \cup ModSizes
  BY FileSizeCacheAssumption DEF UpstreamResponses, SizeFromHeaders
<1>3. QED
  BY <1>1, <1>2 DEF Set, CacheHolds, CacheTypeOK

LEMMA NextHolds == TypeOK /\ CacheHolds /\ [Next]_vars => CacheHolds'
<1> SUFFICES ASSUME TypeOK, CacheHolds, [Next]_vars PROVE CacheHolds'
  OBVIOUS
<1>1. ASSUME NEW r \in Requests, Respond(r) PROVE CacheHolds'
  BY <1>1, HasLocals, CaptureHolds DEF Respond, TypeOK
<1>2. CASE UNCHANGED cache
  BY <1>2 DEF CacheHolds
<1>3. QED
  BY <1>1, <1>2 DEF Next, Step, Begin, Continue, vars, Tick, AcquireAnonymous, GetSession,
     CheckTotal, Classify, TryAddBig, CheckPath, TrackIP, Unwind, AddTotal, AddConc,
     ReleaseAnonymous, ReleaseConc, ReleaseBig, ReleaseTotal, Forget

(* No sequence of responses and evictions makes a file at or above the     *)
(* threshold pass for a light one, but for the output of a service run on  *)
(* it, whose length is filed under the same key.                           *)
THEOREM LightnessExplained == Spec => []LightOnlyByService
<1>1. Init => TypeOK /\ CacheHolds
  BY InitType DEF Init, CacheInit, CacheHolds
<1>2. TypeOK /\ CacheHolds => LightOnlyByService
  <2> SUFFICES ASSUME TypeOK, CacheHolds, NEW f \in Files \ LightFiles,
                      SizeOf[f] >= BigFileThreshold, cache[f] > 0, ~(cache[f] >= BigFileThreshold)
               PROVE  cache[f] \in ModSizes
    BY DEF LightOnlyByService, IsBigFile
  <2>1. cache[f] \in {0, SizeOf[f]} \cup ModSizes
    BY DEF CacheHolds
  <2>2. QED
    BY <2>1
<1>3. TypeOK /\ CacheHolds /\ [Next]_vars => (TypeOK /\ CacheHolds)'
  BY NextType, NextHolds
<1>4. QED
  BY <1>1, <1>2, <1>3, PTL DEF Spec

-----------------------------------------------------------------------------
(* Refusals *)

LEMMA StepOthers ==
    ASSUME TypeOK, NEW r \in Requests, Step(r)
    PROVE  OthersKeep(r)
<1>1. CASE AcquireAnonymous(r) \/ ReleaseAnonymous(r) \/ AddTotal(r) \/ AddConc(r)
  BY <1>1, GotoLocals DEF AcquireAnonymous, ReleaseAnonymous, AddTotal, AddConc
<1>2. CASE \E s \in Sessions, f \in Files, i \in Subnets \cup {NoIP} : GetSession(r, s, f, i)
  BY <1>2 DEF GetSession, Goto, TypeOK, OthersKeep
<1>3. CASE CheckTotal(r) \/ TryAddBig(r)
  BY <1>3, ReturnLocals, GotoLocals DEF CheckTotal, TryAddBig
<1>4. CASE Classify(r)
  BY <1>4 DEF Classify, Goto, TypeOK, OthersKeep
<1>5. CASE CheckPath(r)
  BY <1>5, ReturnLocals, GotoLocals DEF CheckPath, Refuse
<1>6. CASE TrackIP(r)
  BY <1>6, ReturnLocals, GotoLocals DEF TrackIP, Refuse
<1>7. CASE Unwind(r) \/ Forget(r)
  BY <1>7, ReturnLocals DEF Unwind, Forget
<1>8. CASE Respond(r)
  BY <1>8 DEF Respond, OthersKeep
<1>9. CASE ReleaseConc(r) \/ ReleaseBig(r) \/ ReleaseTotal(r)
  BY <1>9, ReturnLocals, GotoLocals DEF ReleaseConc, ReleaseBig, ReleaseTotal
<1>10. QED
  BY <1>1, <1>2, <1>3, <1>4, <1>5, <1>6, <1>7, <1>8, <1>9 DEF Step, Begin, Continue

(* The file counters that are positive are the files somebody holds. *)
LEMMA PositiveIsHeld ==
    ASSUME SlotAccounting, NEW a \in Addrs, NEW f \in Files
    PROVE  /\ bigPaths[a][f] > 0 <=> InBig(a, f) # {}
           /\ bigPaths[a][f] = 0 <=> InBig(a, f) = {}
           /\ conc[a][f] = Cardinality(InConc(a, f)) /\ conc[a][f] \in Nat
           /\ total[a] = Cardinality(InTotal(a)) /\ total[a] \in Nat
<1>1. /\ bigPaths[a][f] = Cardinality(InBig(a, f)) /\ conc[a][f] = Cardinality(InConc(a, f))
      /\ total[a] = Cardinality(InTotal(a))
  BY DEF SlotAccounting
<1>2. /\ IsFiniteSet(InBig(a, f)) /\ Cardinality(InBig(a, f)) \in Nat
      /\ Cardinality(InConc(a, f)) \in Nat /\ Cardinality(InTotal(a)) \in Nat
  BY HoldersFinite, FS_CardinalityType
<1>3. InBig(a, f) = {} <=> Cardinality(InBig(a, f)) = 0
  BY <1>2, FS_EmptySet
<1>4. QED
  BY <1>1, <1>2, <1>3

Justified(r) ==
    /\ (pc[r] = "total" /\ pc'[r] = "idle")
         => Cardinality(InTotal(obj[r]) \ {r}) >= MaxTotal
    /\ (pc[r] = "hash" /\ pc'[r] = "idle")
         => Cardinality({f \in Files \ {req[r].file} :
                           /\ HashOf[f] = HashOf[req[r].file]
                           /\ InBig(obj[r], f) # {}}) >= MaxBigFilesPerHash
    /\ (pc[r] = "path" /\ pc'[r] \in {"idle", "unwind"})
         => Cardinality(InConc(obj[r], req[r].file) \ {r}) >= MaxPerPath

LEMMA StepJustified ==
    ASSUME Inv, NEW r \in Requests, Step(r)
    PROVE  Justified(r)
<1>1. TypeOK /\ SlotAccounting
  BY DEF Inv
<1>2. ASSUME pc[r] = "total", pc'[r] = "idle"
      PROVE  Cardinality(InTotal(obj[r]) \ {r}) >= MaxTotal
  <2>1. obj[r] \in Addrs
    BY <1>1, <1>2, HasLocals
  <2>2. CheckTotal(r)
    BY <1>2 DEF Step, Begin, Continue, AcquireAnonymous, GetSession, CheckTotal, Classify,
       TryAddBig, CheckPath, TrackIP, Unwind, AddTotal, AddConc, Respond, ReleaseAnonymous,
       ReleaseConc, ReleaseBig, ReleaseTotal, Forget
  <2>3. TotalFull(obj[r])
    <3>1. CASE ~TotalFull(obj[r])
      BY <1>1, <1>2, <2>2, <3>1 DEF CheckTotal, Goto, TypeOK
    <3>2. QED
      BY <3>1
  <2>4. InTotal(obj[r]) \ {r} = InTotal(obj[r])
    BY <1>2 DEF InTotal
  <2>5. total[obj[r]] = Cardinality(InTotal(obj[r]))
    BY <1>1, <2>1 DEF SlotAccounting
  <2>6. QED
    BY <2>3, <2>4, <2>5 DEF TotalFull
<1>3. ASSUME pc[r] = "hash", pc'[r] = "idle"
      PROVE  Cardinality({f \in Files \ {req[r].file} :
                            /\ HashOf[f] = HashOf[req[r].file]
                            /\ InBig(obj[r], f) # {}}) >= MaxBigFilesPerHash
  <2>1. obj[r] \in Addrs /\ req[r].file \in Files
    BY <1>1, <1>3, HasLocals
  <2>2. TryAddBig(r)
    BY <1>3 DEF Step, Begin, Continue, AcquireAnonymous, GetSession, CheckTotal, Classify,
       TryAddBig, CheckPath, TrackIP, Unwind, AddTotal, AddConc, Respond, ReleaseAnonymous,
       ReleaseConc, ReleaseBig, ReleaseTotal, Forget
  <2>3. BigFull(obj[r], req[r].file)
    <3>1. CASE ~BigFull(obj[r], req[r].file)
      BY <1>1, <1>3, <2>2, <3>1 DEF TryAddBig, Goto, TypeOK
    <3>2. QED
      BY <3>1
  <2>4. \A f \in Files : bigPaths[obj[r]][f] > 0 <=> InBig(obj[r], f) # {}
    BY <1>1, <2>1, PositiveIsHeld
  <2>5. ~(bigPaths[obj[r]][req[r].file] > 0)
    BY <2>3 DEF BigFull
  <2>6. ActiveBig(obj[r], HashOf[req[r].file])
          = {f \in Files \ {req[r].file} : /\ HashOf[f] = HashOf[req[r].file]
                                           /\ InBig(obj[r], f) # {}}
    BY <2>4, <2>5 DEF ActiveBig
  <2>7. QED
    BY <2>3, <2>6 DEF BigFull
<1>4. ASSUME pc[r] = "path", pc'[r] \in {"idle", "unwind"}
      PROVE  Cardinality(InConc(obj[r], req[r].file) \ {r}) >= MaxPerPath
  <2>1. obj[r] \in Addrs /\ req[r].file \in Files
    BY <1>1, <1>4, HasLocals
  <2>2. CheckPath(r)
    BY <1>4 DEF Step, Begin, Continue, AcquireAnonymous, GetSession, CheckTotal, Classify,
       TryAddBig, CheckPath, TrackIP, Unwind, AddTotal, AddConc, Respond, ReleaseAnonymous,
       ReleaseConc, ReleaseBig, ReleaseTotal, Forget
  <2>3. PathFull(obj[r], req[r].file)
    <3>1. CASE ~PathFull(obj[r], req[r].file)
      BY <1>1, <1>4, <2>2, <3>1 DEF CheckPath, Goto, TypeOK
    <3>2. QED
      BY <3>1
  <2>4. InConc(obj[r], req[r].file) \ {r} = InConc(obj[r], req[r].file)
    BY <1>4 DEF InConc
  <2>5. conc[obj[r]][req[r].file] = Cardinality(InConc(obj[r], req[r].file))
    BY <1>1, <2>1 DEF SlotAccounting
  <2>6. QED
    BY <2>3, <2>4, <2>5 DEF PathFull
<1>5. QED
  BY <1>2, <1>3, <1>4 DEF Justified

LEMMA NextJustified == Inv /\ [Next]_vars => [\A r \in Requests : Justified(r)]_vars
<1> SUFFICES ASSUME Inv, Next, NEW r \in Requests PROVE Justified(r)
  OBVIOUS
<1>1. CASE Step(r)
  BY <1>1, StepJustified
<1>2. ASSUME NEW q \in Requests, Step(q), q # r PROVE Justified(r)
  <2>1. pc'[r] = pc[r]
    BY <1>2, StepOthers DEF Inv, OthersKeep
  <2>2. QED
    BY <2>1 DEF Justified
<1>3. CASE Tick
  <2>1. pc' = pc
    BY <1>3 DEF Tick
  <2>2. QED
    BY <2>1 DEF Justified
<1>4. QED
  BY <1>1, <1>2, <1>3 DEF Next

(* A 429 is never spurious, for any number of requests and any limits: the *)
(* counter that made Acquire refuse was held up by that many OTHER         *)
(* requests at the moment it was read.                                     *)
THEOREM NeverSpurious == Spec => RefusalsJustified
<1>1. Inv /\ [Next]_vars =>
        [\A r \in Requests :
           /\ (pc[r] = "total" /\ pc'[r] = "idle")
                => Cardinality(InTotal(obj[r]) \ {r}) >= MaxTotal
           /\ (pc[r] = "hash" /\ pc'[r] = "idle")
                => Cardinality({f \in Files \ {req[r].file} :
                                  /\ HashOf[f] = HashOf[req[r].file]
                                  /\ InBig(obj[r], f) # {}}) >= MaxBigFilesPerHash
           /\ (pc[r] = "path" /\ pc'[r] \in {"idle", "unwind"})
                => Cardinality(InConc(obj[r], req[r].file) \ {r}) >= MaxPerPath]_vars
  BY NextJustified DEF Justified
<1>2. QED
  BY <1>1, InitInv, NextInv, PTL DEF Spec, RefusalsJustified

-----------------------------------------------------------------------------
(* The sessions map *)

(* A request that has passed the checks comes to release its slot; one     *)
(* that has not may be refused, and then deletes nothing.                  *)
Committed == {"addTotal", "addConc", "serving", "releaseHash", "releaseTotal", "forget"}
Trying == {"total", "classify", "hash", "path", "ips"}

WillForget(a) == \E r \in Requests : obj[r] = a /\ pc[r] \in Committed

(* Nobody has been admitted to the session state, and nobody refused but   *)
(* for big files: the first request to reach trackIP will be admitted.     *)
Untouched(a) ==
    /\ \A r \in Requests : obj[r] = a => pc[r] \in Trying
    /\ \A f \in Files : ips[a][f] = NoAges

Mapped(s) ==
    sessions[s] # Null =>
        \/ WillForget(sessions[s])
        \/ Untouched(sessions[s]) /\ \E r \in Requests : obj[r] = sessions[s]

AllMapped == \A s \in Sessions : Mapped(s)

(* The requests on a mapped session state are those of its session. *)
Owned == \A r \in Requests, s \in Sessions :
            (obj[r] # Null /\ sessions[s] = obj[r]) => req[r].sid = s

AsksIPs == \A r \in Requests : pc[r] = "ips" => MaxIPs > 0 /\ req[r].ip # NoIP

LeakInv == Inv /\ AllMapped /\ Owned /\ AsksIPs

LEMMA LocalsByLabel ==
    ASSUME TypeOK, NEW r \in Requests
    PROVE  /\ pc[r] \in Labels
           /\ pc[r] \in {"idle", "unlimited"} <=> obj[r] = Null
           /\ pc[r] \notin {"idle", "unlimited"} <=> obj[r] \in Addrs
           /\ \A s \in Sessions : sessions[s] \in Addrs \cup {Null}
  BY SessionLimiterAssumption DEF TypeOK

(* A step in which r goes on and leaves no session state. *)
LEMMA Progress ==
    ASSUME TypeOK, AllMapped, NEW r \in Requests, OthersKeep(r), UNCHANGED sessions,
           obj'[r] = obj[r],
           \A a \in Addrs : a # obj[r] => ips'[a] = ips[a],
           \/ pc'[r] \in Committed
           \/ pc[r] \in Trying /\ pc'[r] \in Trying /\ UNCHANGED ips
           \/ pc[r] \in {"idle", "unlimited"} /\ pc'[r] \in {"idle", "unlimited"}
    PROVE  AllMapped'
<1> SUFFICES ASSUME NEW s \in Sessions, sessions[s] # Null PROVE Mapped(s)'
  BY DEF AllMapped, Mapped
<1> DEFINE a == sessions[s]
<1>1. a \in Addrs /\ Null \notin Addrs
  BY LocalsByLabel, SessionLimiterAssumption
<1>2. Mapped(s)
  BY DEF AllMapped
<1>3. CASE obj[r] = a /\ pc'[r] \in Committed
  BY <1>3 DEF Mapped, WillForget
<1>4. CASE obj[r] = a /\ pc'[r] \notin Committed
  <2>1. pc[r] \in Trying /\ pc'[r] \in Trying /\ UNCHANGED ips
    BY <1>1, <1>4, LocalsByLabel
  <2>2. CASE WillForget(a)
    <3>1. PICK q \in Requests : obj[q] = a /\ pc[q] \in Committed
      BY <2>2 DEF WillForget
    <3>2. q # r
      BY <2>1, <3>1 DEF Trying, Committed
    <3>3. QED
      BY <3>1, <3>2 DEF OthersKeep, Mapped, WillForget
  <2>3. CASE Untouched(a)
    <3>1. \A q \in Requests : obj'[q] = a => pc'[q] \in Trying
      BY <2>1, <2>3 DEF Untouched, OthersKeep
    <3>2. QED
      BY <1>4, <2>1, <2>3, <3>1 DEF Untouched, Mapped
  <2>4. QED
    BY <1>2, <2>2, <2>3 DEF Mapped
<1>5. CASE obj[r] # a
  <2>1. \A q \in Requests : obj[q] = a => q # r /\ obj'[q] = a /\ pc'[q] = pc[q]
    BY <1>5 DEF OthersKeep
  <2>2. \A q \in Requests : obj'[q] = a => q # r /\ obj[q] = a /\ pc'[q] = pc[q]
    BY <1>5 DEF OthersKeep
  <2>3. ips'[a] = ips[a]
    BY <1>1, <1>5
  <2>4. CASE WillForget(a)
    BY <2>1, <2>4 DEF WillForget, Mapped
  <2>5. CASE Untouched(a) /\ \E q \in Requests : obj[q] = a
    BY <2>1, <2>2, <2>3, <2>5 DEF Untouched, Mapped
  <2>6. QED
    BY <1>2, <2>4, <2>5 DEF Mapped
<1>6. QED
  BY <1>3, <1>4, <1>5

(* A step in which r leaves its session state, or gives up on it. *)
LEMMA Leaves ==
    ASSUME TypeOK, AllMapped, NEW r \in Requests, OthersKeep(r),
           \A s \in Sessions : sessions'[s] \in {sessions[s], Null},
           obj'[r] \in {obj[r], Null},
           \A a \in Addrs : a # obj[r] => ips'[a] = ips[a],
           \A s \in Sessions : (sessions'[s] = obj[r] /\ sessions'[s] # Null) =>
              \/ \E q \in Requests : q # r /\ obj[q] = obj[r] /\ pc[q] \in Committed
              \/ /\ Untouched(obj[r]) /\ UNCHANGED ips /\ obj'[r] = Null
                 /\ \E q \in Requests : q # r /\ obj[q] = obj[r]
    PROVE  AllMapped'
<1> SUFFICES ASSUME NEW s \in Sessions, sessions'[s] # Null PROVE Mapped(s)'
  BY DEF AllMapped, Mapped
<1> DEFINE a == sessions[s]
<1>1. a \in Addrs /\ Null \notin Addrs /\ sessions'[s] = a
  BY LocalsByLabel, SessionLimiterAssumption
<1>2. Mapped(s)
  BY DEF AllMapped
<1>3. CASE obj[r] = a
  <2>1. CASE \E q \in Requests : q # r /\ obj[q] = obj[r] /\ pc[q] \in Committed
    BY <1>1, <1>3, <2>1 DEF OthersKeep, Mapped, WillForget
  <2>2. CASE /\ Untouched(obj[r]) /\ UNCHANGED ips /\ obj'[r] = Null
             /\ \E q \in Requests : q # r /\ obj[q] = obj[r]
    <3>1. \A q \in Requests : obj'[q] = a => pc'[q] \in Trying
      BY <1>1, <1>3, <2>2 DEF Untouched, OthersKeep
    <3>2. \E q \in Requests : obj'[q] = a
      BY <1>3, <2>2 DEF OthersKeep
    <3>3. QED
      BY <1>1, <1>3, <2>2, <3>1, <3>2 DEF Untouched, Mapped
  <2>3. QED
    BY <1>1, <1>3, <2>1, <2>2
<1>4. CASE obj[r] # a
  <2>1. \A q \in Requests : obj[q] = a => q # r /\ obj'[q] = a /\ pc'[q] = pc[q]
    BY <1>4 DEF OthersKeep
  <2>2. \A q \in Requests : obj'[q] = a => q # r /\ obj[q] = a /\ pc'[q] = pc[q]
    BY <1>1, <1>4 DEF OthersKeep
  <2>3. ips'[a] = ips[a]
    BY <1>1, <1>4
  <2>4. CASE WillForget(a)
    BY <1>1, <2>1, <2>4 DEF WillForget, Mapped
  <2>5. CASE Untouched(a) /\ \E q \in Requests : obj[q] = a
    BY <1>1, <2>1, <2>2, <2>3, <2>5 DEF Untouched, Mapped
  <2>6. QED
    BY <1>2, <2>4, <2>5 DEF Mapped
<1>5. QED
  BY <1>3, <1>4

(* Somebody else is counted. *)
LEMMA AnotherHolds ==
    ASSUME NEW S, IsFiniteSet(S), NEW r, NEW n \in Int, Cardinality(S) >= n,
           n > 1 \/ (n > 0 /\ r \notin S)
    PROVE  \E q \in S : q # r
<1>1. Cardinality({}) = 0 /\ Cardinality({r}) = 1 /\ Cardinality(S) \in Nat
  BY FS_EmptySet, FS_Singleton, FS_CardinalityType
<1>2. S # {} /\ S # {r}
  BY <1>1
<1>3. QED
  BY <1>2

LEMMA TrackIPLeak ==
    ASSUME LeakInv, NEW r \in Requests, TrackIP(r)
    PROVE  AllMapped'
<1> DEFINE a == obj[r]
           f == req[r].file
           i == req[r].ip
           ages == [ips[a][f] EXCEPT ![i] = 0]
<1>1. TypeOK /\ AllMapped /\ pc[r] = "ips" /\ MaxIPs > 0
  BY DEF LeakInv, Inv, AsksIPs, TrackIP
<1>2. a \in Addrs /\ f \in Files /\ i \in Subnets
  BY <1>1, HasLocals DEF LeakInv, AsksIPs
<1>3. OthersKeep(r) /\ UNCHANGED sessions
  BY <1>1, StepOthers DEF TrackIP, Step, Continue
<1>4. ips' = [ips EXCEPT ![a][f] = ages] /\ \A b \in Addrs : b # a => ips'[b] = ips[b]
  BY <1>1, <1>2 DEF TrackIP, TypeOK
<1>5. CASE TooManyIPs(ips[a][f], ages)
  <2>1. ~Untouched(a)
    <3> SUFFICES ASSUME ips[a][f] = NoAges PROVE FALSE
      BY <1>2 DEF Untouched
    <3>1. InWindow(ages) = {i}
      <4>1. \A j \in Subnets : ages[j] = IF j = i THEN 0 ELSE Gone
        BY <1>2 DEF NoAges
      <4>2. 0 <= Window /\ ~(Gone <= Window)
        BY SessionLimiterAssumption DEF Gone
      <4> HIDE DEF ages, i
      <4>3. QED
        BY <1>2, <4>1, <4>2 DEF InWindow
    <3>2. Cardinality(InWindow(ages)) = 1
      BY <3>1, FS_Singleton
    <3>3. QED
      BY <1>1, <1>5, <3>2, SessionLimiterAssumption DEF TooManyIPs
  <2>2. obj'[r] \in {obj[r], Null}
    BY <1>1, <1>5, ReturnLocals, GotoLocals DEF TrackIP, Refuse
  <2>3. ASSUME NEW s \in Sessions, sessions'[s] = a
        PROVE  \E q \in Requests : q # r /\ obj[q] = a /\ pc[q] \in Committed
    <3>1. WillForget(a)
      BY <1>2, <1>3, <2>1, <2>3, SessionLimiterAssumption DEF LeakInv, AllMapped, Mapped
    <3>2. QED
      BY <1>1, <3>1 DEF WillForget, Committed
  <2>4. QED
    BY <1>1, <1>3, <1>4, <2>2, <2>3, Leaves
<1>6. CASE ~TooManyIPs(ips[a][f], ages)
  <2>1. pc'[r] = "addTotal" /\ obj'[r] = obj[r]
    BY <1>1, <1>6, GotoLocals DEF TrackIP
  <2>2. QED
    BY <1>1, <1>3, <1>4, <2>1, Progress DEF Committed
<1>7. QED
  BY <1>5, <1>6

LEMMA TryAddBigLeak ==
    ASSUME LeakInv, NEW r \in Requests, TryAddBig(r)
    PROVE  AllMapped'
<1> DEFINE a == obj[r]
           f == req[r].file
<1>1. TypeOK /\ SlotAccounting /\ AllMapped /\ pc[r] = "hash"
  BY DEF LeakInv, Inv, TryAddBig
<1>2. a \in Addrs /\ f \in Files
  BY <1>1, HasLocals
<1>3. OthersKeep(r) /\ UNCHANGED <<sessions, ips>>
  BY <1>1, StepOthers DEF TryAddBig, Step, Continue
<1>4. CASE BigFull(a, f)
  <2>1. obj'[r] = Null
    BY <1>1, <1>4, ReturnLocals DEF TryAddBig
  <2>2. PICK g \in Files : bigPaths[a][g] > 0
    <3>1. ActiveBig(a, HashOf[f]) # {}
      BY <1>4, FS_EmptySet, SessionLimiterAssumption DEF BigFull
    <3>2. QED
      BY <3>1 DEF ActiveBig
  <2>3. PICK q \in InBig(a, g) : TRUE
    BY <1>1, <1>2, <2>2, PositiveIsHeld
  <2>4. q \in Requests /\ q # r /\ obj[q] = a
    BY <1>1, <2>3 DEF InBig
  <2>5. ASSUME NEW s \in Sessions, sessions'[s] = a
        PROVE  \/ \E p \in Requests : p # r /\ obj[p] = a /\ pc[p] \in Committed
               \/ Untouched(a)
    <3>1. WillForget(a) \/ Untouched(a)
      BY <1>1, <1>2, <1>3, <2>5, SessionLimiterAssumption DEF AllMapped, Mapped
    <3>2. QED
      BY <1>1, <3>1 DEF WillForget, Committed
  <2>6. QED
    BY <1>1, <1>3, <2>1, <2>4, <2>5, Leaves
<1>5. CASE ~BigFull(a, f)
  <2>1. pc'[r] = "path" /\ obj'[r] = obj[r]
    BY <1>1, <1>5, GotoLocals DEF TryAddBig
  <2>2. QED
    BY <1>1, <1>3, <2>1, Progress DEF Trying
<1>6. QED
  BY <1>4, <1>5

LEMMA CheckLeak ==
    ASSUME LeakInv, NEW r \in Requests, CheckTotal(r) \/ CheckPath(r)
    PROVE  AllMapped'
<1> USE DEF objects
<1> DEFINE a == obj[r]
           f == req[r].file
<1>1. TypeOK /\ SlotAccounting /\ AllMapped /\ pc[r] \in {"total", "path"}
  BY DEF LeakInv, Inv, CheckTotal, CheckPath
<1>2. a \in Addrs /\ f \in Files
  BY <1>1, HasLocals
<1>3. OthersKeep(r) /\ UNCHANGED <<sessions, ips>>
  BY <1>1, StepOthers DEF CheckTotal, CheckPath, Step, Continue
<1>4. ASSUME \E q \in Requests : q # r /\ obj[q] = a /\ pc[q] \in Committed, obj'[r] \in {obj[r], Null}
      PROVE  AllMapped'
  BY <1>1, <1>3, <1>4, Leaves
<1>5. CASE CheckTotal(r) /\ TotalFull(a)
  <2>1. obj'[r] = Null /\ pc[r] = "total"
    BY <1>1, <1>5, ReturnLocals DEF CheckTotal
  <2>2. Cardinality(InTotal(a)) > 0 /\ IsFiniteSet(InTotal(a))
    BY <1>1, <1>2, <1>5, PositiveIsHeld, HoldersFinite, SessionLimiterAssumption DEF TotalFull
  <2>3. PICK q \in InTotal(a) : TRUE
    BY <2>2, FS_EmptySet
  <2>4. q \in Requests /\ q # r /\ obj[q] = a /\ pc[q] \in Committed
    BY <2>1, <2>3 DEF InTotal, Committed
  <2>5. QED
    BY <1>4, <2>1, <2>4
<1>6. CASE CheckPath(r) /\ PathFull(a, f)
  <2>1. obj'[r] \in {obj[r], Null} /\ pc[r] = "path"
    BY <1>1, <1>6, ReturnLocals, GotoLocals DEF CheckPath, Refuse
  <2>2. Cardinality(InConc(a, f)) > 0
    BY <1>1, <1>2, <1>6, PositiveIsHeld, SessionLimiterAssumption DEF PathFull
  <2>3. PICK q \in InConc(a, f) : TRUE
    BY <2>2, FS_EmptySet
  <2>4. q \in Requests /\ q # r /\ obj[q] = a /\ pc[q] \in Committed
    BY <2>1, <2>3 DEF InConc, Committed
  <2>5. QED
    BY <1>4, <2>1, <2>4
<1>7. CASE (CheckTotal(r) /\ ~TotalFull(a)) \/ (CheckPath(r) /\ ~PathFull(a, f))
  <2>1. pc'[r] \in {"classify", "ips", "addTotal"} /\ obj'[r] = obj[r]
    BY <1>1, <1>7, GotoLocals DEF CheckTotal, CheckPath
  <2>2. QED
    BY <1>1, <1>3, <2>1, Progress DEF Trying, Committed
<1>8. QED
  BY <1>5, <1>6, <1>7

LEMMA ReleaseTotalLeak ==
    ASSUME LeakInv, NEW r \in Requests, ReleaseTotal(r)
    PROVE  AllMapped'
<1> DEFINE a == obj[r]
<1>1. TypeOK /\ SlotAccounting /\ AllMapped /\ pc[r] = "releaseTotal"
  BY DEF LeakInv, Inv, ReleaseTotal
<1>2. a \in Addrs
  BY <1>1, HasLocals
<1>3. OthersKeep(r) /\ UNCHANGED <<sessions, ips>>
  BY <1>1, StepOthers DEF ReleaseTotal, Step, Continue
<1>4. CASE LastOut(a)
  <2>1. pc'[r] = "forget" /\ obj'[r] = obj[r]
    BY <1>1, <1>4, GotoLocals DEF ReleaseTotal
  <2>2. QED
    BY <1>1, <1>3, <2>1, Progress DEF Committed
<1>5. CASE ~LastOut(a)
  <2>1. obj'[r] = Null
    BY <1>1, <1>5, ReturnLocals DEF ReleaseTotal
  <2>2. total[a] = Cardinality(InTotal(a)) /\ IsFiniteSet(InTotal(a)) /\ total[a] \in Int
    BY <1>1, <1>2, HoldersFinite DEF SlotAccounting, TypeOK
  <2>3. Cardinality(InTotal(a)) >= 2
    BY <1>5, <2>2 DEF LastOut
  <2>4. PICK q \in InTotal(a) : q # r
    BY <2>2, <2>3, AnotherHolds
  <2>5. q \in Requests /\ obj[q] = a /\ pc[q] \in Committed
    BY <2>4 DEF InTotal, Committed
  <2>6. QED
    BY <1>1, <1>3, <2>1, <2>4, <2>5, Leaves
<1>6. QED
  BY <1>4, <1>5

LEMMA ForgetLeak ==
    ASSUME LeakInv, NEW r \in Requests, Forget(r)
    PROVE  AllMapped'
<1> DEFINE a == obj[r]
<1>1. TypeOK /\ SlotAccounting /\ AllMapped /\ Owned /\ pc[r] = "forget" /\ obj'[r] = Null
  BY ReturnLocals DEF LeakInv, Inv, Forget
<1>2. a \in Addrs /\ req[r].sid \in Sessions
  BY <1>1, HasLocals
<1>3. OthersKeep(r) /\ UNCHANGED ips
  BY <1>1, StepOthers DEF Forget, objects, Step, Continue
<1>4. CASE total[a] <= 0
  <2>1. sessions' = [sessions EXCEPT ![req[r].sid] = Null]
    BY <1>4 DEF Forget
  <2>2. \A s \in Sessions : sessions'[s] = IF s = req[r].sid THEN Null ELSE sessions[s]
    BY <2>1 DEF LeakInv, Inv, TypeOK
  <2>3. \A s \in Sessions : s # req[r].sid => sessions[s] # a
    BY <1>1, <1>2, SessionLimiterAssumption DEF Owned
  <2>4. \A s \in Sessions : sessions'[s] \in {sessions[s], Null} /\ sessions'[s] # a
    BY <1>2, <2>2, <2>3, SessionLimiterAssumption
  <2>5. QED
    BY <1>1, <1>3, <2>4, Leaves
<1>5. CASE ~(total[a] <= 0)
  <2>1. UNCHANGED sessions
    BY <1>5 DEF Forget
  <2>2. Cardinality(InTotal(a)) > 0
    BY <1>1, <1>2, <1>5 DEF SlotAccounting, TypeOK
  <2>3. PICK q \in InTotal(a) : TRUE
    BY <2>2, FS_EmptySet
  <2>4. q \in Requests /\ q # r /\ obj[q] = a /\ pc[q] \in Committed
    BY <1>1, <2>3 DEF InTotal, Committed
  <2>5. QED
    BY <1>1, <1>3, <2>1, <2>4, Leaves
<1>6. QED
  BY <1>4, <1>5

LEMMA UnwindLeak ==
    ASSUME LeakInv, NEW r \in Requests, Unwind(r)
    PROVE  AllMapped'
<1> DEFINE a == obj[r]
<1>1. TypeOK /\ AllMapped /\ pc[r] = "unwind" /\ obj'[r] = Null
  BY ReturnLocals DEF LeakInv, Inv, Unwind
<1>2. a \in Addrs
  BY <1>1, HasLocals
<1>3. OthersKeep(r) /\ UNCHANGED <<sessions, ips>>
  BY <1>1, StepOthers DEF Unwind, Step, Continue
<1>4. ASSUME NEW s \in Sessions, sessions'[s] = a
      PROVE  \E q \in Requests : q # r /\ obj[q] = a /\ pc[q] \in Committed
  <2>1. ~Untouched(a)
    BY <1>1 DEF Untouched, Trying
  <2>2. WillForget(a)
    BY <1>1, <1>2, <1>3, <1>4, <2>1, SessionLimiterAssumption DEF AllMapped, Mapped
  <2>3. QED
    BY <1>1, <2>2 DEF WillForget, Committed
<1>5. QED
  BY <1>1, <1>3, <1>4, Leaves

(* A request joins the state of its session, or makes a new one. *)
LEMMA GetSessionLeak ==
    ASSUME LeakInv, NEW r \in Requests, NEW s \in Sessions, NEW f \in Files,
           NEW i \in Subnets \cup {NoIP}, GetSession(r, s, f, i)
    PROVE  AllMapped' /\ Owned'
<1> USE DEF objects
<1>1. TypeOK /\ AllMapped /\ Owned /\ pc[r] = "idle" /\ obj[r] = Null /\ Null \notin Addrs
  BY SessionLimiterAssumption DEF LeakInv, Inv, GetSession, TypeOK
<1>2. pc'[r] = "total" /\ req'[r].sid = s
  BY <1>1 DEF GetSession, Goto, TypeOK
<1>3. OthersKeep(r)
  BY <1>1, StepOthers DEF Step, Begin
<1>4. CASE sessions[s] # Null
  <2> DEFINE a == sessions[s]
  <2>1. UNCHANGED <<sessions, ips>> /\ obj'[r] = a /\ a \in Addrs
    BY <1>1, <1>4, LocalsByLabel DEF GetSession, TypeOK
  <2>2. ASSUME NEW t \in Sessions, sessions[t] # Null PROVE Mapped(t)'
    <3>1. Mapped(t)
      BY <1>1 DEF AllMapped
    <3>2. CASE WillForget(sessions[t])
      <4>1. PICK q \in Requests : obj[q] = sessions[t] /\ pc[q] \in Committed
        BY <3>2 DEF WillForget
      <4>2. q # r
        BY <1>1, <4>1 DEF Committed
      <4>3. QED
        BY <1>3, <2>1, <4>1, <4>2 DEF OthersKeep, WillForget, Mapped
    <3>3. CASE Untouched(sessions[t]) /\ \E q \in Requests : obj[q] = sessions[t]
      <4>1. PICK q \in Requests : obj[q] = sessions[t]
        BY <3>3
      <4>2. q # r
        BY <1>1, <2>2, <4>1
      <4>3. Untouched(sessions[t])'
        BY <1>2, <1>3, <2>1, <3>3 DEF Untouched, OthersKeep, Trying
      <4>4. QED
        BY <1>3, <2>1, <4>1, <4>2, <4>3 DEF OthersKeep, Mapped
    <3>4. QED
      BY <2>2, <3>1, <3>2, <3>3 DEF Mapped
  <2>3. AllMapped'
    BY <2>1, <2>2 DEF AllMapped, Mapped
  <2>4. ASSUME NEW t \in Sessions, sessions[t] = a PROVE t = s
    <3>1. PICK q \in Requests : obj[q] = a
      BY <1>1, <1>4 DEF AllMapped, Mapped, WillForget
    <3>2. req[q].sid = s /\ req[q].sid = t
      BY <1>1, <1>4, <2>4, <3>1 DEF Owned
    <3>3. QED
      BY <3>2
  <2>5. Owned'
    BY <1>1, <1>2, <1>3, <2>1, <2>4 DEF Owned, OthersKeep
  <2>6. QED
    BY <2>3, <2>5
<1>5. CASE sessions[s] = Null
  <2>1. PICK a \in Free : /\ sessions' = [sessions EXCEPT ![s] = a]
                          /\ obj' = [obj EXCEPT ![r] = a]
                          /\ ips' = [ips EXCEPT ![a] = [g \in Files |-> NoAges]]
    BY <1>5 DEF GetSession
  <2>2. /\ a \in Addrs /\ \A t \in Sessions : sessions[t] # a
        /\ \A q \in Requests : obj[q] # a
    BY DEF Free
  <2>3. /\ obj'[r] = a /\ sessions'[s] = a
        /\ \A t \in Sessions : t # s => sessions'[t] = sessions[t]
        /\ \A g \in Files : ips'[a][g] = NoAges
        /\ \A b \in Addrs : b # a => ips'[b] = ips[b]
    BY <1>1, <2>1, <2>2 DEF TypeOK
  <2>4. ASSUME NEW t \in Sessions, sessions'[t] # Null PROVE Mapped(t)'
    <3>1. CASE t = s
      <4>1. Untouched(a)'
        BY <1>2, <1>3, <2>2, <2>3 DEF Untouched, OthersKeep, Trying
      <4>2. QED
        BY <2>3, <3>1, <4>1 DEF Mapped
    <3>2. CASE t # s
      <4>0. PICK b \in Addrs : b = sessions[t]
        BY <1>1, <2>3, <2>4, <3>2, LocalsByLabel
      <4>1. b # a /\ b # Null /\ b \in Addrs /\ sessions'[t] = b /\ Mapped(t)
        BY <1>1, <2>2, <2>3, <2>4, <3>2, <4>0 DEF AllMapped
      <4>2. \A q \in Requests : (obj[q] = b <=> obj'[q] = b) /\ (obj[q] = b => pc'[q] = pc[q])
        BY <1>1, <1>3, <2>3, <4>1 DEF OthersKeep
      <4>3. ips'[b] = ips[b]
        BY <2>3, <4>1
      <4>4. WillForget(b) => WillForget(b)'
        BY <4>2 DEF WillForget
      <4>5. Untouched(b) => Untouched(b)'
        BY <4>2, <4>3 DEF Untouched
      <4>6. Mapped(t) => WillForget(b) \/ (Untouched(b) /\ \E q \in Requests : obj[q] = b)
        BY <4>0, <4>1 DEF Mapped
      <4>7. QED
        BY <4>1, <4>2, <4>4, <4>5, <4>6 DEF Mapped
    <3>3. QED
      BY <3>1, <3>2
  <2>5. AllMapped'
    BY <2>4 DEF AllMapped, Mapped
  <2>6. Owned'
    <3>1. ASSUME NEW q \in Requests, NEW t \in Sessions, obj'[q] # Null, sessions'[t] = obj'[q]
          PROVE  req'[q].sid = t
      <4>1. CASE q = r
        BY <1>2, <2>2, <2>3, <3>1, <4>1
      <4>2. CASE q # r
        <5>1. obj[q] = obj'[q] /\ req'[q] = req[q]
          BY <1>3, <4>2 DEF OthersKeep
        <5>2. t # s
          BY <2>2, <2>3, <3>1, <5>1
        <5>3. QED
          BY <1>1, <2>3, <3>1, <5>1, <5>2 DEF Owned
      <4>3. QED
        BY <4>1, <4>2
    <3>2. QED
      BY <3>1 DEF Owned
  <2>7. QED
    BY <2>5, <2>6
<1>6. QED
  BY <1>4, <1>5

LEMMA NextOwned ==
    ASSUME TypeOK, Owned, NEW r \in Requests, OthersKeep(r),
           \A s \in Sessions : sessions'[s] \in {sessions[s], Null},
           obj'[r] = Null \/ (obj'[r] = obj[r] /\ req'[r] = req[r])
    PROVE  Owned'
<1> SUFFICES ASSUME NEW q \in Requests, NEW s \in Sessions, obj'[q] # Null, sessions'[s] = obj'[q]
             PROVE  req'[q].sid = s
  BY DEF Owned
<1>1. obj'[q] = obj[q] /\ req'[q] = req[q] /\ sessions[s] = obj[q]
  BY DEF OthersKeep
<1>2. QED
  BY <1>1 DEF Owned

LEMMA StepLeak ==
    ASSUME LeakInv, NEW r \in Requests, Step(r)
    PROVE  AllMapped' /\ Owned' /\ AsksIPs'
<1> USE DEF objects
<1>1. TypeOK /\ AllMapped /\ Owned /\ AsksIPs
  BY DEF LeakInv, Inv
<1>2. OthersKeep(r)
  BY <1>1, StepOthers
<1>3. ASSUME NEW s \in Sessions, NEW f \in Files, NEW i \in Subnets \cup {NoIP}, GetSession(r, s, f, i)
      PROVE  AllMapped' /\ Owned' /\ AsksIPs'
  <2>1. pc'[r] = "total"
    BY <1>1, <1>3 DEF GetSession, Goto, TypeOK
  <2>2. AsksIPs'
    BY <1>1, <1>2, <2>1 DEF AsksIPs, OthersKeep
  <2>3. QED
    BY <1>3, <2>2, GetSessionLeak
<1>4. CASE AcquireAnonymous(r) \/ ReleaseAnonymous(r)
  <2>1. /\ pc[r] \in {"idle", "unlimited"} /\ pc'[r] \in {"idle", "unlimited"}
        /\ obj'[r] = obj[r] /\ req'[r] = req[r] /\ UNCHANGED <<sessions, ips>>
    BY <1>1, <1>4, GotoLocals DEF AcquireAnonymous, ReleaseAnonymous
  <2>2. AllMapped' /\ Owned'
    BY <1>1, <1>2, <2>1, Progress, NextOwned
  <2>3. AsksIPs'
    BY <1>1, <1>2, <2>1 DEF AsksIPs, OthersKeep
  <2>4. QED
    BY <2>2, <2>3
<1>5. CASE CheckTotal(r) \/ CheckPath(r)
  <2>1. /\ UNCHANGED sessions /\ (obj'[r] = Null \/ (obj'[r] = obj[r] /\ req'[r] = req[r]))
        /\ pc'[r] = "ips" => MaxIPs > 0 /\ req[r].ip # NoIP /\ req'[r] = req[r]
    <3>1. CASE CheckTotal(r)
      BY <1>1, <3>1, ReturnLocals, GotoLocals DEF CheckTotal
    <3>2. CASE CheckPath(r)
      BY <1>1, <3>2, ReturnLocals, GotoLocals DEF CheckPath, Refuse
    <3>3. QED
      BY <1>5, <3>1, <3>2
  <2>2. AsksIPs'
    BY <1>1, <1>2, <2>1 DEF AsksIPs, OthersKeep
  <2>3. QED
    BY <1>1, <1>2, <1>5, <2>1, <2>2, CheckLeak, NextOwned
<1>6. CASE TryAddBig(r)
  <2>1. /\ UNCHANGED sessions /\ (obj'[r] = Null \/ (obj'[r] = obj[r] /\ req'[r] = req[r]))
        /\ pc'[r] # "ips"
    BY <1>1, <1>6, ReturnLocals, GotoLocals DEF TryAddBig
  <2>2. AsksIPs'
    BY <1>1, <1>2, <2>1 DEF AsksIPs, OthersKeep
  <2>3. QED
    BY <1>1, <1>2, <1>6, <2>1, <2>2, TryAddBigLeak, NextOwned
<1>7. CASE TrackIP(r)
  <2>1. /\ UNCHANGED sessions /\ (obj'[r] = Null \/ (obj'[r] = obj[r] /\ req'[r] = req[r]))
        /\ pc'[r] # "ips"
    BY <1>1, <1>7, ReturnLocals, GotoLocals DEF TrackIP, Refuse
  <2>2. AsksIPs'
    BY <1>1, <1>2, <2>1 DEF AsksIPs, OthersKeep
  <2>3. QED
    BY <1>1, <1>2, <1>7, <2>1, <2>2, TrackIPLeak, NextOwned
<1>8. CASE Unwind(r) \/ ReleaseTotal(r) \/ Forget(r)
  <2>1. /\ \A s \in Sessions : sessions'[s] \in {sessions[s], Null}
        /\ obj'[r] = Null \/ (obj'[r] = obj[r] /\ req'[r] = req[r])
        /\ pc'[r] # "ips"
    <3>1. CASE Unwind(r)
      BY <1>1, <3>1, ReturnLocals DEF Unwind
    <3>2. CASE ReleaseTotal(r)
      BY <1>1, <3>2, ReturnLocals, GotoLocals DEF ReleaseTotal
    <3>3. CASE Forget(r)
      BY <1>1, <3>3, ReturnLocals DEF Forget, TypeOK
    <3>4. QED
      BY <1>8, <3>1, <3>2, <3>3
  <2>2. AsksIPs'
    BY <1>1, <1>2, <2>1 DEF AsksIPs, OthersKeep
  <2>3. QED
    BY <1>1, <1>2, <1>8, <2>1, <2>2, UnwindLeak, ReleaseTotalLeak, ForgetLeak, NextOwned
<1>9. CASE Classify(r)
  <2>1. /\ pc[r] = "classify" /\ pc'[r] \in {"hash", "path"}
        /\ obj'[r] = obj[r] /\ req'[r] = req[r] /\ UNCHANGED <<sessions, ips>>
    BY <1>1, <1>9 DEF Classify, Goto, TypeOK
  <2>2. AllMapped' /\ Owned'
    BY <1>1, <1>2, <2>1, Progress, NextOwned DEF Trying
  <2>3. AsksIPs'
    BY <1>1, <1>2, <2>1 DEF AsksIPs, OthersKeep
  <2>4. QED
    BY <2>2, <2>3
<1>10. CASE AddTotal(r) \/ AddConc(r) \/ Respond(r) \/ ReleaseConc(r) \/ ReleaseBig(r)
  <2>1. /\ pc'[r] \in Committed /\ pc'[r] # "ips"
        /\ obj'[r] = obj[r] /\ req'[r] = req[r] /\ UNCHANGED <<sessions, ips>>
    <3>1. CASE AddTotal(r) \/ AddConc(r)
      BY <1>1, <3>1, GotoLocals DEF AddTotal, AddConc, Committed
    <3>2. CASE Respond(r)
      BY <3>2 DEF Respond, Committed
    <3>3. CASE ReleaseConc(r) \/ ReleaseBig(r)
      BY <1>1, <3>3, GotoLocals DEF ReleaseConc, ReleaseBig, Committed
    <3>4. QED
      BY <1>10, <3>1, <3>2, <3>3
  <2>2. AllMapped' /\ Owned'
    BY <1>1, <1>2, <2>1, Progress, NextOwned
  <2>3. AsksIPs'
    BY <1>1, <1>2, <2>1 DEF AsksIPs, OthersKeep
  <2>4. QED
    BY <2>2, <2>3
<1>11. QED
  BY <1>3, <1>4, <1>5, <1>6, <1>7, <1>8, <1>9, <1>10 DEF Step, Begin, Continue

LEMMA NextLeak == LeakInv /\ [Next]_vars => LeakInv'
<1> SUFFICES ASSUME LeakInv, [Next]_vars PROVE LeakInv'
  OBVIOUS
<1>1. Inv'
  BY NextInv DEF LeakInv
<1>2. CASE \E r \in Requests : Step(r)
  BY <1>1, <1>2, StepLeak DEF LeakInv
<1>3. CASE Tick \/ UNCHANGED vars
  <2>1. UNCHANGED <<sessions, pc, req, obj>>
    BY <1>3 DEF Tick, vars
  <2>2. \A a \in Addrs, f \in Files : ips[a][f] = NoAges => ips'[a][f] = NoAges
    <3>1. Older(NoAges) = NoAges
      BY SessionLimiterAssumption DEF Older, NoAges, Gone
    <3>2. CASE Tick
      BY <3>1, <3>2 DEF Tick
    <3>3. CASE UNCHANGED vars
      BY <3>3 DEF vars
    <3>4. QED
      BY <1>3, <3>2, <3>3
  <2>3. ASSUME NEW s \in Sessions PROVE Mapped(s)'
    <3>1. Mapped(s) /\ sessions[s] \in Addrs \cup {Null}
      BY LocalsByLabel DEF LeakInv, AllMapped, Inv, TypeOK
    <3>2. QED
      BY <2>1, <2>2, <3>1 DEF Mapped, WillForget, Untouched
  <2>4. Owned' /\ AsksIPs'
    BY <2>1 DEF LeakInv, Owned, AsksIPs
  <2>5. QED
    BY <1>1, <2>3, <2>4 DEF LeakInv, AllMapped
<1>4. QED
  BY <1>2, <1>3 DEF Next

(* With no request in flight the sessions map is empty, however refusals,  *)
(* releases and new arrivals interleave: a state in the map always has a   *)
(* request that will come to delete it.                                    *)
THEOREM MapNeverLeaks == Spec => []NoSessionLeak
<1>1. Init => LeakInv
  <2> SUFFICES ASSUME Init PROVE LeakInv
    OBVIOUS
  <2>1. Inv /\ \A s \in Sessions : sessions[s] = Null
    BY InitInv DEF Init
  <2>2. \A r \in Requests : obj[r] = Null /\ pc[r] = "idle"
    BY DEF Init
  <2>3. QED
    BY <2>1, <2>2 DEF LeakInv, AllMapped, Mapped, Owned, AsksIPs
<1>2. LeakInv => NoSessionLeak
  <2> SUFFICES ASSUME LeakInv, \A r \in Requests : pc[r] \in {"idle", "unlimited"},
                      NEW s \in Sessions, sessions[s] # Null
               PROVE  FALSE
    BY DEF NoSessionLeak
  <2>1. \A r \in Requests : obj[r] = Null
    BY LocalsByLabel DEF LeakInv, Inv
  <2>2. QED
    BY <2>1 DEF LeakInv, AllMapped, Mapped, WillForget
<1>3. QED
  BY <1>1, <1>2, NextLeak, PTL DEF Spec

-----------------------------------------------------------------------------
(* The limits of a session, when calls do not overlap *)

Active == {r \in Requests : pc[r] \notin Resting}

OneCall == \A r, q \in Active : r = q

(* No request is on a session state that has been dropped from the map. *)
OneState == \A r \in Requests :
               pc[r] \notin {"idle", "unlimited"} => sessions[req[r].sid] = obj[r]

(* What a call has read is still so when it acts on it. *)
StillRoom(r) ==
    /\ (MaxTotal > 0 /\ pc[r] \in {"classify", "hash", "path", "ips", "addTotal"})
         => total[obj[r]] < MaxTotal
    /\ (MaxPerPath > 0 /\ pc[r] \in {"ips", "addTotal", "addConc"})
         => conc[obj[r]][req[r].file] < MaxPerPath

WithinCaps ==
    /\ MaxTotal > 0 => \A a \in Addrs : total[a] <= MaxTotal
    /\ MaxPerPath > 0 => \A a \in Addrs, f \in Files : conc[a][f] <= MaxPerPath

SerialInv ==
    /\ Inv /\ BigCapPerState
    /\ OneCall /\ OneState /\ WithinCaps
    /\ \A r \in Requests : StillRoom(r)

LEMMA SerialIsNext == SerialNext => Next
BY DEF SerialNext, Next, Step

(* While a call takes a step all other requests rest. *)
LEMMA SerialOthers ==
    ASSUME OneCall, NEW r \in Requests, Continue(r), ~Respond(r)
    PROVE  \A q \in Requests \ {r} : pc[q] \in Resting
<1>1. pc[r] \notin Resting
  BY DEF Continue, Resting, CheckTotal, Classify, TryAddBig, CheckPath, TrackIP, Unwind, AddTotal,
     AddConc, ReleaseBig, ReleaseTotal, Forget
<1>2. QED
  BY <1>1 DEF OneCall, Active

(* A step of r that keeps the session map and every counter but r's own    *)
(* within bounds.                                                          *)
LEMMA SerialStays ==
    ASSUME Inv', BigCapPerState', NEW r \in Requests, OthersKeep(r), OneState, WithinCaps',
           \A q \in Requests \ {r} : pc[q] \in Resting,
           \A q \in Requests \ {r} :
              pc[q] = "serving" => sessions'[req[q].sid] = sessions[req[q].sid],
           pc'[r] \in {"idle", "unlimited"} \/ sessions'[req'[r].sid] = obj'[r],
           StillRoom(r)'
    PROVE  SerialInv'
<1>1. OneCall'
  BY DEF OthersKeep, OneCall, Active
<1>2. OneState'
  <2> SUFFICES ASSUME NEW q \in Requests, pc'[q] \notin {"idle", "unlimited"}
               PROVE  sessions'[req'[q].sid] = obj'[q]
    BY DEF OneState
  <2>1. CASE q = r
    BY <2>1
  <2>2. CASE q # r
    <3>1. pc[q] = "serving" /\ req'[q] = req[q] /\ obj'[q] = obj[q]
      BY <2>2 DEF OthersKeep, Resting
    <3>2. QED
      BY <2>2, <3>1 DEF OneState
  <2>3. QED
    BY <2>1, <2>2
<1>3. \A q \in Requests : StillRoom(q)'
  <2>1. ASSUME NEW q \in Requests \ {r} PROVE StillRoom(q)'
    BY DEF OthersKeep, Resting, StillRoom
  <2>2. QED
    BY <2>1
<1>4. QED
  BY <1>1, <1>2, <1>3 DEF SerialInv

LEMMA CapsStay ==
    ASSUME WithinCaps, UNCHANGED <<total, conc>>
    PROVE  WithinCaps'
BY DEF WithinCaps

LEMMA SerialBegin ==
    ASSUME SerialInv, Inv', BigCapPerState', NEW r \in Requests, Begin(r),
           \A q \in Requests \ {r} : pc[q] \in Resting
    PROVE  SerialInv'
<1> USE DEF objects
<1>1. TypeOK /\ OneState /\ WithinCaps /\ SlotAccounting
  BY DEF SerialInv, Inv
<1>2. OthersKeep(r)
  BY <1>1, StepOthers DEF Step
<1>3. CASE AcquireAnonymous(r) \/ ReleaseAnonymous(r)
  <2>1. pc'[r] \in {"idle", "unlimited"} /\ UNCHANGED <<sessions, total, conc>>
    BY <1>1, <1>3, GotoLocals DEF AcquireAnonymous, ReleaseAnonymous
  <2>2. StillRoom(r)'
    BY <2>1 DEF StillRoom
  <2>3. QED
    BY <1>1, <1>2, <2>1, <2>2, CapsStay, SerialStays
<1>4. CASE ReleaseConc(r)
  <2>1. /\ pc[r] = "serving" /\ pc'[r] \in {"releaseHash", "releaseTotal"} /\ UNCHANGED <<sessions, total>>
        /\ req'[r] = req[r] /\ obj'[r] = obj[r]
    BY <1>1, <1>4, GotoLocals DEF ReleaseConc
  <2>2. obj[r] \in Addrs /\ req[r].file \in Files
    BY <1>1, <2>1, HasLocals
  <2>3. StillRoom(r)'
    BY <2>1 DEF StillRoom
  <2>4. \A a \in Addrs, f \in Files : conc'[a][f] <= conc[a][f] /\ conc'[a][f] \in Int /\ conc[a][f] \in Int
    BY <1>1, <1>4, <2>2 DEF ReleaseConc, TypeOK
  <2>5. WithinCaps'
    BY <1>1, <2>1, <2>4, SessionLimiterAssumption DEF WithinCaps
  <2>6. sessions[req[r].sid] = obj[r]
    BY <1>1, <2>1 DEF OneState
  <2>7. QED
    BY <1>1, <1>2, <2>1, <2>3, <2>5, <2>6, SerialStays
<1>5. ASSUME NEW s \in Sessions, NEW f \in Files, NEW i \in Subnets \cup {NoIP}, GetSession(r, s, f, i)
      PROVE  SerialInv'
  <2>1. pc'[r] = "total" /\ req'[r].sid = s
    BY <1>1, <1>5 DEF GetSession, Goto, TypeOK
  <2>2. StillRoom(r)'
    BY <2>1 DEF StillRoom
  <2>3. CASE sessions[s] # Null
    <3>1. UNCHANGED <<sessions, total, conc>> /\ obj'[r] = sessions[s]
      BY <1>1, <1>5, <2>3 DEF GetSession, TypeOK
    <3>2. QED
      BY <1>1, <1>2, <2>1, <2>2, <3>1, CapsStay, SerialStays
  <2>4. CASE sessions[s] = Null
    <3>1. PICK a \in Free : /\ sessions' = [sessions EXCEPT ![s] = a]
                            /\ obj' = [obj EXCEPT ![r] = a]
                            /\ total' = [total EXCEPT ![a] = 0]
                            /\ conc' = [conc EXCEPT ![a] = [g \in Files |-> 0]]
      BY <1>5, <2>4 DEF GetSession
    <3>2. WithinCaps'
      <4>1. \A b \in Addrs : total'[b] \in {0, total[b]} /\ \A g \in Files : conc'[b][g] \in {0, conc[b][g]}
        BY <1>1, <3>1 DEF TypeOK
      <4>2. QED
        BY <1>1, <4>1, SessionLimiterAssumption DEF WithinCaps
    <3>3. sessions'[s] = a /\ obj'[r] = a /\ \A t \in Sessions : t # s => sessions'[t] = sessions[t]
      BY <1>1, <3>1 DEF TypeOK
    <3>4. ASSUME NEW q \in Requests \ {r}, pc[q] = "serving"
          PROVE  sessions'[req[q].sid] = sessions[req[q].sid]
      <4>1. sessions[req[q].sid] = obj[q] /\ obj[q] \in Addrs /\ req[q].sid \in Sessions
        BY <1>1, <3>4, HasLocals DEF OneState
      <4>2. req[q].sid # s
        BY <2>4, <4>1, SessionLimiterAssumption
      <4>3. QED
        BY <3>3, <4>1, <4>2
    <3>5. QED
      BY <1>1, <1>2, <2>1, <2>2, <3>2, <3>3, <3>4, SerialStays
  <2>5. QED
    BY <2>3, <2>4
<1>6. QED
  BY <1>3, <1>4, <1>5 DEF Begin

LEMMA SerialContinue ==
    ASSUME SerialInv, Inv', BigCapPerState', NEW r \in Requests, Continue(r)
    PROVE  SerialInv'
<1> USE DEF objects
<1>1. TypeOK /\ OneCall /\ OneState /\ WithinCaps /\ SlotAccounting /\ StillRoom(r)
  BY DEF SerialInv, Inv
<1>2. OthersKeep(r)
  BY <1>1, StepOthers DEF Step
<1>3. CASE Respond(r)
  <2>1. UNCHANGED <<sessions, total, conc, pc, req, obj>>
    BY <1>3 DEF Respond
  <2>2. QED
    BY <2>1 DEF SerialInv, OneCall, Active, OneState, WithinCaps, StillRoom
<1>4. ASSUME ~Respond(r) PROVE \A q \in Requests \ {r} : pc[q] \in Resting
  BY <1>1, <1>4, SerialOthers
<1>5. pc[r] \notin {"idle", "unlimited"} =>
        /\ sessions[req[r].sid] = obj[r] /\ obj[r] \in Addrs
        /\ req[r].file \in Files /\ req[r].sid \in Sessions
        /\ total[obj[r]] \in Int /\ conc[obj[r]][req[r].file] \in Int
  BY <1>1, HasLocals DEF OneState, TypeOK
<1>6. {MaxTotal, MaxPerPath} \subseteq Nat
  BY SessionLimiterAssumption
<1>7. ASSUME ~Respond(r), UNCHANGED <<sessions, total, conc>>,
             pc'[r] = "idle" \/ (obj'[r] = obj[r] /\ req'[r] = req[r]),
             pc[r] \notin {"idle", "unlimited"}, StillRoom(r)'
      PROVE  SerialInv'
  BY <1>1, <1>2, <1>4, <1>5, <1>7, CapsStay, SerialStays
<1>8. CASE CheckTotal(r)
  <2>1. /\ pc[r] = "total" /\ UNCHANGED <<sessions, total, conc>>
        /\ pc'[r] = "idle" \/ (pc'[r] = "classify" /\ ~TotalFull(obj[r]) /\ obj'[r] = obj[r] /\ req'[r] = req[r])
    BY <1>1, <1>8, ReturnLocals, GotoLocals DEF CheckTotal
  <2>2. StillRoom(r)'
    BY <1>5, <1>6, <2>1 DEF StillRoom, TotalFull
  <2>3. QED
    BY <1>7, <2>1, <2>2 DEF Respond
<1>9. CASE Classify(r)
  <2>1. /\ pc[r] = "classify" /\ UNCHANGED <<sessions, total, conc>>
        /\ pc'[r] \in {"hash", "path"} /\ obj'[r] = obj[r] /\ req'[r] = req[r]
    BY <1>1, <1>9 DEF Classify, Goto, TypeOK
  <2>2. StillRoom(r)'
    BY <1>1, <2>1 DEF StillRoom
  <2>3. QED
    BY <1>7, <2>1, <2>2 DEF Respond
<1>10. CASE TryAddBig(r)
  <2>1. /\ pc[r] = "hash" /\ UNCHANGED <<sessions, total, conc>>
        /\ pc'[r] = "idle" \/ (pc'[r] = "path" /\ obj'[r] = obj[r] /\ req'[r] = req[r])
    BY <1>1, <1>10, ReturnLocals, GotoLocals DEF TryAddBig
  <2>2. StillRoom(r)'
    BY <1>1, <2>1 DEF StillRoom
  <2>3. QED
    BY <1>7, <2>1, <2>2 DEF Respond
<1>11. CASE CheckPath(r)
  <2>1. /\ pc[r] = "path" /\ UNCHANGED <<sessions, total, conc>>
        /\ \/ pc'[r] = "idle"
           \/ pc'[r] = "unwind" /\ obj'[r] = obj[r] /\ req'[r] = req[r]
           \/ /\ pc'[r] \in {"ips", "addTotal"} /\ ~PathFull(obj[r], req[r].file)
              /\ obj'[r] = obj[r] /\ req'[r] = req[r]
    BY <1>1, <1>11, ReturnLocals, GotoLocals DEF CheckPath, Refuse
  <2>2. StillRoom(r)'
    BY <1>1, <1>5, <1>6, <2>1 DEF StillRoom, PathFull
  <2>3. QED
    BY <1>7, <2>1, <2>2 DEF Respond
<1>12. CASE TrackIP(r)
  <2>1. /\ pc[r] = "ips" /\ UNCHANGED <<sessions, total, conc>>
        /\ \/ pc'[r] = "idle"
           \/ pc'[r] \in {"unwind", "addTotal"} /\ obj'[r] = obj[r] /\ req'[r] = req[r]
    BY <1>1, <1>12, ReturnLocals, GotoLocals DEF TrackIP, Refuse
  <2>2. StillRoom(r)'
    BY <1>1, <2>1 DEF StillRoom
  <2>3. QED
    BY <1>7, <2>1, <2>2 DEF Respond
<1>13. CASE Unwind(r)
  <2>1. pc[r] = "unwind" /\ UNCHANGED <<sessions, total, conc>> /\ pc'[r] = "idle"
    BY <1>1, <1>13, ReturnLocals DEF Unwind
  <2>2. StillRoom(r)'
    BY <2>1 DEF StillRoom
  <2>3. QED
    BY <1>7, <2>1, <2>2 DEF Respond
<1>14. CASE AddTotal(r)
  <2>1. /\ pc[r] = "addTotal" /\ pc'[r] = "addConc" /\ UNCHANGED <<sessions, conc>>
        /\ obj'[r] = obj[r] /\ req'[r] = req[r]
    BY <1>1, <1>14, GotoLocals DEF AddTotal
  <2>2. StillRoom(r)'
    BY <1>1, <2>1 DEF StillRoom
  <2>3. total' = [total EXCEPT ![obj[r]] = @ + 1]
    BY <1>14 DEF AddTotal
  <2>4. \A a \in Addrs : total'[a] = (IF a = obj[r] THEN total[a] + 1 ELSE total[a]) /\ total[a] \in Int
    BY <1>1, <1>5, <2>1, <2>3 DEF TypeOK
  <2>5. WithinCaps'
    BY <1>1, <1>5, <1>6, <2>1, <2>4 DEF WithinCaps, StillRoom
  <2>6. QED
    BY <1>1, <1>2, <1>4, <1>5, <2>1, <2>2, <2>5, SerialStays DEF Respond
<1>15. CASE AddConc(r)
  <2>1. /\ pc[r] = "addConc" /\ pc'[r] = "serving" /\ UNCHANGED <<sessions, total>>
        /\ obj'[r] = obj[r] /\ req'[r] = req[r]
    BY <1>1, <1>15, GotoLocals DEF AddConc
  <2>2. StillRoom(r)'
    BY <2>1 DEF StillRoom
  <2>3. conc' = [conc EXCEPT ![obj[r]][req[r].file] = @ + 1]
    BY <1>15 DEF AddConc
  <2>4. \A a \in Addrs, f \in Files :
           /\ conc'[a][f] = IF a = obj[r] /\ f = req[r].file THEN conc[a][f] + 1 ELSE conc[a][f]
           /\ conc[a][f] \in Int
    BY <1>1, <1>5, <2>1, <2>3 DEF TypeOK
  <2>5. WithinCaps'
    BY <1>1, <1>5, <1>6, <2>1, <2>4 DEF WithinCaps, StillRoom
  <2>6. QED
    BY <1>1, <1>2, <1>4, <1>5, <2>1, <2>2, <2>5, SerialStays DEF Respond
<1>16. CASE ReleaseBig(r)
  <2>1. /\ pc[r] = "releaseHash" /\ pc'[r] = "releaseTotal" /\ UNCHANGED <<sessions, total, conc>>
        /\ obj'[r] = obj[r] /\ req'[r] = req[r]
    BY <1>1, <1>16, GotoLocals DEF ReleaseBig
  <2>2. StillRoom(r)'
    BY <2>1 DEF StillRoom
  <2>3. QED
    BY <1>7, <2>1, <2>2 DEF Respond
<1>17. CASE ReleaseTotal(r)
  <2>1. /\ pc[r] = "releaseTotal" /\ UNCHANGED <<sessions, conc>>
        /\ pc'[r] = "idle" \/ (pc'[r] = "forget" /\ obj'[r] = obj[r] /\ req'[r] = req[r])
    BY <1>1, <1>17, ReturnLocals, GotoLocals DEF ReleaseTotal
  <2>2. StillRoom(r)'
    BY <2>1 DEF StillRoom
  <2>3. total' = [total EXCEPT ![obj[r]] = @ - 1]
    BY <1>17 DEF ReleaseTotal
  <2>4. \A a \in Addrs : total'[a] = (IF a = obj[r] THEN total[a] - 1 ELSE total[a]) /\ total[a] \in Int
    BY <1>1, <1>5, <2>1, <2>3 DEF TypeOK
  <2>5. WithinCaps'
    BY <1>1, <1>6, <2>1, <2>4 DEF WithinCaps
  <2>6. QED
    BY <1>1, <1>2, <1>4, <1>5, <2>1, <2>2, <2>5, SerialStays DEF Respond
<1>18. CASE Forget(r)
  <2>1. pc[r] = "forget" /\ UNCHANGED <<total, conc>> /\ pc'[r] = "idle"
    BY <1>1, <1>18, ReturnLocals DEF Forget
  <2>2. StillRoom(r)'
    BY <2>1 DEF StillRoom
  <2>3. ASSUME NEW q \in Requests \ {r}, pc[q] = "serving"
        PROVE  sessions'[req[q].sid] = sessions[req[q].sid]
    <3>1. sessions[req[q].sid] = obj[q] /\ obj[q] \in Addrs /\ req[q].sid \in Sessions
      BY <1>1, <2>3, HasLocals DEF OneState
    <3>2. CASE req[q].sid = req[r].sid
      <4>1. q \in InTotal(obj[r])
        BY <1>5, <2>1, <2>3, <3>1, <3>2 DEF InTotal
      <4>2. total[obj[r]] > 0
        <5>1. total[obj[r]] = Cardinality(InTotal(obj[r])) /\ total[obj[r]] \in Nat
          BY <1>1, <1>5, <2>1, HoldersFinite, FS_CardinalityType DEF SlotAccounting
        <5>2. Cardinality(InTotal(obj[r])) # 0
          BY <4>1, HoldersFinite, FS_EmptySet
        <5>3. QED
          BY <5>1, <5>2
      <4>3. QED
        BY <1>5, <1>18, <2>1, <4>2 DEF Forget
    <3>3. CASE req[q].sid # req[r].sid
      BY <1>1, <1>18, <3>1, <3>3 DEF Forget, TypeOK
    <3>4. QED
      BY <3>2, <3>3
  <2>4. QED
    BY <1>1, <1>2, <1>4, <2>1, <2>2, <2>3, CapsStay, SerialStays DEF Respond
<1>19. QED
  BY <1>3, <1>8, <1>9, <1>10, <1>11, <1>12, <1>13, <1>14, <1>15, <1>16, <1>17, <1>18 DEF Continue

LEMMA SerialInit == Init => SerialInv
<1> SUFFICES ASSUME Init PROVE SerialInv
  OBVIOUS
<1>1. Inv /\ BigCapPerState
  BY InitInv, InitCap
<1>2. \A r \in Requests : pc[r] = "idle"
  BY DEF Init
<1>3. WithinCaps
  BY SessionLimiterAssumption DEF Init, WithinCaps
<1>4. QED
  BY <1>1, <1>2, <1>3 DEF SerialInv, OneCall, Active, Resting, OneState, StillRoom

LEMMA SerialStep == SerialInv /\ [SerialNext]_vars => SerialInv'
<1> SUFFICES ASSUME SerialInv, [SerialNext]_vars PROVE SerialInv'
  OBVIOUS
<1>1. [Next]_vars
  BY SerialIsNext
<1>2. Inv' /\ BigCapPerState'
  BY <1>1, NextInv, NextCap DEF SerialInv
<1>3. ASSUME NEW r \in Requests, Begin(r), \A q \in Requests \ {r} : pc[q] \in Resting
      PROVE  SerialInv'
  BY <1>2, <1>3, SerialBegin
<1>4. ASSUME NEW r \in Requests, Continue(r) PROVE SerialInv'
  BY <1>2, <1>4, SerialContinue
<1>5. CASE Tick \/ UNCHANGED vars
  <2>1. UNCHANGED <<sessions, total, conc, pc, req, obj>>
    BY <1>5 DEF Tick, vars
  <2>2. QED
    BY <1>2, <2>1 DEF SerialInv, OneCall, Active, OneState, WithinCaps, StillRoom
<1>6. QED
  BY <1>3, <1>4, <1>5 DEF SerialNext

(* The admitted requests of a session are on the state the map has for it. *)
LEMMA AdmittedOnState ==
    ASSUME SerialInv, NEW s \in Sessions, NEW r \in Admitted(s)
    PROVE  /\ r \in Requests /\ req[r].sid = s /\ obj[r] = sessions[s] /\ sessions[s] \in Addrs
           /\ pc[r] \in {"addConc", "serving"}
<1>1. r \in Requests /\ req[r].sid = s /\ pc[r] \in {"addConc", "serving"}
  BY DEF Admitted
<1>2. obj[r] \in Addrs
  BY <1>1, HasLocals DEF SerialInv, Inv
<1>3. QED
  BY <1>1, <1>2 DEF SerialInv, OneState

LEMMA FewerAre ==
    ASSUME NEW S, NEW T, IsFiniteSet(T), S \subseteq T, NEW n \in Int, Cardinality(T) <= n
    PROVE  Cardinality(S) <= n
<1>1. IsFiniteSet(S) /\ Cardinality(S) <= Cardinality(T)
  BY FS_Subset
<1>2. QED
  BY <1>1, FS_CardinalityType

(* As long as calls of Acquire and release do not overlap, no session has  *)
(* more requests than max-conc-total, and no file of it more than          *)
(* max-conc-per-path, for any number of sessions, files and requests.      *)
THEOREM LimitsWhenSerial == SerialSpec => []RequestLimits
<1>1. SerialInv => RequestLimits
  <2> SUFFICES ASSUME SerialInv, NEW s \in Sessions
               PROVE  /\ MaxTotal > 0 => Cardinality(Admitted(s)) <= MaxTotal
                      /\ MaxPerPath > 0 => \A f \in Files : Cardinality(AdmittedTo(s, f)) <= MaxPerPath
    BY DEF RequestLimits
  <2>1. SlotAccounting /\ TypeOK /\ OneCall /\ WithinCaps /\ \A r \in Requests : StillRoom(r)
    BY DEF SerialInv, Inv
  <2>2. MaxTotal \in Nat /\ MaxPerPath \in Nat
    BY SessionLimiterAssumption
  <2>3. ASSUME MaxTotal > 0 PROVE Cardinality(Admitted(s)) <= MaxTotal
    <3>1. CASE Admitted(s) = {}
      BY <2>2, <3>1, FS_EmptySet
    <3>2. CASE Admitted(s) # {}
      <4>1. sessions[s] \in Addrs /\ Admitted(s) \subseteq InTotal(sessions[s])
        BY <3>2, AdmittedOnState DEF InTotal
      <4>2. IsFiniteSet(InTotal(sessions[s])) /\ Cardinality(InTotal(sessions[s])) <= MaxTotal
        BY <2>1, <2>3, <4>1, HoldersFinite DEF SlotAccounting, WithinCaps
      <4>3. QED
        BY <2>2, <4>1, <4>2, FewerAre
    <3>3. QED
      BY <3>1, <3>2
  <2>4. ASSUME MaxPerPath > 0, NEW f \in Files PROVE Cardinality(AdmittedTo(s, f)) <= MaxPerPath
    <3> DEFINE a == sessions[s]
    <3>1. \A r \in AdmittedTo(s, f) : /\ r \in Requests /\ req[r].file = f /\ req[r].sid = s
                                      /\ obj[r] = a /\ a \in Addrs
                                      /\ pc[r] \in {"addConc", "serving"}
      BY AdmittedOnState DEF AdmittedTo
    <3>2. CASE AdmittedTo(s, f) = {}
      BY <2>2, <3>2, FS_EmptySet
    <3>3. CASE AdmittedTo(s, f) # {} /\ \A r \in AdmittedTo(s, f) : pc[r] = "serving"
      <4>1. a \in Addrs /\ AdmittedTo(s, f) \subseteq InConc(a, f)
        BY <3>1, <3>3 DEF InConc
      <4>2. IsFiniteSet(InConc(a, f)) /\ Cardinality(InConc(a, f)) <= MaxPerPath
        BY <2>1, <2>4, <4>1, HoldersFinite DEF SlotAccounting, WithinCaps
      <4>3. QED
        BY <2>2, <4>1, <4>2, FewerAre
    <3>4. ASSUME NEW r \in AdmittedTo(s, f), pc[r] # "serving"
          PROVE  Cardinality(AdmittedTo(s, f)) <= MaxPerPath
      <4>1. pc[r] = "addConc" /\ r \in Requests /\ obj[r] = a /\ a \in Addrs /\ req[r].file = f
        BY <3>1, <3>4
      <4>2. ASSUME NEW q \in AdmittedTo(s, f), q # r PROVE q \in InConc(a, f)
        <5>1. q \in Requests /\ pc[q] = "serving"
          BY <2>1, <3>1, <4>1, <4>2 DEF OneCall, Active, Resting
        <5>2. QED
          BY <3>1, <4>2, <5>1 DEF InConc
      <4>3. AdmittedTo(s, f) \subseteq InConc(a, f) \cup {r} /\ r \notin InConc(a, f)
        BY <4>1, <4>2 DEF InConc
      <4>4. IsFiniteSet(InConc(a, f)) /\ Cardinality(InConc(a, f)) < MaxPerPath
        <5>1. conc[a][f] < MaxPerPath
          BY <2>1, <2>4, <4>1 DEF StillRoom
        <5>2. QED
          BY <2>1, <4>1, <5>1, HoldersFinite DEF SlotAccounting
      <4>5. /\ IsFiniteSet(InConc(a, f) \cup {r})
            /\ Cardinality(InConc(a, f) \cup {r}) = Cardinality(InConc(a, f)) + 1
        BY <4>3, <4>4, FS_AddElement
      <4>6. Cardinality(InConc(a, f) \cup {r}) <= MaxPerPath
        BY <2>2, <4>4, <4>5, FS_CardinalityType
      <4>7. QED
        BY <2>2, <4>3, <4>5, <4>6, FewerAre
    <3>5. QED
      BY <3>2, <3>3, <3>4
  <2>5. QED
    BY <2>3, <2>4
<1>2. QED
  BY <1>1, SerialInit, SerialStep, PTL DEF SerialSpec

(* As long as calls do not overlap, no session has more than               *)
(* max-big-files-per-hash big files of one torrent in flight: the cap that *)
(* tryAddBig keeps per session state is then one per session.              *)
THEOREM BigFilesWhenSerial == SerialSpec => []BigFilesLimit
<1>1. SerialInv => BigFilesLimit
  <2> SUFFICES ASSUME SerialInv, MaxBigFilesPerHash > 0, NEW s \in Sessions, NEW f \in Files
               PROVE  Cardinality({g \in Files : /\ HashOf[g] = HashOf[f]
                                                 /\ \E r \in AdmittedTo(s, g) : big[r]})
                        <= MaxBigFilesPerHash
    BY DEF BigFilesLimit
  <2> DEFINE a == sessions[s]
             G == {g \in Files : HashOf[g] = HashOf[f] /\ \E r \in AdmittedTo(s, g) : big[r]}
  <2>1. MaxBigFilesPerHash \in Nat /\ SlotAccounting /\ BigCapPerState
    BY SessionLimiterAssumption DEF SerialInv, Inv
  <2>2. ASSUME NEW g \in G PROVE a \in Addrs /\ g \in ActiveBig(a, HashOf[f])
    <3>1. PICK r \in AdmittedTo(s, g) : big[r]
      OBVIOUS
    <3>2. r \in Admitted(s) /\ req[r].file = g
      BY DEF AdmittedTo
    <3>3. r \in Requests /\ obj[r] = a /\ a \in Addrs /\ pc[r] \in {"addConc", "serving"}
      BY <3>2, AdmittedOnState
    <3>4. r \in InBig(a, g)
      BY <3>1, <3>2, <3>3 DEF InBig
    <3>5. bigPaths[a][g] > 0
      BY <2>1, <3>3, <3>4, PositiveIsHeld
    <3>6. QED
      BY <3>3, <3>5 DEF ActiveBig
  <2>3. CASE G = {}
    BY <2>1, <2>3, FS_EmptySet
  <2>4. CASE G # {}
    <3>1. a \in Addrs /\ G \subseteq ActiveBig(a, HashOf[f])
      BY <2>2, <2>4
    <3>2. IsFiniteSet(ActiveBig(a, HashOf[f]))
      <4>1. ActiveBig(a, HashOf[f]) \in SUBSET Files
        BY DEF ActiveBig
      <4>2. QED
        BY <4>1, FileSizeCacheAssumption, FS_Subset
    <3>3. Cardinality(ActiveBig(a, HashOf[f])) <= MaxBigFilesPerHash
      BY <2>1, <3>1 DEF BigCapPerState
    <3>4. QED
      BY <2>1, <3>1, <3>2, <3>3, FewerAre
  <2>5. QED
    BY <2>3, <2>4
<1>2. QED
  BY <1>1, SerialInit, SerialStep, PTL DEF SerialSpec
=============================================================================
