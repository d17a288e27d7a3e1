-------------------------- MODULE SessionLimiter --------------------------
(***************************************************************************)
(* services/session_limiter.go: Acquire and the release closure it         *)
(* returns, run by many request goroutines at once.  One action is one     *)
(* mutex-protected block or one atomic access; between two actions any     *)
(* other request may run.                                                  *)
(*                                                                         *)
(* The path and hash states of a session are never removed from their      *)
(* maps, so getPath and getHash are folded into the step that uses what    *)
(* they return, and an absent entry is a zero counter.  sessionState       *)
(* objects ARE removed and created anew while requests still point at the  *)
(* old one, so they are kept apart by address; an address is reused once   *)
(* nothing refers to it.                                                   *)
(***************************************************************************)
EXTENDS FileSizeCache

CONSTANTS
    Requests,           \* goroutines, each serving one request at a time
    Sessions,           \* session ids
    Addrs,              \* addresses of sessionState objects
    Subnets,            \* subnetKey of client IPs
    NoIP,               \* a request without client IP
    Null,               \* nil
    HashOf,             \* HashOf[f]: the torrent of file f
    LightFiles,         \* files whose extension is in light-exts
    MaxPerPath,         \* max-conc-per-path        (0: unlimited)
    MaxBigFilesPerHash, \* max-big-files-per-hash   (0: unlimited)
    BigFileThreshold,   \* big-file-threshold-bytes (0: every file is big)
    MaxTotal,           \* max-conc-total           (0: unlimited)
    MaxIPs,             \* max-ips-per-session      (0: unlimited)
    Window              \* ipWindow in clock ticks

ASSUME SessionLimiterAssumption ==
    /\ IsFiniteSet(Requests)
    /\ IsFiniteSet(Addrs)
    /\ IsFiniteSet(Subnets)
    /\ Null \notin Addrs
    /\ HashOf \in [Files -> {HashOf[f] : f \in Files}]
    /\ LightFiles \subseteq Files
    /\ {MaxPerPath, MaxBigFilesPerHash, BigFileThreshold,
        MaxTotal, MaxIPs, Window} \subseteq Nat

VARIABLES
    sessions,   \* [Sessions -> Addrs or Null], SessionLimiter.sessions
    total,      \* [Addrs -> Int], sessionState.total
    conc,       \* [Addrs -> [Files -> Int]], pathState.conc
    bigPaths,   \* [Addrs -> [Files -> Int]], hashState.activeBigPaths
    ips,        \* [Addrs -> [Files -> [Subnets -> age]]], pathState.ips
    pc,         \* where each request is
    req,        \* Acquire's arguments
    obj,        \* the sessionState the request works on
    big,        \* the request's file was classified as big
    recent      \* history: age of the last admission of a subnet to a file,
                \* per sessionState

objects == <<total, conc, bigPaths, ips>>
vars == <<cache, sessions, total, conc, bigPaths, ips, pc, req, obj, big, recent>>

(* Ages of ips entries count clock ticks; past the window an entry no      *)
(* longer matters (trackIP prunes before it counts), which is also how an  *)
(* absent entry reads.                                                     *)
Gone == Window + 1
NoAges == [i \in Subnets |-> Gone]
InWindow(ages) == {i \in Subnets : ages[i] <= Window}
Older_Unpruned(ages) == [i \in Subnets |-> ages[i] + 1]

Older(ages) == [i \in Subnets |-> IF ages[i] < Gone THEN ages[i] + 1 ELSE Gone]

Init ==
    /\ CacheInit
    /\ sessions = [s \in Sessions |-> Null]
    /\ total    = [a \in Addrs |-> 0]
    /\ conc     = [a \in Addrs |-> [f \in Files |-> 0]]
    /\ bigPaths = [a \in Addrs |-> [f \in Files |-> 0]]
    /\ ips      = [a \in Addrs |-> [f \in Files |-> NoAges]]
    /\ pc       = [r \in Requests |-> "idle"]
    /\ req      = [r \in Requests |-> Null]
    /\ obj      = [r \in Requests |-> Null]
    /\ big      = [r \in Requests |-> FALSE]
    /\ recent   = [a \in Addrs |-> [f \in Files |-> NoAges]]

-----------------------------------------------------------------------------
(* Helpers *)

Free == {a \in Addrs : /\ \A s \in Sessions : sessions[s] # a
                       /\ \A r \in Requests : obj[r] # a}

Goto(r, label) == pc' = [pc EXCEPT ![r] = label]

(* The call is over, refused or released: its locals are gone. *)
Return(r) ==
    /\ Goto(r, "idle")
    /\ req' = [req EXCEPT ![r] = Null]
    /\ obj' = [obj EXCEPT ![r] = Null]
    /\ big' = [big EXCEPT ![r] = FALSE]

(* isBigFile: light extensions first, then the size cache; unknown is big. *)
IsBigFile(f) ==
    /\ f \notin LightFiles
    /\ (BigFileThreshold > 0 /\ cache[f] > 0) => cache[f] >= BigFileThreshold

ActiveBig(a, h) == {f \in Files : HashOf[f] = h /\ bigPaths[a][f] > 0}

TotalFull_OffByOne(a) == MaxTotal > 0 /\ total[a] > MaxTotal

TotalFull(a) == MaxTotal > 0 /\ total[a] >= MaxTotal

PathFull(a, f) == MaxPerPath > 0 /\ conc[a][f] >= MaxPerPath

BigFull_OffByOne(a, f) ==
    /\ bigPaths[a][f] = 0
    /\ MaxBigFilesPerHash > 0
    /\ Cardinality(ActiveBig(a, HashOf[f])) > MaxBigFilesPerHash

BigFull(a, f) ==
    /\ bigPaths[a][f] = 0
    /\ MaxBigFilesPerHash > 0
    /\ Cardinality(ActiveBig(a, HashOf[f])) >= MaxBigFilesPerHash

(* The closure of tryAddBig. *)
ReleaseHash(r) ==
    bigPaths' = [bigPaths EXCEPT ![obj[r]][req[r].file] = @ - 1]

-----------------------------------------------------------------------------
(* Acquire *)

(* sessionID == "": an empty release closure, no accounting. *)
AcquireAnonymous(r) ==
    /\ pc[r] = "idle"
    /\ Goto(r, "unlimited")
    /\ UNCHANGED <<cache, sessions, objects, req, obj, big, recent>>

(* getSession, under the limiter's mutex. *)
GetSession(r, s, f, i) ==
    /\ pc[r] = "idle"
    /\ Goto(r, "total")
    /\ req' = [req EXCEPT ![r] = [sid |-> s, file |-> f, ip |-> i]]
    /\ \/ /\ sessions[s] # Null
          /\ obj' = [obj EXCEPT ![r] = sessions[s]]
          /\ UNCHANGED <<sessions, objects, recent>>
       \/ /\ sessions[s] = Null
          /\ \E a \in Free :
                /\ sessions' = [sessions EXCEPT ![s] = a]
                /\ obj'      = [obj EXCEPT ![r] = a]
                /\ total'    = [total EXCEPT ![a] = 0]
                /\ conc'     = [conc EXCEPT ![a] = [g \in Files |-> 0]]
                /\ bigPaths' = [bigPaths EXCEPT ![a] = [g \in Files |-> 0]]
                /\ ips'      = [ips EXCEPT ![a] = [g \in Files |-> NoAges]]
                /\ recent'   = [recent EXCEPT ![a] = [g \in Files |-> NoAges]]
    /\ UNCHANGED <<cache, big>>

(* s.total.Load(): read here, incremented only in AddTotal. *)
CheckTotal(r) ==
    /\ pc[r] = "total"
    /\ IF TotalFull(obj[r])
       THEN Return(r)
       ELSE Goto(r, "classify") /\ UNCHANGED <<req, obj, big>>
    /\ UNCHANGED <<cache, sessions, objects, recent>>

(* isBigFile, under the cache's read lock. *)
Classify(r) ==
    /\ pc[r] = "classify"
    /\ big' = [big EXCEPT ![r] = IsBigFile(req[r].file)]
    /\ Goto(r, IF IsBigFile(req[r].file) THEN "hash" ELSE "path")
    /\ UNCHANGED <<cache, sessions, objects, req, obj, recent>>

(* tryAddBig, under the hash state's mutex. *)
TryAddBig(r) ==
    /\ pc[r] = "hash"
    /\ IF BigFull(obj[r], req[r].file)
       THEN Return(r) /\ UNCHANGED bigPaths
       ELSE /\ bigPaths' = [bigPaths EXCEPT ![obj[r]][req[r].file] = @ + 1]
            /\ Goto(r, "path")
            /\ UNCHANGED <<req, obj, big>>
    /\ UNCHANGED <<cache, sessions, total, conc, ips, recent>>

(* Forgets releaseHash() on the two late refusals. *)
Refuse_KeepsSlot(r) == Return(r)

Refuse(r) ==
    IF big[r] THEN Goto(r, "unwind") /\ UNCHANGED <<req, obj, big>>
              ELSE Return(r)

(* ps.conc.Load(): read here, incremented only in AddConc. *)
CheckPath(r) ==
    /\ pc[r] = "path"
    /\ IF PathFull(obj[r], req[r].file)
       THEN Refuse(r)
       ELSE /\ Goto(r, IF MaxIPs > 0 /\ req[r].ip # NoIP THEN "ips" ELSE "addTotal")
            /\ UNCHANGED <<req, obj, big>>
    /\ UNCHANGED <<cache, sessions, objects, recent>>

(* Counts the subnets seen before this request. *)
TooManyIPs_BeforeRecording(old, ages) == Cardinality(InWindow(old)) > MaxIPs

TooManyIPs(old, ages) == Cardinality(InWindow(ages)) > MaxIPs

(* trackIP, under the path state's mutex: the client is recorded first,    *)
(* refused or not, and then the window is counted.                         *)
TrackIP(r) ==
    LET a == obj[r]  f == req[r].file  i == req[r].ip
        ages == [ips[a][f] EXCEPT ![i] = 0]
    IN  /\ pc[r] = "ips"
        /\ ips' = [ips EXCEPT ![a][f] = ages]
        /\ \/ /\ TooManyIPs(ips[a][f], ages)
              /\ Refuse(r)
              /\ UNCHANGED recent
           \/ /\ ~TooManyIPs(ips[a][f], ages)
              /\ Goto(r, "addTotal")
              /\ recent' = [recent EXCEPT ![a][f][i] = 0]
              /\ UNCHANGED <<req, obj, big>>
        /\ UNCHANGED <<cache, sessions, total, conc, bigPaths>>

(* releaseHash() on the two late refusals. *)
Unwind(r) ==
    /\ pc[r] = "unwind"
    /\ ReleaseHash(r)
    /\ Return(r)
    /\ UNCHANGED <<cache, sessions, total, conc, ips, recent>>

AddTotal(r) ==
    /\ pc[r] = "addTotal"
    /\ total' = [total EXCEPT ![obj[r]] = @ + 1]
    /\ Goto(r, "addConc")
    /\ UNCHANGED <<cache, sessions, conc, bigPaths, ips, req, obj, big, recent>>

AddConc(r) ==
    /\ pc[r] = "addConc"
    /\ conc' = [conc EXCEPT ![obj[r]][req[r].file] = @ + 1]
    /\ Goto(r, "serving")
    /\ UNCHANGED <<cache, sessions, total, bigPaths, ips, req, obj, big, recent>>

-----------------------------------------------------------------------------
(* The request is served, then its release closure runs (deferred). *)

(* The upstream answered: modifyResponse feeds the size cache. *)
Respond(r) ==
    /\ pc[r] = "serving"
    /\ CaptureFileSize(req[r].file)
    /\ UNCHANGED <<sessions, objects, pc, req, obj, big, recent>>

ReleaseAnonymous(r) ==
    /\ pc[r] = "unlimited"
    /\ Goto(r, "idle")
    /\ UNCHANGED <<cache, sessions, objects, req, obj, big, recent>>

ReleaseConc(r) ==
    /\ pc[r] = "serving"
    /\ conc' = [conc EXCEPT ![obj[r]][req[r].file] = @ - 1]
    /\ Goto(r, IF big[r] THEN "releaseHash" ELSE "releaseTotal")
    /\ UNCHANGED <<cache, sessions, total, bigPaths, ips, req, obj, big, recent>>

ReleaseBig(r) ==
    /\ pc[r] = "releaseHash"
    /\ ReleaseHash(r)
    /\ Goto(r, "releaseTotal")
    /\ UNCHANGED <<cache, sessions, total, conc, ips, req, obj, big, recent>>

LastOut_Never(a) == FALSE

LastOut(a) == total[a] - 1 <= 0

ReleaseTotal(r) ==
    /\ pc[r] = "releaseTotal"
    /\ total' = [total EXCEPT ![obj[r]] = @ - 1]
    /\ IF LastOut(obj[r])
       THEN Goto(r, "forget") /\ UNCHANGED <<req, obj, big>>
       ELSE Return(r)
    /\ UNCHANGED <<cache, sessions, conc, bigPaths, ips, recent>>

(* Under the limiter's mutex: whatever state the session id maps to NOW is *)
(* dropped if the state this request used has no request left.             *)
Forget(r) ==
    /\ pc[r] = "forget"
    /\ sessions' = IF total[obj[r]] <= 0
                   THEN [sessions EXCEPT ![req[r].sid] = Null]
                   ELSE sessions
    /\ Return(r)
    /\ UNCHANGED <<cache, objects, recent>>

(* One tick of the clock the IP window is measured with. *)
Tick ==
    /\ MaxIPs > 0
    /\ ips'    = [a \in Addrs |-> [f \in Files |-> Older(ips[a][f])]]
    /\ recent' = [a \in Addrs |-> [f \in Files |-> Older(recent[a][f])]]
    /\ UNCHANGED <<cache, sessions, total, conc, bigPaths, pc, req, obj, big>>

(* A call of Acquire or of a release closure begins. *)
Begin(r) ==
    \/ AcquireAnonymous(r) \/ ReleaseAnonymous(r) \/ ReleaseConc(r)
    \/ \E s \in Sessions, f \in Files, i \in Subnets \cup {NoIP} :
            GetSession(r, s, f, i)

(* A call goes on, or a served request hears from its upstream. *)
Continue(r) ==
    \/ CheckTotal(r) \/ Classify(r) \/ TryAddBig(r) \/ CheckPath(r)
    \/ TrackIP(r) \/ Unwind(r) \/ AddTotal(r) \/ AddConc(r)
    \/ Respond(r)
    \/ ReleaseBig(r) \/ ReleaseTotal(r) \/ Forget(r)

Step(r) == Begin(r) \/ Continue(r)

Next == Tick \/ \E r \in Requests : Step(r)

Spec == Init /\ [][Next]_vars

(* The same code when calls of Acquire and of release never overlap: one   *)
(* begins only while all other requests are idle or being served.          *)
Resting == {"idle", "unlimited", "serving"}

SerialNext ==
    Tick \/ \E r \in Requests :
        \/ (\A q \in Requests \ {r} : pc[q] \in Resting) /\ Begin(r)
        \/ Continue(r)

SerialSpec == Init /\ [][SerialNext]_vars

-----------------------------------------------------------------------------
(* Properties *)

Labels == {"idle", "unlimited", "total", "classify", "hash", "path", "ips",
           "unwind", "addTotal", "addConc", "serving", "releaseHash",
           "releaseTotal", "forget"}

Request == [sid : Sessions, file : Files, ip : Subnets \cup {NoIP}]

(* Types, and the one fact about locals every other property needs: a      *)
(* request has arguments and a session state exactly while it is inside    *)
(* Acquire, served, or releasing.                                          *)
TypeOK ==
    /\ CacheTypeOK
    /\ sessions \in [Sessions -> Addrs \cup {Null}]
    /\ total    \in [Addrs -> Int]
    /\ conc     \in [Addrs -> [Files -> Int]]
    /\ bigPaths \in [Addrs -> [Files -> Int]]
    /\ ips      \in [Addrs -> [Files -> [Subnets -> 0..Gone]]]
    /\ pc       \in [Requests -> Labels]
    /\ big      \in [Requests -> BOOLEAN]
    /\ recent   \in [Addrs -> [Files -> [Subnets -> 0..Gone]]]
    /\ DOMAIN req = Requests /\ DOMAIN obj = Requests
    /\ \A r \in Requests :
          IF pc[r] \in {"idle", "unlimited"}
          THEN req[r] = Null /\ obj[r] = Null /\ ~big[r]
          ELSE req[r] \in Request /\ obj[r] \in Addrs

(* Who holds which part of a slot. *)
InTotal(a) == {r \in Requests : obj[r] = a /\
                  pc[r] \in {"addConc", "serving", "releaseHash", "releaseTotal"}}
InConc(a, f) == {r \in Requests : obj[r] = a /\ pc[r] = "serving" /\ req[r].file = f}
InBig(a, f) == {r \in Requests : obj[r] = a /\ big[r] /\
                  pc[r] \in {"path", "ips", "unwind", "addTotal", "addConc",
                             "serving", "releaseHash"}
                  /\ req[r].file = f}

(* Every counter of every session state, mapped or already dropped from    *)
(* the map, equals the number of requests that will still decrement it:    *)
(* each refusal and each release gives back exactly what its Acquire took, *)
(* whatever other requests do in between.                                  *)
SlotAccounting ==
    \A a \in Addrs :
        /\ total[a] = Cardinality(InTotal(a))
        /\ \A f \in Files : /\ conc[a][f] = Cardinality(InConc(a, f))
                            /\ bigPaths[a][f] = Cardinality(InBig(a, f))

(* tryAddBig's promise, per hash state: at most max-big-files-per-hash     *)
(* distinct big files of one torrent are active, under any interleaving.   *)
BigCapPerState ==
    MaxBigFilesPerHash > 0 =>
        \A a \in Addrs, f \in Files :
            Cardinality(ActiveBig(a, HashOf[f])) <= MaxBigFilesPerHash

(* The sessions map does not leak: with no request in flight it is empty,  *)
(* although states are created by requests that may then be refused and    *)
(* deleted by releases that race with new arrivals.                        *)
NoSessionLeak ==
    (\A r \in Requests : pc[r] \in {"idle", "unlimited"}) =>
        \A s \in Sessions : sessions[s] = Null

(* A 429 is never spurious: a request is refused for "total" only while    *)
(* max-conc-total other requests hold a slot of its session state, for     *)
(* "bigfiles" only while others hold max-big-files-per-hash other files of *)
(* the torrent, and for "path" only while max-conc-per-path others are     *)
(* served the same file.                                                   *)
RefusalsJustified ==
    [][\A r \in Requests :
         /\ (pc[r] = "total" /\ pc'[r] = "idle")
              => Cardinality(InTotal(obj[r]) \ {r}) >= MaxTotal
         /\ (pc[r] = "hash" /\ pc'[r] = "idle")
              => Cardinality({f \in Files \ {req[r].file} :
                                /\ HashOf[f] = HashOf[req[r].file]
                                /\ InBig(obj[r], f) # {}}) >= MaxBigFilesPerHash
         /\ (pc[r] = "path" /\ pc'[r] \in {"idle", "unwind"})
              => Cardinality(InConc(obj[r], req[r].file) \ {r}) >= MaxPerPath]_vars

(* Requests of session s in flight past admission, and those for file f. *)
Admitted(s) == {r \in Requests : /\ pc[r] \in {"addConc", "serving"}
                                 /\ req[r].sid = s}
AdmittedTo(s, f) == {r \in Admitted(s) : req[r].file = f}

(* "max concurrent requests per session total" and "max concurrent         *)
(* requests per session per (torrent, path)": no session ever has more     *)
(* admitted requests than that.                                            *)
RequestLimits ==
    \A s \in Sessions :
        /\ MaxTotal > 0 => Cardinality(Admitted(s)) <= MaxTotal
        /\ MaxPerPath > 0 => \A f \in Files : Cardinality(AdmittedTo(s, f)) <= MaxPerPath

(* "max distinct big files (paths) concurrently active per session per     *)
(* torrent": counted over the session, not over one session state.         *)
BigFilesLimit ==
    MaxBigFilesPerHash > 0 =>
        \A s \in Sessions, f \in Files :
            Cardinality({g \in Files : /\ HashOf[g] = HashOf[f]
                                       /\ \E r \in AdmittedTo(s, g) : big[r]})
              <= MaxBigFilesPerHash

(* "max distinct client IPs per session per (torrent, path) within a 60s   *)
(* window", for one sessionState: the subnets admitted to a file within    *)
(* any window stay within the cap, although refused subnets are recorded   *)
(* beside the admitted ones and entries age while requests interleave.     *)
IPCapPerState ==
    MaxIPs > 0 =>
        \A a \in Addrs, f \in Files :
            Cardinality(InWindow(recent[a][f])) <= MaxIPs

(* The size cache makes a file at or above the threshold pass for a light  *)
(* one in one way only, by the length of a service's output that the       *)
(* response hook filed under the file's key; parts of the file, error      *)
(* pages, chunked answers and evictions never do.                          *)
LightOnlyByService ==
    \A f \in Files \ LightFiles :
        (SizeOf[f] >= BigFileThreshold /\ ~IsBigFile(f)) => cache[f] \in ModSizes
=============================================================================
