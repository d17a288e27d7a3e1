--------------------------- MODULE FileSizeCache ---------------------------
(***************************************************************************)
(* services/file_size_cache.go and the response hook that feeds it         *)
(* (HTTPProxy.captureFileSize, services/http_proxy.go): the upstream size  *)
(* of a file, learnt from response headers and kept until a full cache     *)
(* evicts it at random.  SessionLimiter reads it to classify a file.       *)
(*                                                                         *)
(* A file is a (infoHash, path) pair, the cache key; cache[f] = 0 stands   *)
(* for "f is not in the map" (Set never stores a size <= 0).  Every method *)
(* holds the cache's mutex for its whole body, so each is one step.        *)
(***************************************************************************)
EXTENDS Integers, FiniteSets

CONSTANTS
    Files,      \* the (infoHash, path) pairs requests ask for
    SizeOf,     \* SizeOf[f]: the true size of the file behind f
    ModSizes,   \* lengths of the responses of services run ON a file (f~hls/..)
    Capacity    \* file-size-cache-capacity

ASSUME FileSizeCacheAssumption ==
    /\ IsFiniteSet(Files)
    /\ SizeOf \in [Files -> Nat \ {0}]
    /\ ModSizes \subseteq Nat
    /\ Capacity \in Nat \ {0}

VARIABLE cache  \* [Files -> Nat], FileSizeCache.m

CacheInit == cache = [f \in Files |-> 0]

Known == {f \in Files : cache[f] > 0}

(* At capacity a tenth of the entries, at least one, is dropped first. *)
ToEvict == IF Capacity \div 10 < 1 THEN 1 ELSE Capacity \div 10

EvictCount ==
    IF Cardinality(Known) >= Capacity
    THEN IF ToEvict < Cardinality(Known) THEN ToEvict ELSE Cardinality(Known)
    ELSE 0

(* FileSizeCache.Set.  The victims are whatever Go's map iteration yields  *)
(* first, so any set of the right size; f itself may be one of them, and   *)
(* an eviction happens even when f is already present.                     *)
Set(f, size) ==
    IF size <= 0
    THEN UNCHANGED cache
    ELSE \E evicted \in {E \in SUBSET Known : Cardinality(E) = EvictCount} :
            cache' = [g \in Files |-> IF g = f THEN size
                                      ELSE IF g \in evicted THEN 0
                                      ELSE cache[g]]

SizeFromHeaders_LengthOf206(resp) ==
    IF resp.status \in {200, 206} /\ resp.length > 0 THEN resp.length ELSE 0

(* SizeFromHeaders: Content-Length of a 200, the total of a 206's          *)
(* Content-Range (0 when it is "*" or does not parse), else unknown.       *)
SizeFromHeaders(resp) ==
    IF resp.status = 206 THEN resp.total
    ELSE IF resp.status = 200 /\ resp.length > 0 THEN resp.length
    ELSE 0

(* What the upstream may answer for f.  External.  A plain request gets    *)
(* the file, whole, chunked (length -1), or one byte of it, with or        *)
(* without the total in Content-Range, or an error page.  A request whose  *)
(* URL names a service on f gets that service's output, and the response   *)
(* hook files its size under f all the same: the key is the path WITHOUT   *)
(* the modifier (WithFileKey(r, src.InfoHash, src.Path), web.go).          *)
UpstreamResponses(f) ==
    {[status |-> 200, length |-> SizeOf[f], total |-> 0],
     [status |-> 200, length |-> -1, total |-> 0],
     [status |-> 206, length |-> 1, total |-> SizeOf[f]],
     [status |-> 206, length |-> 1, total |-> 0],
     [status |-> 404, length |-> 1, total |-> 0]}
    \cup {[status |-> 200, length |-> n, total |-> 0] : n \in ModSizes}

(* HTTPProxy.captureFileSize, run by modifyResponse on every response. *)
CaptureFileSize(f) ==
    \E resp \in UpstreamResponses(f) : Set(f, SizeFromHeaders(resp))

CacheTypeOK == cache \in [Files -> Nat]
=============================================================================
