-------------------------------- MODULE Web --------------------------------
(***************************************************************************)
(* services/web.go: one request from proxyHTTP's first check to its last   *)
(* deferred call, with claims.go, http_proxy.go (the cache of reverse      *)
(* proxies, redirects, the response hook), response_writer_interceptor.go  *)
(* and throttled_request_writer.go, and the requests that services make in *)
(* turn for their X-Source-Url.                                            *)
(*                                                                         *)
(* The components with modules of their own are all switched on and appear *)
(* by what proxyHTTP sees of them: SessionLimiter as a count of one        *)
(* session's requests, read before it is raised, HybridBucket as something *)
(* to wait for, ServiceLocation as any location, RetryReader as a body     *)
(* that ends or breaks, ClickHouse as the records it was given.            *)
(***************************************************************************)
EXTENDS Integers, Sequences, FiniteSets

CONSTANTS
    Clients,    \* requests from outside: they carry X-Forwarded-For
    Nested,     \* requests of services
    Caller,     \* Caller[n]: the request whose service makes n
    Profiles,   \* Profiles[c]: what the token and the address of c may be like
    Secured,    \* an api key or secret is configured
    Pods,       \* addresses, [ip, http], of the services' pods
    Statuses,   \* status codes of upstream responses
    MaxTotal,   \* requests a session may have at once
    MaxHops,    \* 10 in the code
    MaxWrites   \* writes a response body takes at most

Requests == Clients \cup Nested
AllProfiles == UNION {Profiles[c] : c \in Clients}
NoStatus == 0
SwitchingProtocols == 101
Unavailable == [ip |-> "<nil>", http |-> 0]
Locations == Pods \cup {Unavailable}
None == [ip |-> "none", http |-> 0]

ASSUME WebAssumption ==
    /\ IsFiniteSet(Clients) /\ IsFiniteSet(Nested) /\ Clients \cap Nested = {}
    /\ Caller \in [Nested -> Requests]
    /\ AllProfiles # {}
    /\ AllProfiles \subseteq [otherHash : BOOLEAN, session : BOOLEAN, moved : BOOLEAN,
                              rate : {"none", "good", "bad"}]
    /\ Secured \in BOOLEAN
    /\ \A p \in Pods : p = [ip |-> p.ip, http |-> p.http] /\ p.http \in Nat
    /\ {Unavailable, None} \cap Pods = {}
    /\ Statuses \subseteq 200..599 \cup {SwitchingProtocols}
    /\ {MaxTotal, MaxHops, MaxWrites} \subseteq Nat \ {0}

VARIABLES
    slots,      \* the limiter's count for the session
    gauge,      \* promHTTPProxyRequestCurrent
    proxies,    \* HTTPProxy's LazyMap: what the proxy of a key talks to
    pc,         \* where each request is
    defers,     \* its deferred calls, last one first to run
    req         \* its other values, see Fresh

vars == <<slots, gauge, proxies, pc, defers, req>>
shared == <<slots, gauge, proxies>>

(* The values of a request, with those a handler starts with.  statusCode  *)
(* and bytesWritten are the ResponseWriterInterceptor's, sent and          *)
(* delivered what the client got.                                          *)
Fresh(p) ==
    [profile |-> p,
     location |-> None,                 \* what Resolve returned
     target |-> None,                   \* what its reverse proxy talks to
     hops |-> 0,                        \* redirects followed
     response |-> NoStatus,             \* of the upstream
     bodies |-> 0,                      \* upstream bodies that are open
     buffer |-> FALSE,                  \* the body was read and rewritten
     statusCode |-> 200, bytesWritten |-> 0,
     sent |-> NoStatus, delivered |-> 0,
     gone |-> FALSE,                    \* who asked has left: the context is done
     records |-> <<>>]                  \* given to ClickHouse

AnyProfile == CHOOSE p \in AllProfiles : TRUE

(* Pods of one host share a proxy. *)
ProxyKey_ByIP(l) == <<l.ip, 0>>

(* "ip:port"; a location without a pod has the key "<nil>:0". *)
ProxyKey(l) == <<l.ip, l.http>>

ProxyKeys == {ProxyKey(l) : l \in Locations}

Init ==
    /\ slots = 0 /\ gauge = 0
    /\ proxies = [k \in ProxyKeys |-> None]
    /\ pc = [r \in Requests |-> "idle"]
    /\ defers = [r \in Requests |-> <<>>]
    /\ req = [r \in Requests |-> Fresh(AnyProfile)]

-----------------------------------------------------------------------------
(* Helpers *)

Goto(r, label) == pc' = [pc EXCEPT ![r] = label]

(* The interceptor keeps the first status it was made with. *)
WriteHeader_NotNoted(q, code) == [q EXCEPT !.sent = code]

(* ResponseWriterInterceptor.WriteHeader, which passes the status on. *)
WriteHeader(q, code) == [q EXCEPT !.statusCode = code, !.sent = code]

GroupedStatusCode(q) == (q.statusCode \div 100) * 100

(* Claims.Get: without a key and a secret every request has empty claims;  *)
(* else the token may be missing, of another key, not signed by the secret *)
(* or, at any time, expired.                                               *)
ClaimsMayFail == Secured
HasHash(p) == Secured /\ p.otherHash
HasSession(p) == Secured /\ p.session
HasRate(p, rate) == HasSession(p) /\ p.rate = rate

(* Counts requests of services too. *)
Limited_Internal(r) == HasSession(req[r].profile)

(* Requests the limiter counts: source == External, with a session id. *)
Limited(r) == r \in Clients /\ HasSession(req[r].profile)

(* Requests whose writer is a ThrottledResponseWriter. *)
Throttled(r) == r \in Clients /\ HasRate(req[r].profile, "good")

(* A return before anything was deferred. *)
Refuse(r, code) ==
    /\ req' = [req EXCEPT ![r] = WriteHeader(@, code)]
    /\ Goto(r, "over")
    /\ UNCHANGED <<shared, defers>>

(* Values nobody looks at any more are forgotten: where the request went,  *)
(* once it is answered, and what the handler knew, once it returns.        *)
Routed(q) == [q EXCEPT !.location = None, !.target = None]

Outcome(q) == [Routed(q) EXCEPT !.hops = 0, !.response = NoStatus, !.buffer = FALSE, !.gone = FALSE]

(* Leaves the handler without its deferred calls. *)
Return_Undeferred(r, q) ==
    /\ req' = [req EXCEPT ![r] = Outcome(q)]
    /\ Goto(r, "over")
    /\ UNCHANGED <<shared, defers>>

(* A return or a panic after that: the deferred calls run. *)
Return(r, q) ==
    /\ req' = [req EXCEPT ![r] = Outcome(q)]
    /\ Goto(r, "return")
    /\ UNCHANGED <<shared, defers>>

-----------------------------------------------------------------------------
(* The checks *)

Receive(c) ==
    /\ pc[c] = "idle"
    /\ \E p \in Profiles[c] : req' = [req EXCEPT ![c] = Fresh(p)]
    /\ Goto(c, "authorize")
    /\ UNCHANGED <<shared, defers>>

(* Handlers of Serve that end here: "/debug" and the files every site has, *)
(* and a URL that does not parse.                                          *)
ServeOther(c) ==
    /\ pc[c] = "idle"
    /\ \E code \in {200, 500} : req' = [req EXCEPT ![c].sent = code]
    /\ Goto(c, "over")
    /\ UNCHANGED <<shared, defers>>

(* The speed test: zeros for whoever has a token, past limiter, throttle   *)
(* and statistics, until they are all written or the client is gone.       *)
ServeSpeedtest(c) ==
    /\ pc[c] = "idle"
    /\ \E code \in {200} \cup (IF ClaimsMayFail THEN {403} ELSE {}) :
          req' = [req EXCEPT ![c].sent = code]
    /\ Goto(c, "over")
    /\ UNCHANGED <<shared, defers>>

(* The service of a request asks for its X-Source-Url, with the token of   *)
(* the client but no X-Forwarded-For.                                      *)
CallBack(n) ==
    LET r == Caller[n]
    IN  /\ pc[n] = "idle"
        /\ (pc[r] = "roundtrip" /\ req[r].target \in Pods) \/ req[r].bodies > 0
        /\ req' = [req EXCEPT ![n] = Fresh(req[r].profile)]
        /\ Goto(n, "authorize")
        /\ UNCHANGED <<shared, defers>>

(* A client that is not where its token was issued. *)
Moved(r) == r \in Clients /\ HasSession(req[r].profile) /\ req[r].profile.moved

(* The token; the torrent it is bound to; the subnet it was issued for. *)
Authorize(r) ==
    LET foreign == HasHash(req[r].profile)
    IN  /\ pc[r] = "authorize"
        /\ \/ (ClaimsMayFail \/ foreign) /\ Refuse(r, 403)
           \/ ~foreign /\ Moved(r) /\ Refuse(r, 429)
           \/ /\ ~foreign /\ ~Moved(r)
              /\ Goto(r, "acquire")
              /\ UNCHANGED <<shared, defers, req>>

(* SessionLimiter.Acquire reads the total of the session state it fetched  *)
(* here, which is the session's or, if the state was dropped from the map  *)
(* meanwhile, a part of it ...                                             *)
CheckTotal(r) ==
    /\ pc[r] = "acquire"
    /\ \/ Limited(r) /\ slots >= MaxTotal /\ Refuse(r, 429)
       \/ /\ Goto(r, "admit")
          /\ UNCHANGED <<shared, defers, req>>

(* ... and raises it here, if its other limits allow; other requests may   *)
(* have come in between.  Then the two defer statements.                   *)
Admit(r) ==
    /\ pc[r] = "admit"
    /\ \/ Limited(r) /\ Refuse(r, 429)
       \/ /\ slots' = IF Limited(r) THEN slots + 1 ELSE slots
          /\ gauge' = gauge + 1
          /\ defers' = [defers EXCEPT ![r] = IF Limited(r) THEN <<"release", "stats">>
                                             ELSE <<"stats">>]
          /\ Goto(r, "bucket")
          /\ UNCHANGED <<proxies, req>>

(* HybridBucketPool.Get fails for a rate it cannot read. *)
GetBucket(r) ==
    /\ pc[r] = "bucket"
    /\ \/ /\ r \in Clients /\ HasRate(req[r].profile, "bad")
          /\ Return(r, WriteHeader(req[r], 500))
       \/ /\ ~(r \in Clients /\ HasRate(req[r].profile, "bad"))
          /\ Goto(r, "proxy")
          /\ UNCHANGED <<shared, defers, req>>

-----------------------------------------------------------------------------
(* The proxy *)

(* HTTPProxy.Get: Resolve may fail, or panic; its answer decides which     *)
(* proxy is used, an older one if the LazyMap has it.                      *)
GetProxy(r) ==
    /\ pc[r] = "proxy"
    /\ \/ Return(r, WriteHeader(req[r], 500))
       \/ Return(r, req[r])
       \/ \E l \in Locations :
             LET k == ProxyKey(l)
                 t == IF proxies[k] = None THEN l ELSE proxies[k]
             IN  /\ proxies' = [proxies EXCEPT ![k] = t]
                 /\ req' = [req EXCEPT ![r].location = l, ![r].target = t]
                 /\ Goto(r, "roundtrip")
                 /\ UNCHANGED <<slots, gauge, defers>>

(* Sixty seconds after it was made.  External. *)
ProxyExpires(k) ==
    /\ proxies[k] # None
    /\ proxies' = [proxies EXCEPT ![k] = None]
    /\ UNCHANGED <<slots, gauge, pc, defers, req>>

(* Who waits for the response leaves, and net/http ends the request's      *)
(* context.  External.                                                     *)
ClientGone(r) ==
    /\ pc[r] \in {"roundtrip", "hop", "manifest", "copy", "throttle", "write"}
    /\ ~req[r].gone
    /\ req' = [req EXCEPT ![r].gone = TRUE]
    /\ UNCHANGED <<shared, pc, defers>>

(* The request for a redirect is made without the context. *)
ContextDone_NotHop(r) == req[r].gone /\ pc[r] # "hop"

(* What the handler waits for is over, with an error: the requests it      *)
(* makes upstream and their bodies carry the context of the request.       *)
ContextDone(r) == req[r].gone

(* A pod's answer. *)
Answered(r) ==
    LET q == Routed(req[r])
    IN  /\ ~ContextDone(r)
        /\ \E s \in Statuses :
              req' = [req EXCEPT ![r] = [q EXCEPT !.response = s, !.bodies = q.bodies + 1]]
        /\ Goto(r, "redirect")
        /\ UNCHANGED <<shared, defers>>

(* The request to the pod: stubTransport answers 503 without a body; a pod *)
(* answers, or does not (ReverseProxy's error handler: 502).  A service    *)
(* answers when it has had its input.                                      *)
RoundTrip(r) ==
    /\ pc[r] = "roundtrip"
    /\ \/ /\ req[r].target = Unavailable
          /\ req' = [req EXCEPT ![r] = [Routed(@) EXCEPT !.response = 503]]
          /\ Goto(r, "modify")
          /\ UNCHANGED <<shared, defers>>
       \/ req[r].target # Unavailable /\ Return(r, WriteHeader(req[r], 502))
       \/ /\ req[r].target # Unavailable
          /\ \A n \in Nested : Caller[n] = r => pc[n] \in {"idle", "over"}
          /\ Answered(r)

MayFollow_OffByOne(q) == q.response \in {302, 307} /\ q.hops <= MaxHops

MayFollow(q) == q.response \in {302, 307} /\ q.hops < MaxHops

CloseBody_Forgotten(q) == q

CloseBody(q) == [q EXCEPT !.bodies = @ - 1]

NextHop_Same(h) == h

NextHop(h) == h + 1

(* redirectFollowingTransport: a redirect that says where to is followed,  *)
(* up to MaxHops times; the last response goes to the client.              *)
FollowRedirect(r) ==
    /\ pc[r] = "redirect"
    /\ \/ /\ MayFollow(req[r])
          /\ req' = [req EXCEPT ![r] = [CloseBody(req[r]) EXCEPT !.hops = NextHop(req[r].hops)]]
          /\ Goto(r, "hop")
       \/ /\ ~MayFollow(req[r]) \/ req[r].response \in {302, 307}
          /\ req' = [req EXCEPT ![r].hops = 0]
          /\ Goto(r, "modify")
    /\ UNCHANGED <<shared, defers>>

(* The request to where it leads, by the external transport. *)
Hop(r) ==
    /\ pc[r] = "hop"
    /\ Return(r, WriteHeader(req[r], 502)) \/ Answered(r)

(* applyResponseRules finds a rule of the token, and a body. *)
RulesMayApply(q) == Secured /\ q.bodies > 0

(* The hook before the header goes out.  A manifest under a grace rule is  *)
(* read first; after a 101 the connection is hijacked, past the            *)
(* interceptor and the throttle.                                           *)
ModifyResponse(r) ==
    LET q == req[r]
    IN  /\ pc[r] = "modify"
        /\ \/ RulesMayApply(q) /\ Goto(r, "manifest") /\ UNCHANGED req
           \/ /\ q.response # SwitchingProtocols
              /\ req' = [req EXCEPT ![r] = [WriteHeader(q, q.response) EXCEPT !.response = NoStatus]]
              /\ Goto(r, "copy")
           \/ /\ q.response = SwitchingProtocols
              /\ req' = [req EXCEPT ![r] = [q EXCEPT !.sent = q.response, !.response = NoStatus]]
              /\ Goto(r, "upgraded")
        /\ UNCHANGED <<shared, defers>>

(* It is read to its end and closed; what was read replaces it, or an      *)
(* error is reported, as it is for a 101: there is no connection left.     *)
ReadManifest(r) ==
    LET q == CloseBody(req[r])
    IN  /\ pc[r] = "manifest"
        /\ \/ Return(r, WriteHeader(q, 502))
           \/ /\ q.response # SwitchingProtocols /\ ~ContextDone(r)
              /\ req' = [req EXCEPT ![r] = [WriteHeader(q, q.response) EXCEPT
                                                 !.response = NoStatus, !.buffer = TRUE]]
              /\ Goto(r, "copy")
              /\ UNCHANGED <<shared, defers>>

(* ReverseProxy is done with the body. *)
Copied(q) == IF q.bodies > 0 THEN CloseBody(q) ELSE q

(* An upgraded connection ends when either side closes it; nobody counts   *)
(* what went through.                                                      *)
EndUpgraded(r) ==
    /\ pc[r] = "upgraded"
    /\ \E n \in 0..MaxWrites : Return(r, [Copied(req[r]) EXCEPT !.delivered = n])

(* ReverseProxy copies the body.  It ends, or breaks after all retries and *)
(* the handler is aborted; or there are bytes to write.                    *)
Copy(r) ==
    /\ pc[r] = "copy"
    /\ \/ Return(r, Copied(req[r]))
       \/ /\ req[r].buffer \/ (req[r].bodies > 0 /\ ~ContextDone(r))
          /\ req[r].bytesWritten < MaxWrites
          /\ Goto(r, IF Throttled(r) THEN "throttle" ELSE "write")
          /\ UNCHANGED <<shared, defers, req>>

(* ThrottledResponseWriter waits for the bucket, whoever has left. *)
Granted(r) ==
    /\ pc[r] = "throttle"
    /\ Goto(r, "write")
    /\ UNCHANGED <<shared, defers, req>>

(* ResponseWriterInterceptor.Write counts, then writes; the client may be  *)
(* gone.                                                                   *)
Write(r) ==
    LET counted == [req[r] EXCEPT !.bytesWritten = @ + 1]
    IN  /\ pc[r] = "write"
        /\ \/ Return(r, Copied(counted))
           \/ /\ ~ContextDone(r)
              /\ req' = [req EXCEPT ![r] = [counted EXCEPT !.delivered = @ + 1]]
              /\ Goto(r, "copy")
              /\ UNCHANGED <<shared, defers>>

-----------------------------------------------------------------------------
(* The deferred calls *)

Record(q) == [status |-> q.statusCode, bytes |-> q.bytesWritten]

Recorded(q) == q.bytesWritten > 0 /\ GroupedStatusCode(q) = 200

RunDeferred(r) ==
    LET call == defers[r][Len(defers[r])]
    IN  /\ pc[r] = "return"
        /\ defers' = [defers EXCEPT ![r] = SubSeq(@, 1, Len(@) - 1)]
        /\ Goto(r, IF Len(defers[r]) = 1 THEN "over" ELSE "return")
        /\ \/ /\ call = "stats"
              /\ req' = [req EXCEPT ![r].records =
                            IF Recorded(req[r]) THEN Append(@, Record(req[r])) ELSE @]
              /\ gauge' = gauge - 1
              /\ UNCHANGED slots
           \/ /\ call = "release"
              /\ slots' = slots - 1
              /\ UNCHANGED <<gauge, req>>
        /\ UNCHANGED proxies

(* The chains of clients, and what was asked for in them. *)
Chain(c) == {c} \cup {n \in Nested : Caller[n] = c \/ (Caller[n] \in Nested /\ Caller[Caller[n]] = c)}

(* The client's connection is free for its next request. *)
Finish(c) ==
    /\ pc[c] = "over"
    /\ \A r \in Chain(c) : pc[r] \in {"idle", "over"}
    /\ pc' = [r \in Requests |-> IF r \in Chain(c) THEN "idle" ELSE pc[r]]
    /\ req' = [r \in Requests |-> IF r \in Chain(c) THEN Fresh(AnyProfile) ELSE req[r]]
    /\ UNCHANGED <<shared, defers>>

(* Steps that wait for a pod, an upstream or the client, all of whom may   *)
(* keep the handler waiting: neither transport nor server has a timeout.   *)
Await(r) == RoundTrip(r) \/ Hop(r) \/ ReadManifest(r) \/ Copy(r) \/ Write(r)

(* Steps the handler takes by itself: those that wait for nobody, and the  *)
(* ends of waits that the request's context has ended.                     *)
Unaided(r) ==
    \/ Authorize(r) \/ CheckTotal(r) \/ Admit(r) \/ GetBucket(r)
    \/ FollowRedirect(r) \/ ModifyResponse(r) \/ RunDeferred(r)
    \/ ContextDone(r) /\ Await(r)

(* Resolving may wait for Kubernetes, a write for the bucket, an upgraded  *)
(* connection for its ends.                                                *)
Step(r) == Unaided(r) \/ Await(r) \/ GetProxy(r) \/ Granted(r) \/ EndUpgraded(r)

Next ==
    \/ \E c \in Clients : Receive(c) \/ ServeOther(c) \/ ServeSpeedtest(c) \/ Finish(c)
    \/ \E n \in Nested : CallBack(n)
    \/ \E r \in Requests : Step(r) \/ ClientGone(r)
    \/ \E k \in ProxyKeys : ProxyExpires(k)

(* A goroutine that waits for nobody is scheduled. *)
Spec == Init /\ [][Next]_vars /\ \A r \in Requests : WF_vars(Unaided(r))

-----------------------------------------------------------------------------
(* Properties *)

Serving == {"bucket", "proxy", "roundtrip", "redirect", "hop", "modify", "manifest", "copy",
            "throttle", "write", "upgraded", "return"}

(* Where a handler depends on others. *)
Waiting == {"proxy", "roundtrip", "hop", "manifest", "copy", "throttle", "write", "upgraded"}

TypeOK ==
    /\ slots \in 0..Cardinality(Clients) /\ gauge \in 0..Cardinality(Requests)
    /\ proxies \in [ProxyKeys -> Locations \cup {None}]
    /\ pc \in [Requests -> {"idle", "authorize", "acquire", "admit", "over"} \cup Serving]
    /\ defers \in [Requests -> {<<>>, <<"stats">>, <<"release">>, <<"release", "stats">>}]
    /\ req \in [Requests ->
                   [profile : AllProfiles, location : Locations \cup {None},
                    target : Locations \cup {None}, hops : 0..MaxHops,
                    response : Statuses \cup {NoStatus, 503}, bodies : 0..1, buffer : BOOLEAN,
                    statusCode : 200..599, bytesWritten : 0..MaxWrites,
                    sent : 200..599 \cup {NoStatus, SwitchingProtocols},
                    delivered : 0..MaxWrites, gone : BOOLEAN,
                    records : {<<>>} \cup {<<x>> : x \in [status : 200..299, bytes : 1..MaxWrites]}]]

(* The session's slots and the gauge are what is really in flight, and     *)
(* every slot is held until the client has its last byte: whichever way a  *)
(* request leaves proxyHTTP, by a refusal, an error, a panic of the        *)
(* resolution or an aborted copy, it gives back what it took, once.        *)
HeldWhileServing ==
    /\ slots = Cardinality({r \in Requests : Limited(r) /\ pc[r] \in Serving})
    /\ gauge = Cardinality({r \in Requests :
                  /\ pc[r] \in Serving
                  /\ pc[r] = "return" => \E i \in DOMAIN defers[r] : defers[r][i] = "stats"})

(* The statistics tell what clients got: a finished request is in them     *)
(* once if it sent bytes under a 2xx, with the status the client saw and   *)
(* the bytes it got, up to one write that failed, and else not at all (nor *)
(* is a connection that was upgraded, whatever went through it).           *)
RecordedAsSent ==
    \A r \in Requests :
        LET q == req[r] IN
        pc[r] = "over" =>
            IF q.bytesWritten > 0 /\ q.sent \in 200..299
            THEN /\ Len(q.records) = 1
                 /\ q.records[1].status = q.sent
                 /\ q.records[1].bytes \in {q.delivered, q.delivered + 1}
            ELSE q.records = <<>>

(* No response body stays open behind a request, over redirects, failed    *)
(* rewriting and aborted copies; a leaked one keeps its connection.        *)
BodiesClosed == \A r \in Requests : pc[r] \in {"return", "over"} => req[r].bodies = 0

(* The cached proxy a request uses talks to the pod that was resolved for  *)
(* it, on its host and its port, and answers 503 by itself only when no    *)
(* pod was: with locations that change and proxies that stay for a minute. *)
RightTarget == \A r \in Requests : req[r].target = req[r].location

(* Clients that hold a slot, in other chains than the one r belongs to. *)
OthersServed(r) == {c \in Clients : r \notin Chain(c) /\ Limited(c) /\ pc[c] \in Serving}

(* A request is refused for the session's total only while the session has *)
(* as many other clients' requests in flight as it may have: never for a   *)
(* slot that was not given back, nor for what its own chain of services    *)
(* asks for, as it would be all the time if the limit is one.              *)
RefusedForOthers ==
    [][\A r \in Requests : (pc[r] = "acquire" /\ pc'[r] = "over")
           => Cardinality(OthersServed(r)) >= MaxTotal]_vars

(* A request whose client leaves while it waits for a pod, for a redirect, *)
(* for a body or for the client itself never stays there for ever, but     *)
(* comes to its end and runs its deferred calls, whatever pods and other   *)
(* upstreams do; only the wait for the bucket does not watch the context.  *)
GoneRequestsEnd ==
    \A r \in Requests : []<>(pc[r] # "return" /\ (req[r].gone => pc[r] = "throttle"))

(* Every request is over at some time, provided that none waits for ever:  *)
(* that pods and Kubernetes answer, bodies end, clients read and the       *)
(* bucket lets writes pass.  Redirects, the calls of services and the      *)
(* deferred calls then come to an end.                                     *)
RequestEnds ==
    (\A r \in Requests : []<>(pc[r] \notin Waiting))
        => \A r \in Requests : []<>(pc[r] \in {"idle", "over"})
=============================================================================
