----------------------------- MODULE WebProofs -----------------------------
(***************************************************************************)
(* Theorems about Web, for any number of clients, services and pods and    *)
(* every limit.                                                            *)
(*                                                                         *)
(* Requests share only the slots, the gauge and the cached proxies.  What  *)
(* there is to know about one request, Local, is a relation of its place,  *)
(* its deferred calls and its values; every action but Finish changes one  *)
(* request, and Finish resets requests that are over.                      *)
(***************************************************************************)
EXTENDS Web, FiniteSetTheorems, SequenceTheorems, TLAPS

Labels == {"idle", "authorize", "acquire", "admit", "over"} \cup Serving

Stacks == {<<>>, <<"stats">>, <<"release">>, <<"release", "stats">>}

Places == Locations \cup {None}
Hops == 0..MaxHops
Responses == Statuses \cup {NoStatus, 503}
Codes == 200..599
Answers == Codes \cup {SwitchingProtocols}
SentCodes == Answers \cup {NoStatus}
Counts == 0..MaxWrites
StatRows == {<<>>} \cup {<<x>> : x \in [status : 200..299, bytes : 1..MaxWrites]}

Values ==
    [profile : AllProfiles, location : Places, target : Places, hops : Hops,
     response : Responses, bodies : 0..1, buffer : BOOLEAN,
     statusCode : Codes, bytesWritten : Counts,
     sent : SentCodes, delivered : Counts, gone : BOOLEAN, records : StatRows]

(* Limited of a request with values q. *)
LimitedBy(r, q) == r \in Clients /\ HasSession(q.profile)

(* The deferred calls a request has at each place. *)
StackOf(r, p, d, q) ==
    /\ p \in {"idle", "authorize", "acquire", "admit", "over"} => d = <<>>
    /\ p \in Serving \ {"return"} =>
          d = IF LimitedBy(r, q) THEN <<"release", "stats">> ELSE <<"stats">>
    /\ p = "return" =>
          IF LimitedBy(r, q) THEN d \in {<<"release", "stats">>, <<"release">>} ELSE d = <<"stats">>

(* The upstream body that is open there, and the response it belongs to. *)
BodiesAt(p, q) ==
    /\ p \notin {"redirect", "modify", "manifest", "copy", "throttle", "write", "upgraded"} => q.bodies = 0
    /\ p \in {"redirect", "manifest"} => q.bodies = 1
    /\ p \in {"redirect", "modify", "manifest"} => q.response \in Answers

(* What the interceptor noted, against what was sent. *)
Noted(p, q) ==
    /\ p \notin {"copy", "throttle", "write", "return", "over"} => q.bytesWritten = 0 /\ q.delivered = 0
    /\ p \in {"copy", "throttle", "write"} => q.delivered = q.bytesWritten /\ q.sent = q.statusCode
    /\ p \in {"throttle", "write"} => q.bytesWritten < MaxWrites
    /\ q.bytesWritten > 0 => /\ q.sent = q.statusCode
                             /\ q.bytesWritten \in {q.delivered, q.delivered + 1}

(* The statistics after the deferred call that writes them, and before. *)
InStats(q) ==
    IF q.bytesWritten > 0 /\ q.sent \in 200..299
    THEN q.records = <<[status |-> q.sent, bytes |-> q.bytesWritten]>>
    ELSE q.records = <<>>

StatsAt(p, d, q) ==
    IF p = "over" \/ (p = "return" /\ d = <<"release">>) THEN InStats(q) ELSE q.records = <<>>

Local(r, p, d, q) ==
    /\ p \in Labels /\ d \in Stacks /\ q \in Values
    /\ q.target = q.location
    /\ StackOf(r, p, d, q)
    /\ BodiesAt(p, q)
    /\ Noted(p, q)
    /\ StatsAt(p, d, q)

LocalOK ==
    /\ pc \in [Requests -> Labels] /\ defers \in [Requests -> Stacks] /\ req \in [Requests -> Values]
    /\ \A r \in Requests : Local(r, pc[r], defers[r], req[r])

(* A cached proxy is for the one location with its key. *)
ProxiesOK ==
    /\ proxies \in [ProxyKeys -> Locations \cup {None}]
    /\ \A l \in Locations : proxies[ProxyKey(l)] \in {None, l}

(* The requests that hold a slot, and those in the gauge. *)
HasSlot(r, p, q) == LimitedBy(r, q) /\ p \in Serving
InGauge(p, d) == p \in Serving /\ (p = "return" => \E i \in DOMAIN d : d[i] = "stats")

Slotted == {r \in Requests : HasSlot(r, pc[r], req[r])}
Gauged == {r \in Requests : InGauge(pc[r], defers[r])}

CountsOK == slots = Cardinality(Slotted) /\ gauge = Cardinality(Gauged)

Inv == LocalOK /\ ProxiesOK /\ CountsOK

-----------------------------------------------------------------------------
(* Helpers *)

LEMMA RequestsFinite == IsFiniteSet(Requests)
BY WebAssumption, FS_Union DEF Requests

LEMMA AnyProfileType == AnyProfile \in AllProfiles
BY WebAssumption DEF AnyProfile

LEMMA BoundsType == MaxTotal \in Nat \ {0} /\ MaxHops \in Nat \ {0} /\ MaxWrites \in Nat \ {0}
BY WebAssumption

(* Two locations have one key only if they are the same. *)
LEMMA KeysDiffer ==
    ASSUME NEW l \in Locations, NEW m \in Locations, ProxyKey(l) = ProxyKey(m)
    PROVE  l = m
<1>1. l.ip = m.ip /\ l.http = m.http
  BY DEF ProxyKey
<1>2. l = [ip |-> l.ip, http |-> l.http] /\ m = [ip |-> m.ip, http |-> m.http]
  BY WebAssumption DEF Locations, Unavailable
<1>3. QED
  BY <1>1, <1>2

LEMMA FreshLocal ==
    ASSUME NEW r \in Requests, NEW p \in AllProfiles, NEW label \in {"idle", "authorize"}
    PROVE  Local(r, label, <<>>, Fresh(p))
<1>1. Fresh(p) \in Values
  BY BoundsType DEF Fresh, Values, NoStatus, None, Places, Hops, Responses, Codes, Answers, SentCodes, Counts, StatRows
<1>2. QED
  BY <1>1 DEF Local, Labels, Serving, Stacks, StackOf, BodiesAt, Noted, StatsAt, Fresh

(* One request moves; what holds of it afterwards is all there is to show. *)
LEMMA OneMoves ==
    ASSUME LocalOK, NEW r \in Requests, NEW p, NEW d, NEW q,
           pc' = [pc EXCEPT ![r] = p], defers' = [defers EXCEPT ![r] = d],
           req' = [req EXCEPT ![r] = q], Local(r, p, d, q)
    PROVE  LocalOK'
<1>1. p \in Labels /\ d \in Stacks /\ q \in Values
  BY DEF Local
<1>2. pc' \in [Requests -> Labels] /\ defers' \in [Requests -> Stacks] /\ req' \in [Requests -> Values]
  BY <1>1 DEF LocalOK
<1>3. ASSUME NEW x \in Requests PROVE Local(x, pc'[x], defers'[x], req'[x])
  <2>1. CASE x = r
    BY <2>1 DEF LocalOK
  <2>2. CASE x # r
    <3>1. pc'[x] = pc[x] /\ defers'[x] = defers[x] /\ req'[x] = req[x]
      BY <2>2 DEF LocalOK
    <3>2. QED
      BY <3>1 DEF LocalOK
  <2>3. QED
    BY <2>1, <2>2
<1>4. QED
  BY <1>2, <1>3 DEF LocalOK

(* A move inside the handler, or outside of it, that runs no deferred      *)
(* call: the shared counters stay what they were.                          *)
LEMMA QuietMove ==
    ASSUME Inv, NEW r \in Requests, NEW p, NEW q,
           Goto(r, p), req' = [req EXCEPT ![r] = q], UNCHANGED <<slots, gauge, defers>>,
           pc[r] # "return", Local(r, p, defers[r], q), ProxiesOK',
           p \in Serving <=> pc[r] \in Serving,
           p \in Serving => q.profile = req[r].profile
    PROVE  Inv'
<1>0. LocalOK /\ pc[r] \in Labels /\ defers \in [Requests -> Stacks]
  BY DEF Inv, LocalOK
<1>1. defers' = [defers EXCEPT ![r] = defers[r]]
  BY <1>0
<1>2. LocalOK'
  BY <1>0, <1>1, OneMoves DEF Goto
<1>3. \A x \in Requests \ {r} : pc'[x] = pc[x] /\ req'[x] = req[x] /\ defers'[x] = defers[x]
  BY <1>0 DEF LocalOK, Goto
<1>4. pc'[r] = p /\ req'[r] = q /\ defers'[r] = defers[r]
  BY <1>0 DEF LocalOK, Goto
<1>5. Slotted' = Slotted
  BY <1>3, <1>4 DEF Slotted, HasSlot, LimitedBy
<1>6. InGauge(p, defers[r]) <=> InGauge(pc[r], defers[r])
  <2>1. CASE pc[r] \in Serving
    <3>1. defers[r] \in {<<"release", "stats">>, <<"stats">>}
      BY <1>0, <2>1 DEF LocalOK, Local, StackOf
    <3>2. \E i \in DOMAIN defers[r] : defers[r][i] = "stats"
      <4>1. CASE defers[r] = <<"stats">>
        <5>1. 1 \in DOMAIN defers[r] /\ defers[r][1] = "stats"
          BY <4>1
        <5>2. QED
          BY <5>1
      <4>2. CASE defers[r] = <<"release", "stats">>
        <5>1. 2 \in DOMAIN defers[r] /\ defers[r][2] = "stats"
          BY <4>2
        <5>2. QED
          BY <5>1
      <4>3. QED
        BY <3>1, <4>1, <4>2
    <3>3. QED
      BY <2>1, <3>2 DEF InGauge
  <2>2. CASE pc[r] \notin Serving
    BY <2>2 DEF InGauge
  <2>3. QED
    BY <2>1, <2>2
<1>7. Gauged' = Gauged
  BY <1>3, <1>4, <1>6 DEF Gauged
<1>8. QED
  BY <1>2, <1>5, <1>7 DEF Inv, CountsOK

-----------------------------------------------------------------------------
(* Exits *)

LEMMA WriteHeaderType ==
    ASSUME NEW q \in Values, NEW code \in Codes
    PROVE  WriteHeader(q, code) \in Values
BY DEF WriteHeader, Values, Answers, SentCodes

LEMMA OutcomeType ==
    ASSUME NEW q \in Values
    PROVE  Outcome(q) \in Values
<1> DEFINE a == Routed(q)
           b == [a EXCEPT !.hops = 0, !.response = NoStatus]
<1>1. None \in Places /\ 0 \in Hops /\ NoStatus \in Responses
  BY BoundsType DEF Places, Hops, Responses
<1>2. a \in Values
  BY <1>1 DEF Values, Routed
<1>3. Outcome(q) = [b EXCEPT !.buffer = FALSE, !.gone = FALSE]
  BY DEF Outcome
<1> HIDE DEF a
<1>4. b \in Values
  BY <1>1, <1>2 DEF Values
<1> HIDE DEF b
<1>5. QED
  BY <1>3, <1>4, Zenon DEF Values

LEMMA StacksDiffer ==
    /\ <<"release", "stats">> # <<"release">> /\ <<"stats">> # <<"release">>
    /\ <<"release", "stats">> # <<>> /\ <<"stats">> # <<>> /\ <<"release">> # <<>>
<1>1. Len(<<"release", "stats">>) = 2 /\ Len(<<"release">>) = 1 /\ Len(<<"stats">>) = 1 /\ Len(<<>>) = 0
  OBVIOUS
<1>2. <<"stats">>[1] = "stats" /\ <<"release">>[1] = "release"
  OBVIOUS
<1>3. QED
  BY <1>1, <1>2, Zenon

LEMMA RefuseInv ==
    ASSUME Inv, NEW r \in Requests, NEW code \in {403, 429},
           pc[r] \in {"authorize", "acquire", "admit"}, Refuse(r, code)
    PROVE  Inv'
<1> DEFINE q == WriteHeader(req[r], code)
<1>1. Local(r, pc[r], defers[r], req[r]) /\ req \in [Requests -> Values]
  BY DEF Inv, LocalOK
<1>2. q \in Values
  BY <1>1, WriteHeaderType DEF Local, Codes
<1>3. Local(r, "over", defers[r], q)
  <2>1. /\ q.target = req[r].target /\ q.location = req[r].location /\ q.bodies = req[r].bodies
        /\ q.bytesWritten = req[r].bytesWritten
        /\ q.records = req[r].records /\ q.profile = req[r].profile
    BY <1>1 DEF Local, WriteHeader, Values
  <2>2. req[r].bytesWritten = 0
    BY <1>1 DEF Local, Noted
  <2>3. StackOf(r, "over", defers[r], q) /\ BodiesAt("over", q)
    BY <1>1, <2>1 DEF Local, StackOf, BodiesAt, Serving
  <2>4. Noted("over", q)
    BY <1>1, <2>1, <2>2 DEF Local, Noted
  <2>5. StatsAt("over", defers[r], q)
    BY <1>1, <2>1, <2>2 DEF Local, StatsAt, InStats
  <2>6. QED
    BY <1>1, <1>2, <2>1, <2>3, <2>4, <2>5 DEF Local, Labels
<1>4. pc[r] \notin Serving /\ "over" \notin Serving /\ pc[r] # "return"
  BY DEF Serving
<1>5. req' = [req EXCEPT ![r] = q]
  BY <1>1 DEF Refuse
<1>6. Goto(r, "over") /\ UNCHANGED <<slots, gauge, defers>> /\ ProxiesOK'
  BY DEF Refuse, shared, Inv, ProxiesOK
<1> HIDE DEF q
<1>7. QED
  BY <1>3, <1>4, <1>5, <1>6, QuietMove DEF Serving

(* A return that leaves the deferred calls to run, with values q. *)
LEMMA ReturnInv ==
    ASSUME Inv, NEW r \in Requests, NEW q \in Values,
           pc[r] \in Serving \ {"return"}, Return(r, q),
           q.profile = req[r].profile, q.bodies = 0, q.records = <<>>, Noted("return", q)
    PROVE  Inv'
<1> DEFINE o == Outcome(q)
<1>1. Local(r, pc[r], defers[r], req[r]) /\ req \in [Requests -> Values]
  BY DEF Inv, LocalOK
<1>2. o \in Values
  BY OutcomeType
<1>3. /\ o.target = None /\ o.location = None /\ o.bodies = 0 /\ o.records = <<>>
      /\ o.bytesWritten = q.bytesWritten /\ o.delivered = q.delivered
      /\ o.sent = q.sent /\ o.statusCode = q.statusCode /\ o.profile = q.profile
  BY DEF Outcome, Routed, Values
<1>4. Local(r, "return", defers[r], o)
  <2>1. StackOf(r, "return", defers[r], o)
    BY <1>1, <1>3 DEF Local, StackOf, LimitedBy, Serving
  <2>2. BodiesAt("return", o)
    BY <1>3 DEF BodiesAt
  <2>3. Noted("return", o)
    BY <1>3 DEF Noted
  <2>4. defers[r] \in {<<"release", "stats">>, <<"stats">>}
    BY <1>1 DEF Local, StackOf
  <2>5. defers[r] # <<"release">>
    BY <2>4, StacksDiffer
  <2>6. StatsAt("return", defers[r], o)
    BY <1>3, <2>5 DEF StatsAt
  <2>7. QED
    BY <1>1, <1>2, <1>3, <2>1, <2>2, <2>3, <2>6 DEF Local, Labels, Serving
<1>5. req' = [req EXCEPT ![r] = o]
  BY <1>1 DEF Return
<1>6. Goto(r, "return") /\ UNCHANGED <<slots, gauge, defers>> /\ ProxiesOK'
  BY DEF Return, shared, Inv, ProxiesOK
<1> HIDE DEF o
<1>7. QED
  BY <1>3, <1>4, <1>5, <1>6, QuietMove DEF Serving

(* An error: nothing was written yet, and no body is open. *)
LEMMA ErrorInv ==
    ASSUME Inv, NEW r \in Requests, NEW code \in {500, 502},
           pc[r] \in {"bucket", "proxy", "roundtrip", "hop"}, Return(r, WriteHeader(req[r], code))
    PROVE  Inv'
<1> DEFINE q == WriteHeader(req[r], code)
<1>1. Local(r, pc[r], defers[r], req[r]) /\ req[r] \in Values
  BY DEF Inv, LocalOK, Local
<1>2. q \in Values
  BY <1>1, WriteHeaderType DEF Codes
<1>3. /\ q.bodies = req[r].bodies /\ q.records = req[r].records /\ q.profile = req[r].profile
      /\ q.bytesWritten = req[r].bytesWritten
  BY <1>1 DEF WriteHeader, Values
<1>4. q.bodies = 0 /\ q.bytesWritten = 0 /\ q.records = <<>>
  BY <1>1, <1>3 DEF Local, BodiesAt, Noted, StatsAt
<1>5. Noted("return", q)
  BY <1>1, <1>3, <1>4 DEF Local, Noted
<1> HIDE DEF q
<1>6. pc[r] \in Serving \ {"return"}
  BY DEF Serving
<1>7. Return(r, q)
  BY DEF q
<1>8. QED
  BY <1>2, <1>3, <1>4, <1>5, <1>6, <1>7, ReturnInv

-----------------------------------------------------------------------------
(* The checks *)

LEMMA StartInv ==
    ASSUME Inv, NEW r \in Requests, pc[r] = "idle", NEW p \in AllProfiles,
           req' = [req EXCEPT ![r] = Fresh(p)], Goto(r, "authorize"), UNCHANGED <<shared, defers>>
    PROVE  Inv'
<1>1. defers[r] = <<>>
  BY DEF Inv, LocalOK, Local, StackOf
<1>2. Local(r, "authorize", defers[r], Fresh(p))
  BY <1>1, FreshLocal
<1>3. ProxiesOK' /\ UNCHANGED <<slots, gauge, defers>>
  BY DEF Inv, ProxiesOK, shared
<1>4. QED
  BY <1>2, <1>3, QuietMove DEF Serving

LEMMA AuthorizeInv ==
    ASSUME Inv, NEW r \in Requests, Authorize(r)
    PROVE  Inv'
<1>1. CASE Refuse(r, 403) \/ Refuse(r, 429)
  BY <1>1, RefuseInv DEF Authorize
<1>2. CASE Goto(r, "acquire") /\ UNCHANGED <<shared, defers, req>>
  <2>1. Local(r, pc[r], defers[r], req[r]) /\ req \in [Requests -> Values] /\ pc[r] = "authorize"
    BY DEF Inv, LocalOK, Authorize
  <2>2. Local(r, "acquire", defers[r], req[r])
    BY <2>1 DEF Local, Labels, Serving, StackOf, BodiesAt, Noted, StatsAt
  <2>3. ProxiesOK' /\ UNCHANGED <<slots, gauge, defers>> /\ req' = [req EXCEPT ![r] = req[r]]
    BY <1>2, <2>1 DEF Inv, ProxiesOK, shared
  <2>4. QED
    BY <1>2, <2>1, <2>2, <2>3, QuietMove DEF Serving
<1>3. QED
  BY <1>1, <1>2 DEF Authorize

LEMMA GetBucketInv ==
    ASSUME Inv, NEW r \in Requests, GetBucket(r)
    PROVE  Inv'
<1>1. CASE Return(r, WriteHeader(req[r], 500))
  BY <1>1, ErrorInv DEF GetBucket
<1>2. CASE Goto(r, "proxy") /\ UNCHANGED <<shared, defers, req>>
  <2>1. Local(r, pc[r], defers[r], req[r]) /\ req \in [Requests -> Values] /\ pc[r] = "bucket"
    BY DEF Inv, LocalOK, GetBucket
  <2>2. Local(r, "proxy", defers[r], req[r])
    BY <2>1 DEF Local, Labels, Serving, StackOf, BodiesAt, Noted, StatsAt
  <2>3. ProxiesOK' /\ UNCHANGED <<slots, gauge, defers>> /\ req' = [req EXCEPT ![r] = req[r]]
    BY <1>2, <2>1 DEF Inv, ProxiesOK, shared
  <2>4. QED
    BY <1>2, <2>1, <2>2, <2>3, QuietMove DEF Serving
<1>3. QED
  BY <1>1, <1>2 DEF GetBucket

(* The handlers that end without proxyHTTP. *)
LEMMA ElsewhereInv ==
    ASSUME Inv, NEW r \in Requests, pc[r] = "idle", NEW q \in Values,
           q.target = req[r].target, q.location = req[r].location, q.bodies = req[r].bodies,
           q.bytesWritten = req[r].bytesWritten,
           q.records = req[r].records, q.profile = req[r].profile,
           req' = [req EXCEPT ![r] = q], Goto(r, "over"), UNCHANGED <<shared, defers>>
    PROVE  Inv'
<1>1. Local(r, "idle", defers[r], req[r]) /\ req[r] \in Values
  BY DEF Inv, LocalOK, Local
<1>2. q.bytesWritten = 0
  BY <1>1 DEF Local, Noted
<1>3. Local(r, "over", defers[r], q)
  BY <1>1, <1>2
     DEF Local, Labels, Serving, StackOf, BodiesAt, Noted, StatsAt, InStats
<1>4. ProxiesOK' /\ UNCHANGED <<slots, gauge, defers>>
  BY DEF Inv, ProxiesOK, shared
<1>5. QED
  BY <1>3, <1>4, QuietMove DEF Serving

LEMMA AnswerElsewhereInv ==
    ASSUME Inv, NEW c \in Clients, pc[c] = "idle", NEW code \in Codes,
           req' = [req EXCEPT ![c].sent = code], Goto(c, "over"), UNCHANGED <<shared, defers>>
    PROVE  Inv'
<1> DEFINE q == [req[c] EXCEPT !.sent = code]
<1>1. c \in Requests /\ req[c] \in Values /\ req' = [req EXCEPT ![c] = q]
  BY DEF Requests, Inv, LocalOK
<1>2. q \in Values
  BY <1>1 DEF Values, Answers, SentCodes
<1>3. /\ q.target = req[c].target /\ q.location = req[c].location /\ q.bodies = req[c].bodies
      /\ q.bytesWritten = req[c].bytesWritten
      /\ q.records = req[c].records /\ q.profile = req[c].profile
  BY <1>1 DEF Values
<1> HIDE DEF q
<1>4. QED
  BY <1>1, <1>2, <1>3, ElsewhereInv

LEMMA ServeOtherInv ==
    ASSUME Inv, NEW c \in Clients, ServeOther(c)
    PROVE  Inv'
<1>1. PICK code \in {200, 500} : req' = [req EXCEPT ![c].sent = code]
  BY DEF ServeOther
<1>2. code \in Codes
  BY DEF Codes
<1>3. QED
  BY <1>1, <1>2, AnswerElsewhereInv DEF ServeOther

LEMMA ServeSpeedtestInv ==
    ASSUME Inv, NEW c \in Clients, ServeSpeedtest(c)
    PROVE  Inv'
<1>1. PICK code \in {200, 403} : req' = [req EXCEPT ![c].sent = code]
  BY DEF ServeSpeedtest
<1>2. code \in Codes
  BY DEF Codes
<1>3. QED
  BY <1>1, <1>2, AnswerElsewhereInv DEF ServeSpeedtest

LEMMA CallBackInv ==
    ASSUME Inv, NEW n \in Nested, CallBack(n)
    PROVE  Inv'
<1>1. n \in Requests /\ Caller[n] \in Requests
  BY WebAssumption DEF Requests
<1>2. req[Caller[n]].profile \in AllProfiles
  BY <1>1 DEF Inv, LocalOK, Values
<1>3. QED
  BY <1>1, <1>2, StartInv DEF CallBack

LEMMA CheckTotalInv ==
    ASSUME Inv, NEW r \in Requests, CheckTotal(r)
    PROVE  Inv'
<1>1. CASE Refuse(r, 429)
  BY <1>1, RefuseInv DEF CheckTotal
<1>2. CASE Goto(r, "admit") /\ UNCHANGED <<shared, defers, req>>
  <2>1. Local(r, pc[r], defers[r], req[r]) /\ req \in [Requests -> Values] /\ pc[r] = "acquire"
    BY DEF Inv, LocalOK, CheckTotal
  <2>2. Local(r, "admit", defers[r], req[r])
    BY <2>1 DEF Local, Labels, Serving, StackOf, BodiesAt, Noted, StatsAt
  <2>3. ProxiesOK' /\ UNCHANGED <<slots, gauge, defers>> /\ req' = [req EXCEPT ![r] = req[r]]
    BY <1>2, <2>1 DEF Inv, ProxiesOK, shared
  <2>4. QED
    BY <1>2, <2>1, <2>2, <2>3, QuietMove DEF Serving
<1>3. QED
  BY <1>1, <1>2 DEF CheckTotal

(* A request takes its slot and its place in the gauge. *)
LEMMA AdmitInv ==
    ASSUME Inv, NEW r \in Requests, Admit(r)
    PROVE  Inv'
<1> DEFINE d == IF Limited(r) THEN <<"release", "stats">> ELSE <<"stats">>
<1>1. /\ LocalOK /\ ProxiesOK /\ CountsOK /\ pc[r] = "admit"
      /\ Local(r, pc[r], defers[r], req[r]) /\ req \in [Requests -> Values]
      /\ pc \in [Requests -> Labels] /\ defers \in [Requests -> Stacks]
  BY DEF Inv, LocalOK, Admit
<1>2. CASE Refuse(r, 429)
  BY <1>1, <1>2, RefuseInv
<1>3. CASE /\ slots' = IF Limited(r) THEN slots + 1 ELSE slots
           /\ gauge' = gauge + 1
           /\ defers' = [defers EXCEPT ![r] = d]
           /\ Goto(r, "bucket")
           /\ UNCHANGED <<proxies, req>>
  <2>1. Limited(r) <=> LimitedBy(r, req[r])
    BY DEF Limited, LimitedBy
  <2>2. Local(r, "bucket", d, req[r])
    BY <1>1, <2>1 DEF Local, Labels, Serving, Stacks, StackOf, BodiesAt, Noted, StatsAt
  <2>3. req' = [req EXCEPT ![r] = req[r]]
    BY <1>1, <1>3
  <2>4. LocalOK' /\ ProxiesOK'
    BY <1>1, <1>3, <2>2, <2>3, OneMoves DEF Goto, ProxiesOK
  <2>5. \A x \in Requests \ {r} : pc'[x] = pc[x] /\ req'[x] = req[x] /\ defers'[x] = defers[x]
    BY <1>1, <1>3 DEF Goto
  <2>6. pc'[r] = "bucket" /\ req'[r] = req[r]
    BY <1>1, <1>3 DEF Goto
  <2>7. IsFiniteSet(Slotted) /\ IsFiniteSet(Gauged) /\ r \notin Slotted /\ r \notin Gauged
    <3>1. Slotted \subseteq Requests /\ Gauged \subseteq Requests
      BY DEF Slotted, Gauged
    <3>2. QED
      BY <1>1, <3>1, RequestsFinite, FS_Subset DEF Slotted, Gauged, HasSlot, InGauge, Serving
  <2>8. Gauged' = Gauged \cup {r}
    BY <2>5, <2>6 DEF Gauged, InGauge, Serving
  <2>9. Slotted' = IF Limited(r) THEN Slotted \cup {r} ELSE Slotted
    BY <2>1, <2>5, <2>6, <2>7 DEF Slotted, HasSlot, Serving
  <2>10. /\ gauge' = Cardinality(Gauged')
         /\ slots' = Cardinality(Slotted')
    BY <1>1, <1>3, <2>7, <2>8, <2>9, FS_AddElement DEF CountsOK
  <2>11. QED
    BY <2>4, <2>10 DEF Inv, CountsOK
<1>4. QED
  BY <1>2, <1>3 DEF Admit

-----------------------------------------------------------------------------
(* The proxy *)

(* A move inside the handler that touches no proxy. *)
LEMMA InnerMove ==
    ASSUME Inv, NEW r \in Requests, NEW p \in Serving, NEW q,
           pc[r] \in Serving \ {"return"}, Goto(r, p), req' = [req EXCEPT ![r] = q],
           UNCHANGED <<shared, defers>>, Local(r, p, defers[r], q), q.profile = req[r].profile
    PROVE  Inv'
<1>1. ProxiesOK' /\ UNCHANGED <<slots, gauge, defers>>
  BY DEF Inv, ProxiesOK, shared
<1>2. pc[r] # "return" /\ (p \in Serving <=> pc[r] \in Serving)
  OBVIOUS
<1>3. QED
  BY <1>1, <1>2, QuietMove

LEMMA ProxyExpiresInv ==
    ASSUME Inv, NEW k \in ProxyKeys, ProxyExpires(k)
    PROVE  Inv'
<1>1. ProxiesOK'
  BY DEF ProxyExpires, ProxiesOK, Inv, None
<1>2. LocalOK'
  BY DEF ProxyExpires, LocalOK, Inv, Local, StackOf, BodiesAt, Noted, StatsAt, InStats
<1>3. CountsOK'
  BY DEF ProxyExpires, CountsOK, Inv, Slotted, Gauged
<1>4. QED
  BY <1>1, <1>2, <1>3 DEF Inv

(* The proxy that is found, or made, is for the location just resolved. *)
LEMMA GetProxyInv ==
    ASSUME Inv, NEW r \in Requests, GetProxy(r)
    PROVE  Inv'
<1>1. /\ pc[r] = "proxy" /\ req \in [Requests -> Values] /\ req[r] \in Values
      /\ Local(r, "proxy", defers[r], req[r])
  BY DEF Inv, LocalOK, GetProxy
<1>2. CASE Return(r, WriteHeader(req[r], 500))
  BY <1>1, <1>2, ErrorInv
<1>3. CASE Return(r, req[r])
  <2>1. Noted("return", req[r]) /\ req[r].bodies = 0 /\ req[r].records = <<>>
    BY <1>1 DEF Local, Noted, BodiesAt, StatsAt
  <2>2. QED
    BY <1>1, <1>3, <2>1, ReturnInv DEF Serving
<1>4. CASE \E l \in Locations :
             LET k == ProxyKey(l)
                 t == IF proxies[k] = None THEN l ELSE proxies[k]
             IN  /\ proxies' = [proxies EXCEPT ![k] = t]
                 /\ req' = [req EXCEPT ![r].location = l, ![r].target = t]
                 /\ Goto(r, "roundtrip")
                 /\ UNCHANGED <<slots, gauge, defers>>
  <2>0. PICK l \in Locations :
             /\ proxies' = [proxies EXCEPT ![ProxyKey(l)] =
                               IF proxies[ProxyKey(l)] = None THEN l ELSE proxies[ProxyKey(l)]]
             /\ req' = [req EXCEPT ![r].location = l,
                           ![r].target = IF proxies[ProxyKey(l)] = None THEN l ELSE proxies[ProxyKey(l)]]
             /\ Goto(r, "roundtrip")
             /\ UNCHANGED <<slots, gauge, defers>>
    BY <1>4
  <2> DEFINE q == [req[r] EXCEPT !.location = l, !.target = l]
  <2>1. (IF proxies[ProxyKey(l)] = None THEN l ELSE proxies[ProxyKey(l)]) = l
    BY DEF Inv, ProxiesOK
  <2>2. req' = [req EXCEPT ![r] = q] /\ proxies' = [proxies EXCEPT ![ProxyKey(l)] = l]
    BY <1>1, <2>0, <2>1
  <2>3. ProxiesOK'
    <3>1. ProxyKey(l) \in ProxyKeys /\ proxies \in [ProxyKeys -> Locations \cup {None}]
      BY DEF ProxyKeys, Inv, ProxiesOK
    <3>2. proxies' \in [ProxyKeys -> Locations \cup {None}]
      BY <2>2, <3>1
    <3>3. ASSUME NEW m \in Locations PROVE proxies'[ProxyKey(m)] \in {None, m}
      <4>1. CASE ProxyKey(m) = ProxyKey(l)
        BY <2>2, <3>1, <4>1, KeysDiffer
      <4>2. CASE ProxyKey(m) # ProxyKey(l)
        BY <2>2, <3>1, <4>2 DEF Inv, ProxiesOK, ProxyKeys
      <4>3. QED
        BY <4>1, <4>2
    <3>4. QED
      BY <3>2, <3>3 DEF ProxiesOK
  <2>4. l \in Places
    BY DEF Places
  <2>5. q \in Values
    BY <1>1, <2>4 DEF Values
  <2>6. /\ q.target = l /\ q.location = l /\ q.bodies = req[r].bodies
        /\ q.delivered = req[r].delivered /\ q.bytesWritten = req[r].bytesWritten
        /\ q.records = req[r].records /\ q.profile = req[r].profile
    BY <1>1 DEF Values
  <2> HIDE DEF q
  <2>7. q.bytesWritten = 0 /\ q.delivered = 0
    BY <1>1, <2>6 DEF Local, Noted
  <2>8. StackOf(r, "roundtrip", defers[r], q) /\ BodiesAt("roundtrip", q)
    BY <1>1, <2>6 DEF Local, StackOf, LimitedBy, BodiesAt, Serving
  <2>9. Noted("roundtrip", q) /\ StatsAt("roundtrip", defers[r], q)
    BY <1>1, <2>6, <2>7 DEF Local, Noted, StatsAt
  <2>10. Local(r, "roundtrip", defers[r], q)
    BY <1>1, <2>5, <2>6, <2>8, <2>9 DEF Local, Labels, Serving
  <2>11. QED
    BY <1>1, <2>0, <2>2, <2>3, <2>6, <2>10, QuietMove DEF Serving
<1>5. QED
  BY <1>2, <1>3, <1>4 DEF GetProxy

(* The fields the invariant speaks of, bodies and what was sent aside. *)
Same(q, x) ==
    /\ q.profile = x.profile /\ (x.target = x.location => q.target = q.location)
    /\ q.bytesWritten = x.bytesWritten /\ q.delivered = x.delivered /\ q.records = x.records

(* Steps between the first request to the pod and the response hook. *)
LEMMA UpstreamMove ==
    ASSUME Inv, NEW r \in Requests, pc[r] \in {"roundtrip", "redirect", "hop"},
           NEW p \in {"redirect", "hop", "modify"}, NEW q \in Values, Same(q, req[r]),
           BodiesAt(p, q), Goto(r, p), req' = [req EXCEPT ![r] = q], UNCHANGED <<shared, defers>>
    PROVE  Inv'
<1>1. Local(r, pc[r], defers[r], req[r])
  BY DEF Inv, LocalOK
<1>2. req[r].bytesWritten = 0 /\ req[r].delivered = 0 /\ req[r].records = <<>>
  BY <1>1 DEF Local, Noted, StatsAt
<1>3. StackOf(r, p, defers[r], q)
  BY <1>1 DEF Local, StackOf, LimitedBy, Serving, Same
<1>4. Noted(p, q) /\ StatsAt(p, defers[r], q)
  BY <1>1, <1>2 DEF Local, Noted, StatsAt, Same
<1>5. Local(r, p, defers[r], q)
  BY <1>1, <1>3, <1>4 DEF Local, Labels, Serving, Same
<1>6. QED
  BY <1>5, InnerMove DEF Serving, Same

LEMMA RoutedType ==
    ASSUME NEW q \in Values
    PROVE  Routed(q) \in Values /\ Same(Routed(q), q) /\ Routed(q).bodies = q.bodies
<1>1. None \in Places
  BY DEF Places
<1>2. QED
  BY <1>1 DEF Routed, Values, Same

LEMMA AnswerType ==
    ASSUME NEW q \in Values, q.bodies = 0, NEW s \in Statuses
    PROVE  LET a == [q EXCEPT !.response = s, !.bodies = q.bodies + 1]
           IN  a \in Values /\ Same(a, q) /\ a.bodies = 1 /\ a.response \in Answers
<1> DEFINE a == [q EXCEPT !.response = s, !.bodies = q.bodies + 1]
<1>1. s \in Responses /\ q.bodies + 1 = 1 /\ 1 \in 0..1
  BY DEF Responses
<1>2. a = [q EXCEPT !.response = s, !.bodies = 1]
  BY <1>1
<1>3. a \in Values
  BY <1>1, <1>2 DEF Values
<1>4. Same(a, q) /\ a.bodies = 1 /\ a.response = s
  BY <1>2 DEF Values, Same
<1>5. s \in Answers
  BY WebAssumption DEF Codes, Answers
<1>6. QED
  BY <1>3, <1>4, <1>5

LEMMA CloseBodyType ==
    ASSUME NEW q \in Values, q.bodies > 0
    PROVE  /\ CloseBody(q) \in Values /\ Same(CloseBody(q), q) /\ CloseBody(q).bodies = 0
           /\ CloseBody(q).sent = q.sent /\ CloseBody(q).statusCode = q.statusCode
           /\ CloseBody(q).response = q.response
<1>1. q.bodies - 1 = 0
  BY DEF Values
<1>2. CloseBody(q) = [q EXCEPT !.bodies = 0]
  BY <1>1 DEF CloseBody
<1>3. QED
  BY <1>2 DEF Values, Same

LEMMA CopiedType ==
    ASSUME NEW q \in Values
    PROVE  /\ Copied(q) \in Values /\ Same(Copied(q), q) /\ Copied(q).bodies = 0
           /\ Copied(q).sent = q.sent /\ Copied(q).statusCode = q.statusCode
<1>1. CASE q.bodies > 0
  BY <1>1, CloseBodyType DEF Copied
<1>2. CASE ~(q.bodies > 0)
  BY <1>2 DEF Copied, Values, Same
<1>3. QED
  BY <1>1, <1>2

LEMMA AnsweredInv ==
    ASSUME Inv, NEW r \in Requests, pc[r] \in {"roundtrip", "hop"}, Answered(r)
    PROVE  Inv'
<1> DEFINE x == Routed(req[r])
<1>1. PICK s \in Statuses : req' = [req EXCEPT ![r] = [x EXCEPT !.response = s, !.bodies = x.bodies + 1]]
  BY DEF Answered
<1> DEFINE a == [x EXCEPT !.response = s, !.bodies = x.bodies + 1]
<1>2. req[r] \in Values /\ req[r].bodies = 0
  BY DEF Inv, LocalOK, Local, BodiesAt
<1>3. x \in Values /\ Same(x, req[r]) /\ x.bodies = 0
  BY <1>2, RoutedType
<1> HIDE DEF x
<1>4. a \in Values /\ Same(a, x) /\ a.bodies = 1 /\ a.response \in Answers
  BY <1>3, AnswerType
<1>5. req' = [req EXCEPT ![r] = a]
  BY <1>1
<1> HIDE DEF a
<1>6. BodiesAt("redirect", a) /\ Same(a, req[r])
  BY <1>3, <1>4 DEF BodiesAt, Same
<1>7. QED
  BY <1>4, <1>5, <1>6, UpstreamMove DEF Answered

LEMMA RoundTripInv ==
    ASSUME Inv, NEW r \in Requests, RoundTrip(r)
    PROVE  Inv'
<1>1. pc[r] = "roundtrip" /\ req[r] \in Values /\ req[r].bodies = 0
  BY DEF Inv, LocalOK, RoundTrip, Local, BodiesAt
<1>2. CASE /\ req' = [req EXCEPT ![r] = [Routed(@) EXCEPT !.response = 503]]
           /\ Goto(r, "modify") /\ UNCHANGED <<shared, defers>>
  <2> DEFINE x == Routed(req[r])
             q == [x EXCEPT !.response = 503]
  <2>1. 503 \in Responses /\ 503 \in Answers
    BY DEF Responses, Codes, Answers
  <2>2. x \in Values /\ Same(x, req[r]) /\ x.bodies = 0
    BY <1>1, RoutedType
  <2>3. req' = [req EXCEPT ![r] = q]
    BY <1>2
  <2> HIDE DEF x
  <2>4. q \in Values /\ Same(q, x) /\ q.response = 503
    BY <2>1, <2>2 DEF Values, Same
  <2> HIDE DEF q
  <2>5. BodiesAt("modify", q) /\ Same(q, req[r])
    BY <2>1, <2>2, <2>4 DEF BodiesAt, Same
  <2>6. QED
    BY <1>1, <1>2, <2>3, <2>4, <2>5, UpstreamMove
<1>3. CASE Return(r, WriteHeader(req[r], 502))
  BY <1>1, <1>3, ErrorInv
<1>4. CASE Answered(r)
  BY <1>1, <1>4, AnsweredInv
<1>5. QED
  BY <1>2, <1>3, <1>4 DEF RoundTrip

LEMMA HopInv ==
    ASSUME Inv, NEW r \in Requests, Hop(r)
    PROVE  Inv'
BY ErrorInv, AnsweredInv DEF Hop

(* The request that was gone is where it was. *)
LEMMA ClientGoneInv ==
    ASSUME Inv, NEW r \in Requests, ClientGone(r)
    PROVE  Inv'
<1> DEFINE q == [req[r] EXCEPT !.gone = TRUE]
<1>1. /\ pc \in [Requests -> Labels] /\ req \in [Requests -> Values] /\ req[r] \in Values
      /\ Local(r, pc[r], defers[r], req[r]) /\ pc[r] \in Serving \ {"return"}
  BY DEF Inv, LocalOK, ClientGone, Serving
<1>2. req' = [req EXCEPT ![r] = q]
  BY <1>1 DEF ClientGone
<1>3. q \in Values
  BY <1>1, Zenon DEF Values
<1>4. /\ Same(q, req[r]) /\ q.bodies = req[r].bodies /\ q.response = req[r].response
      /\ q.sent = req[r].sent /\ q.statusCode = req[r].statusCode
  BY <1>1 DEF Values, Same
<1> HIDE DEF q
<1>5. StackOf(r, pc[r], defers[r], q) /\ BodiesAt(pc[r], q)
  BY <1>1, <1>4 DEF Local, StackOf, LimitedBy, BodiesAt, Same
<1>6. Noted(pc[r], q)
  BY <1>1, <1>4 DEF Local, Noted, Same
<1>7. StatsAt(pc[r], defers[r], q)
  BY <1>1, <1>4 DEF Local, StatsAt, Serving, Same
<1>8. Local(r, pc[r], defers[r], q) /\ q.profile = req[r].profile
  BY <1>1, <1>3, <1>4, <1>5, <1>6, <1>7 DEF Local, Same
<1>9. Goto(r, pc[r]) /\ UNCHANGED <<shared, defers>>
  BY <1>1 DEF ClientGone, Goto
<1>10. QED
  BY <1>1, <1>2, <1>8, <1>9, InnerMove

LEMMA FollowRedirectInv ==
    ASSUME Inv, NEW r \in Requests, FollowRedirect(r)
    PROVE  Inv'
<1>1. /\ pc[r] = "redirect" /\ req \in [Requests -> Values] /\ req[r] \in Values
      /\ req[r].bodies = 1 /\ req[r].response \in Answers
  BY DEF Inv, LocalOK, FollowRedirect, Local, BodiesAt
<1>2. CASE /\ MayFollow(req[r]) /\ Goto(r, "hop") /\ UNCHANGED <<shared, defers>>
           /\ req' = [req EXCEPT ![r] = [CloseBody(req[r]) EXCEPT !.hops = NextHop(req[r].hops)]]
  <2> DEFINE b == CloseBody(req[r])
             q == [b EXCEPT !.hops = NextHop(req[r].hops)]
  <2>1. b \in Values /\ Same(b, req[r]) /\ b.bodies = 0
    BY <1>1, CloseBodyType
  <2>2. NextHop(req[r].hops) \in Hops
    <3>1. req[r].hops \in 0..MaxHops /\ req[r].hops < MaxHops
      BY <1>1, <1>2 DEF MayFollow, Values, Hops
    <3>2. QED
      BY <3>1, BoundsType DEF NextHop, Hops
  <2>3. req' = [req EXCEPT ![r] = q]
    BY <1>2
  <2> HIDE DEF b
  <2>4. q \in Values /\ Same(q, b) /\ q.bodies = 0
    BY <2>1, <2>2 DEF Values, Same
  <2> HIDE DEF q
  <2>5. Same(q, req[r]) /\ BodiesAt("hop", q)
    BY <2>1, <2>4 DEF Same, BodiesAt
  <2>6. QED
    BY <1>1, <1>2, <2>3, <2>4, <2>5, UpstreamMove
<1>3. CASE /\ req' = [req EXCEPT ![r].hops = 0]
           /\ Goto(r, "modify") /\ UNCHANGED <<shared, defers>>
  <2> DEFINE q == [req[r] EXCEPT !.hops = 0]
  <2>1. 0 \in Hops
    BY BoundsType DEF Hops
  <2>2. /\ q \in Values /\ Same(q, req[r]) /\ req' = [req EXCEPT ![r] = q]
        /\ q.response = req[r].response
    BY <1>1, <1>3, <2>1 DEF Values, Same
  <2> HIDE DEF q
  <2>3. BodiesAt("modify", q)
    BY <1>1, <2>2 DEF BodiesAt
  <2>4. QED
    BY <1>1, <1>3, <2>2, <2>3, UpstreamMove
<1>4. QED
  BY <1>2, <1>3 DEF FollowRedirect

LEMMA WriteHeaderFields ==
    ASSUME NEW q \in Values, NEW code \in Codes
    PROVE  LET h == WriteHeader(q, code)
           IN  /\ h \in Values /\ Same(h, q) /\ h.bodies = q.bodies
               /\ h.sent = code /\ h.statusCode = code /\ h.response = q.response
<1>1. WriteHeader(q, code) \in Values
  BY WriteHeaderType
<1>2. QED
  BY <1>1 DEF WriteHeader, Values, Same

(* The header goes out, and the body follows. *)
LEMMA HeaderSentInv ==
    ASSUME Inv, NEW r \in Requests, pc[r] \in {"modify", "manifest"}, NEW q \in Values, Same(q, req[r]),
           q.sent = q.statusCode, Goto(r, "copy"), req' = [req EXCEPT ![r] = q],
           UNCHANGED <<shared, defers>>
    PROVE  Inv'
<1>1. Local(r, pc[r], defers[r], req[r])
  BY DEF Inv, LocalOK
<1>2. req[r].bytesWritten = 0 /\ req[r].delivered = 0 /\ req[r].records = <<>>
  BY <1>1 DEF Local, Noted, StatsAt
<1>3. StackOf(r, "copy", defers[r], q) /\ BodiesAt("copy", q)
  BY <1>1 DEF Local, StackOf, LimitedBy, Serving, Same, BodiesAt
<1>4. Noted("copy", q) /\ StatsAt("copy", defers[r], q)
  BY <1>2 DEF Noted, StatsAt, Same
<1>5. Local(r, "copy", defers[r], q)
  BY <1>1, <1>3, <1>4 DEF Local, Labels, Serving, Same
<1>6. QED
  BY <1>5, InnerMove DEF Serving, Same

LEMMA ModifyResponseInv ==
    ASSUME Inv, NEW r \in Requests, ModifyResponse(r)
    PROVE  Inv'
<1>1. /\ pc[r] = "modify" /\ req \in [Requests -> Values] /\ req[r] \in Values
      /\ Local(r, "modify", defers[r], req[r]) /\ req[r].response \in Answers
      /\ UNCHANGED <<shared, defers>>
  BY DEF Inv, LocalOK, ModifyResponse, Local, BodiesAt
<1>2. req[r].bytesWritten = 0 /\ req[r].delivered = 0 /\ req[r].records = <<>>
  BY <1>1 DEF Local, Noted, StatsAt
<1>3. NoStatus \in Responses
  BY DEF Responses
<1>4. CASE RulesMayApply(req[r]) /\ Goto(r, "manifest") /\ UNCHANGED req
  <2>1. req[r].bodies = 1
    BY <1>1, <1>4 DEF RulesMayApply, Values
  <2>2. StackOf(r, "manifest", defers[r], req[r]) /\ BodiesAt("manifest", req[r])
    BY <1>1, <2>1 DEF Local, StackOf, BodiesAt, Serving
  <2>3. Noted("manifest", req[r]) /\ StatsAt("manifest", defers[r], req[r])
    BY <1>2 DEF Noted, StatsAt
  <2>4. Local(r, "manifest", defers[r], req[r])
    BY <1>1, <2>2, <2>3 DEF Local, Labels, Serving
  <2>5. req' = [req EXCEPT ![r] = req[r]]
    BY <1>1, <1>4
  <2>6. QED
    BY <1>1, <1>4, <2>4, <2>5, InnerMove DEF Serving
<1>5. CASE /\ req[r].response # SwitchingProtocols /\ Goto(r, "copy")
           /\ req' = [req EXCEPT ![r] = [WriteHeader(req[r], req[r].response) EXCEPT !.response = NoStatus]]
  <2> DEFINE h == WriteHeader(req[r], req[r].response)
             q == [h EXCEPT !.response = NoStatus]
  <2>1. h \in Values /\ Same(h, req[r]) /\ h.sent = h.statusCode
    BY <1>1, <1>5, WriteHeaderFields DEF Answers
  <2>2. req' = [req EXCEPT ![r] = q]
    BY <1>5
  <2> HIDE DEF h
  <2>3. q \in Values /\ Same(q, h) /\ q.sent = q.statusCode
    BY <1>3, <2>1 DEF Values, Same
  <2> HIDE DEF q
  <2>4. Same(q, req[r])
    BY <2>1, <2>3 DEF Same
  <2>5. QED
    BY <1>1, <1>5, <2>2, <2>3, <2>4, HeaderSentInv
<1>6. CASE /\ req[r].response = SwitchingProtocols /\ Goto(r, "upgraded")
           /\ req' = [req EXCEPT ![r] = [req[r] EXCEPT !.sent = req[r].response, !.response = NoStatus]]
  <2> DEFINE q == [req[r] EXCEPT !.sent = req[r].response, !.response = NoStatus]
  <2>1. req[r].response \in SentCodes
    BY <1>1 DEF SentCodes
  <2>2. q \in Values /\ Same(q, req[r])
    BY <1>1, <1>3, <2>1 DEF Values, Same
  <2> HIDE DEF q
  <2>3. StackOf(r, "upgraded", defers[r], q) /\ BodiesAt("upgraded", q)
    BY <1>1, <2>2 DEF Local, StackOf, LimitedBy, Serving, Same, BodiesAt
  <2>4. Noted("upgraded", q) /\ StatsAt("upgraded", defers[r], q)
    BY <1>2, <2>2 DEF Noted, StatsAt, Same
  <2>5. Local(r, "upgraded", defers[r], q)
    BY <1>1, <2>2, <2>3, <2>4 DEF Local, Labels, Serving, Same
  <2>6. req' = [req EXCEPT ![r] = q] /\ q.profile = req[r].profile
    BY <1>6, <2>2 DEF q, Same
  <2>7. QED
    BY <1>1, <1>6, <2>5, <2>6, InnerMove DEF Serving
<1>7. QED
  BY <1>4, <1>5, <1>6 DEF ModifyResponse

LEMMA ReadManifestInv ==
    ASSUME Inv, NEW r \in Requests, ReadManifest(r)
    PROVE  Inv'
<1> DEFINE b == CloseBody(req[r])
<1>1. /\ pc[r] = "manifest" /\ req[r] \in Values /\ Local(r, "manifest", defers[r], req[r])
      /\ req[r].bodies = 1 /\ req[r].response \in Answers
  BY DEF Inv, LocalOK, ReadManifest, Local, BodiesAt
<1>2. req[r].bytesWritten = 0 /\ req[r].delivered = 0 /\ req[r].records = <<>>
  BY <1>1 DEF Local, Noted, StatsAt
<1>3. NoStatus \in Responses /\ 502 \in Codes
  BY DEF Responses, Codes
<1>4. b \in Values /\ Same(b, req[r]) /\ b.bodies = 0 /\ b.response = req[r].response
  BY <1>1, CloseBodyType
<1>5. CASE Return(r, WriteHeader(b, 502))
  <2> DEFINE h == WriteHeader(b, 502)
  <2> HIDE DEF b
  <2>1. h \in Values /\ Same(h, b) /\ h.bodies = 0
    BY <1>3, <1>4, WriteHeaderFields
  <2>2. Return(r, h)
    BY <1>5
  <2> HIDE DEF h
  <2>3. Same(h, req[r])
    BY <1>4, <2>1 DEF Same
  <2>4. Noted("return", h)
    BY <1>2, <2>3 DEF Noted, Same
  <2>5. QED
    BY <1>1, <1>2, <2>1, <2>2, <2>3, <2>4, ReturnInv DEF Serving, Same
<1>6. CASE /\ b.response # SwitchingProtocols
           /\ req' = [req EXCEPT ![r] = [WriteHeader(b, b.response) EXCEPT !.response = NoStatus, !.buffer = TRUE]]
           /\ Goto(r, "copy") /\ UNCHANGED <<shared, defers>>
  <2> DEFINE h == WriteHeader(b, b.response)
             x == [h EXCEPT !.response = NoStatus]
             q == [x EXCEPT !.buffer = TRUE]
  <2> HIDE DEF b
  <2>1. h \in Values /\ Same(h, b) /\ h.sent = h.statusCode
    BY <1>1, <1>4, <1>6, WriteHeaderFields DEF Answers
  <2>2. req' = [req EXCEPT ![r] = q]
    BY <1>6
  <2> HIDE DEF h
  <2>3. x \in Values /\ Same(x, h) /\ x.sent = x.statusCode
    BY <1>3, <2>1 DEF Values, Same
  <2> HIDE DEF x
  <2>4. q \in Values
    BY <2>3, Zenon DEF Values
  <2>5. Same(q, x) /\ q.sent = q.statusCode
    BY <2>3 DEF Values, Same
  <2> HIDE DEF q
  <2>6. Same(q, req[r])
    BY <1>4, <2>1, <2>3, <2>5 DEF Same
  <2>7. QED
    BY <1>1, <1>6, <2>2, <2>4, <2>5, <2>6, HeaderSentInv
<1>7. QED
  BY <1>5, <1>6 DEF ReadManifest

(* The copy ends: its body is closed. *)
LEMMA CopyEndsInv ==
    ASSUME Inv, NEW r \in Requests, pc[r] \in {"copy", "write"}, NEW q \in Values,
           Return(r, Copied(q)), q.profile = req[r].profile, q.records = <<>>, Noted("return", q)
    PROVE  Inv'
<1> DEFINE x == Copied(q)
<1>1. /\ x \in Values /\ Same(x, q) /\ x.bodies = 0
      /\ x.sent = q.sent /\ x.statusCode = q.statusCode
  BY CopiedType
<1>2. Return(r, x)
  OBVIOUS
<1> HIDE DEF x
<1>3. Noted("return", x)
  BY <1>1 DEF Noted, Same
<1>4. QED
  BY <1>1, <1>2, <1>3, ReturnInv DEF Serving, Same

LEMMA EndUpgradedInv ==
    ASSUME Inv, NEW r \in Requests, EndUpgraded(r)
    PROVE  Inv'
<1> DEFINE x == Copied(req[r])
<1>1. PICK n \in Counts : Return(r, [x EXCEPT !.delivered = n])
  BY DEF EndUpgraded, Counts
<1> DEFINE q == [x EXCEPT !.delivered = n]
<1>2. pc[r] = "upgraded" /\ req[r] \in Values /\ Local(r, "upgraded", defers[r], req[r])
  BY DEF Inv, LocalOK, EndUpgraded
<1>3. req[r].bytesWritten = 0 /\ req[r].records = <<>>
  BY <1>2 DEF Local, Noted, StatsAt
<1>4. x \in Values /\ Same(x, req[r]) /\ x.bodies = 0
  BY <1>2, CopiedType
<1>5. Return(r, q)
  BY <1>1
<1> HIDE DEF x
<1>6. /\ q \in Values /\ q.bodies = 0 /\ q.bytesWritten = x.bytesWritten
      /\ q.records = x.records /\ q.profile = x.profile
  BY <1>4 DEF Values
<1> HIDE DEF q
<1>7. q.bytesWritten = 0 /\ q.records = <<>> /\ q.profile = req[r].profile
  BY <1>3, <1>4, <1>6 DEF Same
<1>8. Noted("return", q)
  BY <1>7 DEF Noted
<1>9. QED
  BY <1>2, <1>5, <1>6, <1>7, <1>8, ReturnInv DEF Serving

(* Moves between the copy and the write leave the values alone. *)
LEMMA ToWriteInv ==
    ASSUME Inv, NEW r \in Requests, pc[r] \in {"copy", "throttle"}, NEW p \in {"throttle", "write"},
           req[r].bytesWritten < MaxWrites, Goto(r, p), UNCHANGED <<shared, defers, req>>
    PROVE  Inv'
<1>1. /\ req \in [Requests -> Values] /\ Local(r, pc[r], defers[r], req[r])
  BY DEF Inv, LocalOK
<1>2. StackOf(r, p, defers[r], req[r]) /\ BodiesAt(p, req[r]) /\ StatsAt(p, defers[r], req[r])
  BY <1>1 DEF Local, StackOf, Serving, BodiesAt, StatsAt
<1>3. Noted(p, req[r])
  BY <1>1 DEF Local, Noted
<1>4. Local(r, p, defers[r], req[r])
  BY <1>1, <1>2, <1>3 DEF Local, Labels, Serving
<1>5. req' = [req EXCEPT ![r] = req[r]]
  BY <1>1
<1>6. p \in Serving /\ pc[r] \in Serving \ {"return"} /\ UNCHANGED <<shared, defers>>
  BY DEF Serving
<1>7. QED
  BY <1>4, <1>5, <1>6, InnerMove

LEMMA GrantedInv ==
    ASSUME Inv, NEW r \in Requests, Granted(r)
    PROVE  Inv'
<1>1. pc[r] = "throttle" /\ req[r].bytesWritten < MaxWrites
  BY DEF Inv, LocalOK, Granted, Local, Noted
<1>2. QED
  BY <1>1, ToWriteInv DEF Granted

LEMMA CopyInv ==
    ASSUME Inv, NEW r \in Requests, Copy(r)
    PROVE  Inv'
<1>1. pc[r] = "copy" /\ req[r] \in Values /\ Local(r, "copy", defers[r], req[r])
  BY DEF Inv, LocalOK, Copy
<1>2. CASE Return(r, Copied(req[r]))
  <2>1. Noted("return", req[r]) /\ req[r].records = <<>>
    BY <1>1 DEF Local, Noted, StatsAt
  <2>2. QED
    BY <1>1, <1>2, <2>1, CopyEndsInv
<1>3. CASE /\ req[r].bytesWritten < MaxWrites
           /\ Goto(r, IF Throttled(r) THEN "throttle" ELSE "write")
           /\ UNCHANGED <<shared, defers, req>>
  BY <1>1, <1>3, ToWriteInv
<1>4. QED
  BY <1>2, <1>3 DEF Copy

LEMMA WriteInv ==
    ASSUME Inv, NEW r \in Requests, Write(r)
    PROVE  Inv'
<1> DEFINE n == req[r].bytesWritten
           q == [req[r] EXCEPT !.bytesWritten = n + 1]
<1>1. /\ pc[r] = "write" /\ req \in [Requests -> Values] /\ req[r] \in Values
      /\ Local(r, "write", defers[r], req[r])
  BY DEF Inv, LocalOK, Write
<1>2. /\ n \in Counts /\ n < MaxWrites /\ req[r].delivered = n
      /\ req[r].records = <<>> /\ req[r].sent = req[r].statusCode
      /\ req[r].target = req[r].location
  BY <1>1 DEF Local, Noted, StatsAt, Values
<1>3. n + 1 \in Counts /\ n \in Nat
  BY <1>2, BoundsType DEF Counts
<1>4. /\ q \in Values /\ q.bytesWritten = n + 1 /\ q.profile = req[r].profile
      /\ q.target = q.location /\ q.delivered = n /\ q.records = <<>> /\ q.sent = q.statusCode
  BY <1>1, <1>2, <1>3 DEF Values
<1>5. CASE Return(r, Copied(q))
  <2> HIDE DEF q, n
  <2>1. Noted("return", q)
    BY <1>3, <1>4 DEF Noted
  <2>2. QED
    BY <1>1, <1>4, <1>5, <2>1, CopyEndsInv
<1>6. CASE /\ req' = [req EXCEPT ![r] = [q EXCEPT !.delivered = @ + 1]]
           /\ Goto(r, "copy") /\ UNCHANGED <<shared, defers>>
  <2> DEFINE x == [q EXCEPT !.delivered = n + 1]
  <2>1. [q EXCEPT !.delivered = @ + 1] = x
    BY <1>4
  <2>2. req' = [req EXCEPT ![r] = x]
    BY <1>6, <2>1
  <2> HIDE DEF q
  <2>3. /\ x \in Values /\ x.bytesWritten = n + 1 /\ x.profile = req[r].profile
        /\ x.target = x.location /\ x.delivered = n + 1 /\ x.records = <<>> /\ x.sent = x.statusCode
    BY <1>3, <1>4 DEF Values
  <2> HIDE DEF x, n
  <2>4. StackOf(r, "copy", defers[r], x) /\ BodiesAt("copy", x) /\ StatsAt("copy", defers[r], x)
    BY <1>1, <2>3 DEF Local, StackOf, LimitedBy, Serving, BodiesAt, StatsAt
  <2>5. Noted("copy", x)
    BY <1>3, <2>3 DEF Noted
  <2>6. Local(r, "copy", defers[r], x)
    BY <1>1, <2>3, <2>4, <2>5 DEF Local, Labels, Serving
  <2>7. QED
    BY <1>1, <1>6, <2>2, <2>3, <2>6, InnerMove DEF Serving
<1>7. QED
  BY <1>5, <1>6 DEF Write

-----------------------------------------------------------------------------
(* The deferred calls *)

(* Statuses of the 200 group are those that are recorded. *)
LEMMA GroupOf200 ==
    ASSUME NEW q \in Values
    PROVE  GroupedStatusCode(q) = 200 <=> q.statusCode \in 200..299
<1>1. q.statusCode \in 200..599
  BY DEF Values, Codes
<1>2. QED
  BY <1>1 DEF GroupedStatusCode

(* What is left of the stack when its last call is taken. *)
LEMMA PoppedStacks ==
    /\ SubSeq(<<"release", "stats">>, 1, 2 - 1) = <<"release">>
    /\ SubSeq(<<"stats">>, 1, 1 - 1) = <<>>
    /\ SubSeq(<<"release">>, 1, 1 - 1) = <<>>
<1> DEFINE two == <<"release", "stats">>
           one == SubSeq(two, 1, 1)
<1>1. two[1] = "release" /\ <<"release">> \in Seq({"release"})
  OBVIOUS
<1>2. \A i \in 1..1 : two[i] \in {"release"}
  BY <1>1
<1> HIDE DEF two
<1>3. one \in Seq({"release"}) /\ Len(one) = 1 /\ one[1] = two[1]
  BY <1>2, SubSeqProperties
<1> HIDE DEF one
<1>4. one = <<"release">>
  <2>1. Len(<<"release">>) = 1 /\ <<"release">>[1] = "release"
    OBVIOUS
  <2>2. \A i \in 1..Len(one) : one[i] = <<"release">>[i]
    BY <1>1, <1>3, <2>1
  <2>3. QED
    BY <1>1, <1>3, <2>1, <2>2, SeqEqual
<1>5. QED
  BY <1>4, SubSeqEmpty DEF one, two

(* The statistics, the first deferred call to run. *)
LEMMA StatsInv ==
    ASSUME Inv, NEW r \in Requests, pc[r] = "return", RunDeferred(r),
           defers[r] \in {<<"release", "stats">>, <<"stats">>}
    PROVE  Inv'
<1> DEFINE k == req[r]
           rows == IF Recorded(k) THEN Append(k.records, Record(k)) ELSE k.records
           q == [k EXCEPT !.records = rows]
           d == IF LimitedBy(r, k) THEN <<"release">> ELSE <<>>
           p == IF LimitedBy(r, k) THEN "return" ELSE "over"
<1>1. /\ LocalOK /\ ProxiesOK /\ CountsOK /\ k \in Values /\ Local(r, "return", defers[r], k)
      /\ req \in [Requests -> Values] /\ pc \in [Requests -> Labels]
      /\ defers \in [Requests -> Stacks] /\ defers[r] # <<"release">>
  BY StacksDiffer DEF Inv, LocalOK
<1>2. defers[r] = IF LimitedBy(r, k) THEN <<"release", "stats">> ELSE <<"stats">>
  BY <1>1 DEF Local, StackOf
<1>3. /\ Len(<<"release", "stats">>) = 2 /\ Len(<<"stats">>) = 1
      /\ <<"release", "stats">>[2] = "stats" /\ <<"stats">>[1] = "stats"
      /\ SubSeq(<<"release", "stats">>, 1, 2 - 1) = <<"release">>
      /\ SubSeq(<<"stats">>, 1, 1 - 1) = <<>>
  BY PoppedStacks
<1>4. /\ defers[r][Len(defers[r])] = "stats"
      /\ SubSeq(defers[r], 1, Len(defers[r]) - 1) = d
      /\ (IF Len(defers[r]) = 1 THEN "over" ELSE "return") = p
  <2>1. CASE LimitedBy(r, k)
    BY <1>2, <1>3, <2>1
  <2>2. CASE ~LimitedBy(r, k)
    BY <1>2, <1>3, <2>2
  <2>3. QED
    BY <2>1, <2>2
<1>5. /\ defers' = [defers EXCEPT ![r] = d] /\ pc' = [pc EXCEPT ![r] = p]
      /\ gauge' = gauge - 1 /\ UNCHANGED <<slots, proxies>> /\ req' = [req EXCEPT ![r] = q]
  BY <1>1, <1>4 DEF RunDeferred, Goto
<1>6. k.records = <<>> /\ k.bytesWritten \in Counts
  BY <1>1 DEF Local, StatsAt, Values
<1>7. rows = IF k.bytesWritten > 0 /\ k.statusCode \in 200..299
             THEN <<[status |-> k.statusCode, bytes |-> k.bytesWritten]>> ELSE <<>>
  BY <1>1, <1>6, GroupOf200 DEF Recorded, Record
<1>8. rows \in StatRows
  <2>1. CASE k.bytesWritten > 0 /\ k.statusCode \in 200..299
    <3>1. [status |-> k.statusCode, bytes |-> k.bytesWritten] \in [status : 200..299, bytes : 1..MaxWrites]
      BY <1>6, <2>1, BoundsType DEF Counts
    <3>2. QED
      BY <1>7, <2>1, <3>1 DEF StatRows
  <2>2. CASE ~(k.bytesWritten > 0 /\ k.statusCode \in 200..299)
    BY <1>7, <2>2 DEF StatRows
  <2>3. QED
    BY <2>1, <2>2
<1> HIDE DEF rows
<1>9. /\ q \in Values /\ q.records = rows /\ q.profile = k.profile /\ q.target = k.target
      /\ q.location = k.location /\ q.bytesWritten = k.bytesWritten
      /\ q.delivered = k.delivered /\ q.sent = k.sent /\ q.statusCode = k.statusCode
      /\ q.bodies = k.bodies
  BY <1>1, <1>8 DEF Values
<1> HIDE DEF q
<1>10. Local(r, p, d, q)
  <2>1. StackOf(r, p, d, q)
    BY <1>9 DEF StackOf, LimitedBy, Serving
  <2>2. BodiesAt(p, q) /\ Noted(p, q)
    BY <1>1, <1>9 DEF Local, BodiesAt, Noted
  <2>3. InStats(q)
    <3>1. CASE k.bytesWritten > 0
      <4>1. k.sent = k.statusCode
        BY <1>1, <3>1 DEF Local, Noted
      <4>2. QED
        BY <1>7, <1>9, <3>1, <4>1 DEF InStats
    <3>2. CASE ~(k.bytesWritten > 0)
      BY <1>7, <1>9, <3>2 DEF InStats
    <3>3. QED
      BY <3>1, <3>2
  <2>4. StatsAt(p, d, q)
    BY <2>3 DEF StatsAt
  <2>5. p \in Labels /\ d \in Stacks
    BY DEF Labels, Serving, Stacks
  <2>6. QED
    BY <1>1, <1>9, <2>1, <2>2, <2>4, <2>5 DEF Local
<1>11. LocalOK' /\ ProxiesOK'
  BY <1>1, <1>5, <1>10, OneMoves DEF ProxiesOK
<1>12. \A x \in Requests \ {r} : pc'[x] = pc[x] /\ req'[x] = req[x] /\ defers'[x] = defers[x]
  BY <1>1, <1>5
<1>13. pc'[r] = p /\ req'[r] = q /\ defers'[r] = d
  BY <1>1, <1>5
<1>14. Slotted' = Slotted
  BY <1>9, <1>12, <1>13 DEF Slotted, HasSlot, LimitedBy, Serving
<1>15. r \in Gauged /\ r \notin Gauged'
  <2>1. \E i \in DOMAIN defers[r] : defers[r][i] = "stats"
    <3>1. Len(defers[r]) \in DOMAIN defers[r]
      BY <1>2, <1>3
    <3>2. QED
      BY <1>4, <3>1
  <2>2. ~ \E i \in DOMAIN d : d[i] = "stats"
    OBVIOUS
  <2>3. QED
    BY <1>13, <2>1, <2>2 DEF Gauged, InGauge, Serving
<1>16. Gauged' = Gauged \ {r}
  BY <1>12, <1>15 DEF Gauged
<1>17. IsFiniteSet(Gauged)
  BY RequestsFinite, FS_Subset DEF Gauged
<1>18. gauge' = Cardinality(Gauged')
  BY <1>1, <1>5, <1>15, <1>16, <1>17, FS_RemoveElement DEF CountsOK
<1>19. QED
  BY <1>1, <1>5, <1>11, <1>14, <1>18 DEF Inv, CountsOK

(* The release, which runs after them. *)
LEMMA ReleaseInv ==
    ASSUME Inv, NEW r \in Requests, pc[r] = "return", RunDeferred(r), defers[r] = <<"release">>
    PROVE  Inv'
<1>1. /\ LocalOK /\ ProxiesOK /\ CountsOK /\ Local(r, "return", defers[r], req[r])
      /\ req \in [Requests -> Values] /\ pc \in [Requests -> Labels]
      /\ defers \in [Requests -> Stacks]
  BY DEF Inv, LocalOK
<1>2. /\ Len(defers[r]) = 1 /\ defers[r][Len(defers[r])] = "release"
      /\ SubSeq(defers[r], 1, Len(defers[r]) - 1) = <<>>
  BY PoppedStacks
<1>3. /\ defers' = [defers EXCEPT ![r] = <<>>] /\ pc' = [pc EXCEPT ![r] = "over"]
      /\ slots' = slots - 1 /\ UNCHANGED <<gauge, req, proxies>>
  BY <1>1, <1>2 DEF RunDeferred, Goto
<1>4. LimitedBy(r, req[r])
  BY <1>1, StacksDiffer DEF Local, StackOf
<1>5. Local(r, "over", <<>>, req[r])
  <2>1. StackOf(r, "over", <<>>, req[r]) /\ BodiesAt("over", req[r]) /\ Noted("over", req[r])
    BY <1>1 DEF Local, StackOf, BodiesAt, Noted, Serving
  <2>2. StatsAt("over", <<>>, req[r])
    BY <1>1 DEF Local, StatsAt
  <2>3. QED
    BY <1>1, <2>1, <2>2 DEF Local, Labels, Stacks
<1>6. req' = [req EXCEPT ![r] = req[r]]
  BY <1>1, <1>3
<1>7. LocalOK' /\ ProxiesOK'
  BY <1>1, <1>3, <1>5, <1>6, OneMoves DEF ProxiesOK
<1>8. \A x \in Requests \ {r} : pc'[x] = pc[x] /\ req'[x] = req[x] /\ defers'[x] = defers[x]
  BY <1>1, <1>3
<1>9. pc'[r] = "over"
  BY <1>1, <1>3
<1>10. r \in Slotted /\ r \notin Slotted'
  BY <1>4, <1>9 DEF Slotted, HasSlot, Serving
<1>11. Slotted' = Slotted \ {r}
  BY <1>8, <1>10 DEF Slotted
<1>12. r \notin Gauged /\ r \notin Gauged'
  <2>1. ~ \E i \in DOMAIN defers[r] : defers[r][i] = "stats"
    OBVIOUS
  <2>2. QED
    BY <1>9, <2>1 DEF Gauged, InGauge, Serving
<1>13. Gauged' = Gauged
  BY <1>8, <1>12 DEF Gauged
<1>14. IsFiniteSet(Slotted)
  BY RequestsFinite, FS_Subset DEF Slotted
<1>15. slots' = Cardinality(Slotted')
  BY <1>1, <1>3, <1>10, <1>11, <1>14, FS_RemoveElement DEF CountsOK
<1>16. QED
  BY <1>1, <1>3, <1>7, <1>13, <1>15 DEF Inv, CountsOK

LEMMA RunDeferredInv ==
    ASSUME Inv, NEW r \in Requests, RunDeferred(r)
    PROVE  Inv'
<1>1. pc[r] = "return" /\ Local(r, pc[r], defers[r], req[r])
  BY DEF Inv, LocalOK, RunDeferred
<1>2. defers[r] \in {<<"release", "stats">>, <<"stats">>} \/ defers[r] = <<"release">>
  BY <1>1 DEF Local, StackOf
<1>3. QED
  BY <1>1, <1>2, StatsInv, ReleaseInv

LEMMA FinishInv ==
    ASSUME Inv, NEW c \in Clients, Finish(c)
    PROVE  Inv'
<1>1. /\ LocalOK /\ ProxiesOK /\ CountsOK
      /\ req \in [Requests -> Values] /\ pc \in [Requests -> Labels]
      /\ defers \in [Requests -> Stacks]
  BY DEF Inv, LocalOK
<1>2. /\ pc' = [r \in Requests |-> IF r \in Chain(c) THEN "idle" ELSE pc[r]]
      /\ req' = [r \in Requests |-> IF r \in Chain(c) THEN Fresh(AnyProfile) ELSE req[r]]
      /\ UNCHANGED <<slots, gauge, proxies, defers>>
      /\ \A r \in Chain(c) : pc[r] \in {"idle", "over"}
  BY DEF Finish, shared
<1>3. ASSUME NEW r \in Requests
      PROVE  Local(r, pc'[r], defers'[r], req'[r])
  <2>1. CASE r \in Chain(c)
    <3>1. pc'[r] = "idle" /\ req'[r] = Fresh(AnyProfile) /\ defers'[r] = defers[r]
      BY <1>2, <2>1
    <3>2. defers[r] = <<>>
      BY <1>1, <1>2, <2>1 DEF LocalOK, Local, StackOf
    <3>3. QED
      BY <3>1, <3>2, FreshLocal, AnyProfileType
  <2>2. CASE r \notin Chain(c)
    <3>1. pc'[r] = pc[r] /\ req'[r] = req[r] /\ defers'[r] = defers[r]
      BY <1>2, <2>2
    <3>2. QED
      BY <1>1, <3>1 DEF LocalOK
  <2>3. QED
    BY <2>1, <2>2
<1>4. LocalOK'
  <2>1. \A r \in Requests : pc'[r] \in Labels /\ req'[r] \in Values
    BY <1>3 DEF Local
  <2>2. pc' \in [Requests -> Labels] /\ req' \in [Requests -> Values]
    BY <1>2, <2>1
  <2>3. QED
    BY <1>1, <1>2, <1>3, <2>2 DEF LocalOK
<1>5. Slotted' = Slotted /\ Gauged' = Gauged
  <2>1. ASSUME NEW r \in Requests
        PROVE  /\ HasSlot(r, pc'[r], req'[r]) <=> HasSlot(r, pc[r], req[r])
               /\ InGauge(pc'[r], defers'[r]) <=> InGauge(pc[r], defers[r])
    <3>1. CASE r \in Chain(c)
      <4>1. pc'[r] = "idle" /\ pc[r] \in {"idle", "over"}
        BY <1>2, <3>1
      <4>2. QED
        BY <4>1 DEF HasSlot, InGauge, Serving
    <3>2. CASE r \notin Chain(c)
      BY <1>2, <3>2
    <3>3. QED
      BY <3>1, <3>2
  <2>2. QED
    BY <2>1 DEF Slotted, Gauged
<1>6. QED
  BY <1>1, <1>2, <1>4, <1>5 DEF Inv, CountsOK, ProxiesOK

-----------------------------------------------------------------------------
(* The invariant, and the theorems *)

LEMMA InitInv == Init => Inv
<1> SUFFICES ASSUME Init PROVE Inv
  OBVIOUS
<1>1. \A r \in Requests : Local(r, "idle", <<>>, Fresh(AnyProfile))
  BY FreshLocal, AnyProfileType
<1>2. \A r \in Requests : pc[r] = "idle" /\ defers[r] = <<>> /\ req[r] = Fresh(AnyProfile)
  BY DEF Init
<1>3. \A r \in Requests : Local(r, pc[r], defers[r], req[r])
  BY <1>1, <1>2
<1>4. \A r \in Requests : pc[r] \in Labels /\ defers[r] \in Stacks /\ req[r] \in Values
  BY <1>3 DEF Local
<1>5. pc \in [Requests -> Labels] /\ defers \in [Requests -> Stacks] /\ req \in [Requests -> Values]
  BY <1>4 DEF Init
<1>6. ProxiesOK
  BY DEF Init, ProxiesOK, ProxyKeys
<1>7. Slotted = {} /\ Gauged = {}
  BY <1>2 DEF Slotted, Gauged, HasSlot, InGauge, Serving
<1>8. CountsOK
  BY <1>7, FS_EmptySet DEF Init, CountsOK
<1>9. QED
  BY <1>3, <1>5, <1>6, <1>8 DEF Inv, LocalOK

LEMMA StutterInv == Inv /\ UNCHANGED vars => Inv'
BY DEF vars, Inv, LocalOK, ProxiesOK, CountsOK, Slotted, Gauged

LEMMA AwaitInv ==
    ASSUME Inv, NEW r \in Requests, Await(r)
    PROVE  Inv'
BY RoundTripInv, HopInv, ReadManifestInv, CopyInv, WriteInv DEF Await

LEMMA StepInv ==
    ASSUME Inv, NEW r \in Requests, Step(r)
    PROVE  Inv'
<1>1. CASE Unaided(r)
  BY <1>1, AuthorizeInv, CheckTotalInv, AdmitInv, GetBucketInv, FollowRedirectInv, ModifyResponseInv,
     RunDeferredInv, AwaitInv DEF Unaided
<1>2. QED
  BY <1>1, AwaitInv, GetProxyInv, GrantedInv, EndUpgradedInv DEF Step

LEMMA NextInv == Inv /\ [Next]_vars => Inv'
<1> SUFFICES ASSUME Inv, [Next]_vars PROVE Inv'
  OBVIOUS
<1>1. ASSUME NEW c \in Clients, Receive(c) PROVE Inv'
  <2>1. PICK p \in Profiles[c] : req' = [req EXCEPT ![c] = Fresh(p)]
    BY <1>1 DEF Receive
  <2>2. p \in AllProfiles /\ c \in Requests
    BY <2>1 DEF AllProfiles, Requests
  <2>3. QED
    BY <1>1, <2>1, <2>2, StartInv DEF Receive
<1>2. ASSUME NEW c \in Clients, ServeOther(c) PROVE Inv'
  BY <1>2, ServeOtherInv
<1>3. ASSUME NEW c \in Clients, ServeSpeedtest(c) PROVE Inv'
  BY <1>3, ServeSpeedtestInv
<1>4. ASSUME NEW c \in Clients, Finish(c) PROVE Inv'
  BY <1>4, FinishInv
<1>5. ASSUME NEW n \in Nested, CallBack(n) PROVE Inv'
  BY <1>5, CallBackInv
<1>6. ASSUME NEW r \in Requests, Step(r) PROVE Inv'
  BY <1>6, StepInv
<1>7. ASSUME NEW r \in Requests, ClientGone(r) PROVE Inv'
  BY <1>7, ClientGoneInv
<1>8. ASSUME NEW k \in ProxyKeys, ProxyExpires(k) PROVE Inv'
  BY <1>8, ProxyExpiresInv
<1>9. QED
  BY <1>1, <1>2, <1>3, <1>4, <1>5, <1>6, <1>7, <1>8, StutterInv DEF Next

LEMMA InvHolds == Spec => []Inv
BY InitInv, NextInv, PTL DEF Spec

(* Types, with the bounds that are no types: no more hops than MaxHops, no *)
(* more than one open body per request, no more slots than clients.  That  *)
(* there may be more of them than MaxTotal is what the code allows.        *)
THEOREM TypeCorrect == Spec => []TypeOK
<1>1. Inv => TypeOK
  <2> SUFFICES ASSUME Inv PROVE TypeOK
    OBVIOUS
  <2>1. /\ Slotted \subseteq Clients /\ Gauged \subseteq Requests
        /\ IsFiniteSet(Clients) /\ IsFiniteSet(Requests)
    BY RequestsFinite, WebAssumption DEF Slotted, HasSlot, LimitedBy, Gauged
  <2>2. /\ IsFiniteSet(Slotted) /\ Cardinality(Slotted) <= Cardinality(Clients)
        /\ IsFiniteSet(Gauged) /\ Cardinality(Gauged) <= Cardinality(Requests)
    BY <2>1, FS_Subset
  <2>3. slots \in 0..Cardinality(Clients) /\ gauge \in 0..Cardinality(Requests)
    BY <2>1, <2>2, FS_CardinalityType DEF Inv, CountsOK
  <2>4. QED
    BY <2>3 DEF Inv, LocalOK, ProxiesOK, TypeOK, Labels, Stacks, Values, Places, Hops, Responses,
                Codes, Answers, SentCodes, Counts, StatRows
<1>2. QED
  BY <1>1, InvHolds, PTL

(* Whichever way a request leaves proxyHTTP, it gives back its slot of the *)
(* session and its place in the gauge, once, and not before its last byte. *)
THEOREM SlotsGivenBack == Spec => []HeldWhileServing
<1>1. Inv => HeldWhileServing
  BY DEF Inv, CountsOK, Slotted, Gauged, HasSlot, InGauge, LimitedBy, HeldWhileServing, Limited
<1>2. QED
  BY <1>1, InvHolds, PTL

(* A finished request is in the statistics once if it sent bytes under a   *)
(* 2xx, with the status that was sent and the bytes that were delivered,   *)
(* up to one write that failed; and else not at all.                       *)
THEOREM StatisticsRight == Spec => []RecordedAsSent
<1>1. Inv => RecordedAsSent
  <2> SUFFICES ASSUME Inv, NEW r \in Requests, pc[r] = "over"
               PROVE  IF req[r].bytesWritten > 0 /\ req[r].sent \in 200..299
                      THEN /\ Len(req[r].records) = 1
                           /\ req[r].records[1].status = req[r].sent
                           /\ req[r].records[1].bytes \in {req[r].delivered, req[r].delivered + 1}
                      ELSE req[r].records = <<>>
    BY DEF RecordedAsSent
  <2>1. InStats(req[r]) /\ Noted("over", req[r])
    BY DEF Inv, LocalOK, Local, StatsAt
  <2>2. CASE req[r].bytesWritten > 0 /\ req[r].sent \in 200..299
    <3> DEFINE row == [status |-> req[r].sent, bytes |-> req[r].bytesWritten]
    <3>1. req[r].records = <<row>>
      BY <2>1, <2>2 DEF InStats
    <3>2. row.status = req[r].sent /\ row.bytes = req[r].bytesWritten
      OBVIOUS
    <3> HIDE DEF row
    <3>3. Len(<<row>>) = 1 /\ <<row>>[1] = row
      OBVIOUS
    <3>4. req[r].bytesWritten \in {req[r].delivered, req[r].delivered + 1}
      BY <2>1, <2>2 DEF Noted
    <3>5. QED
      BY <2>2, <3>1, <3>2, <3>3, <3>4
  <2>3. CASE ~(req[r].bytesWritten > 0 /\ req[r].sent \in 200..299)
    BY <2>1, <2>3 DEF InStats
  <2>4. QED
    BY <2>2, <2>3
<1>2. QED
  BY <1>1, InvHolds, PTL

(* No exit from the redirect loop, the response hook or the copy leaves a  *)
(* body of the upstream open.                                              *)
THEOREM NoBodyLeaks == Spec => []BodiesClosed
<1>1. Inv => BodiesClosed
  BY DEF Inv, LocalOK, Local, BodiesAt, BodiesClosed
<1>2. QED
  BY <1>1, InvHolds, PTL

(* The proxy a request finds in the cache is for the pod just resolved,    *)
(* since no two pods have one host and port.                               *)
THEOREM TargetIsResolved == Spec => []RightTarget
<1>1. Inv => RightTarget
  BY DEF Inv, LocalOK, Local, RightTarget
<1>2. QED
  BY <1>1, InvHolds, PTL

-----------------------------------------------------------------------------
(* Refusals *)

(* A step of one request leaves the others where they are. *)
LEMMA OthersStay ==
    ASSUME Inv, NEW s \in Requests, Step(s) \/ ClientGone(s), NEW r \in Requests \ {s}
    PROVE  pc'[r] = pc[r]
<1>1. pc \in [Requests -> Labels]
  BY DEF Inv, LocalOK
<1>2. ASSUME NEW label, Goto(s, label) PROVE pc'[r] = pc[r]
  BY <1>1, <1>2 DEF Goto
<1>3. ASSUME NEW q, Return(s, q) PROVE pc'[r] = pc[r]
  BY <1>2, <1>3 DEF Return
<1>4. ASSUME NEW code, Refuse(s, code) PROVE pc'[r] = pc[r]
  BY <1>2, <1>4 DEF Refuse
<1>5. CASE Authorize(s) \/ CheckTotal(s) \/ Admit(s) \/ GetBucket(s) \/ GetProxy(s)
  BY <1>2, <1>3, <1>4, <1>5 DEF Authorize, CheckTotal, Admit, GetBucket, GetProxy
<1>6. CASE FollowRedirect(s) \/ ModifyResponse(s) \/ RunDeferred(s) \/ Granted(s) \/ EndUpgraded(s)
  BY <1>2, <1>3, <1>6 DEF FollowRedirect, ModifyResponse, RunDeferred, Granted, EndUpgraded
<1>7. CASE Await(s)
  BY <1>2, <1>3, <1>7 DEF Await, RoundTrip, Hop, Answered, ReadManifest, Copy, Write
<1>8. CASE ClientGone(s)
  BY <1>8 DEF ClientGone
<1>9. QED
  BY <1>5, <1>6, <1>7, <1>8 DEF Step, Unaided

(* Only the limiter refuses a request that is there. *)
LEMMA RefusedByLimiter ==
    ASSUME Inv, [Next]_vars, NEW r \in Requests, pc[r] = "acquire", pc'[r] = "over"
    PROVE  Limited(r) /\ slots >= MaxTotal
<1>1. pc \in [Requests -> Labels] /\ pc'[r] # pc[r]
  BY DEF Inv, LocalOK
<1>2. ASSUME NEW c \in Clients, Receive(c) \/ ServeOther(c) \/ ServeSpeedtest(c) PROVE FALSE
  BY <1>1, <1>2 DEF Receive, ServeOther, ServeSpeedtest, Goto, Requests
<1>3. ASSUME NEW c \in Clients, Finish(c) PROVE FALSE
  BY <1>1, <1>3 DEF Finish
<1>4. ASSUME NEW n \in Nested, CallBack(n) PROVE FALSE
  BY <1>1, <1>4 DEF CallBack, Goto, Requests
<1>5. ASSUME NEW s \in Requests, Step(s) \/ ClientGone(s) PROVE CheckTotal(r)
  <2>1. s = r
    BY <1>1, <1>5, OthersStay
  <2>2. QED
    BY <1>1, <1>5, <2>1
       DEF Step, Unaided, Await, Authorize, Admit, GetBucket, GetProxy, RoundTrip, FollowRedirect, Hop,
           ModifyResponse, ReadManifest, EndUpgraded, Copy, Granted, Write, RunDeferred, ClientGone
<1>6. CASE UNCHANGED pc
  BY <1>1, <1>6
<1>7. CheckTotal(r)
  BY <1>2, <1>3, <1>4, <1>5, <1>6 DEF Next, ProxyExpires, vars
<1>8. ~Goto(r, "admit")
  BY <1>1 DEF Goto
<1>9. QED
  BY <1>7, <1>8 DEF CheckTotal

(* A client is told that the session has too many requests only when as    *)
(* many as it may have, of other clients, are in flight: a slot is neither *)
(* kept by a request that is over nor taken by the calls of its services.  *)
THEOREM RefusalsForOthers == Spec => RefusedForOthers
<1>1. ASSUME Inv, [Next]_vars, NEW r \in Requests, pc[r] = "acquire", pc'[r] = "over"
      PROVE  Cardinality(OthersServed(r)) >= MaxTotal
  <2>1. Limited(r) /\ Cardinality(Slotted) >= MaxTotal
    BY <1>1, RefusedByLimiter DEF Inv, CountsOK
  <2>2. r \in Clients /\ r \notin Nested /\ pc[r] \notin Serving
    BY <1>1, <2>1, WebAssumption DEF Limited, Serving
  <2>3. \A c \in Clients : r \in Chain(c) <=> c = r
    BY <2>2 DEF Chain
  <2>4. Slotted = OthersServed(r)
    BY <2>2, <2>3 DEF Slotted, HasSlot, LimitedBy, OthersServed, Limited, Requests
  <2>5. QED
    BY <2>1, <2>4
<1>2. Inv /\ [Next]_vars
         => [\A r \in Requests : (pc[r] = "acquire" /\ pc'[r] = "over")
                => Cardinality(OthersServed(r)) >= MaxTotal]_vars
  BY <1>1
<1>3. QED
  BY <1>2, InvHolds, PTL DEF Spec, RefusedForOthers
=============================================================================
