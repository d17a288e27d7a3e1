--------------------------- MODULE MCAlgorithms ---------------------------
(***************************************************************************)
(* The proxy's pure functions for TLC: which pod serves a torrent          *)
(* (Distribution), what a URL asks for (URLParser) and how a playlist is   *)
(* rewritten (ManifestRewriter).  A state is an input of one of them.      *)
(* URLs and playlists grow by a service or a line per step, so every one   *)
(* of bounded length is reached; a distribution is one initial state.      *)
(*                                                                         *)
(* Eleven prefixes stand for the code's 2^20; scale and width keep their   *)
(* roles, so the roundings of the code happen, on both levels.             *)
(***************************************************************************)
EXTENDS Distribution, URLParser, ManifestRewriter

CONSTANTS MaxOrigin, MaxModPath, MaxURL, MaxLines   \* lengths, in tokens and lines

ASSUME LengthsAssumption == {MaxOrigin, MaxModPath, MaxURL, MaxLines} \subseteq Nat

VARIABLE input

MCNodeOf == [p \in Pods |-> IF p <= 3 THEN 1 ELSE IF p <= 5 THEN 2 ELSE 3]

Tokens == {"/", "~", ":", "f", "hls"}

(* Paths as the mux lets them through, rooted and without double slashes,  *)
(* that do not name a service themselves.                                  *)
Plain(tokens, n) ==
    {p \in {<<"/">> \o s : s \in BoundedSeq(tokens, n - 1)} :
        /\ \A i \in 1..(Len(p) - 1) : ~(p[i] = "/" /\ p[i + 1] = "/")
        /\ ModIndex(p) = 0}

Lines ==
    {OffsetLine(v) : v \in {3, 7, BadNumber}} \cup {ExtinfLine(v) : v \in {-1, 2, BadNumber}}
    \cup {SegmentLine(t) : t \in {"primary", "other"}} \cup {OtherLine}

GraceRule(duration) ==
    [kind |-> "grace", scope |-> "manifest", duration |-> duration, token |-> "grace"]

ASSUME TokensAssumption == NoToken \notin {"primary", "grace"}

RuleLists == {<<>>, <<GraceRule(5)>>, <<GraceRule(0), NoRule, GraceRule(4), GraceRule(9)>>}

WithMod(path, m) ==
    path \o <<"~", m.name>> \o (IF m.extra = <<>> THEN <<>> ELSE <<":">> \o m.extra) \o m.path

(* The file, and the first n services to run on it. *)
Served(origin, mods) ==
    LET path[n \in 0..Len(mods)] == IF n = 0 THEN origin ELSE WithMod(path[n - 1], mods[n])
    IN  path

(* The URL a client writes for them. *)
Compose(n) == <<"/", input.hash>> \o Served(input.origin, input.mods)[n]

URL == Compose(Len(input.mods))

Init ==
    \/ input \in [kind : {"distribution"}, key : HashPrefixes,
                  as : (SUBSET Pods) \ {{}}, allowed : SUBSET Nodes]
    \/ input \in [kind : {"url"}, hash : HexWords,
                  origin : Plain(Tokens \cup {"?"}, MaxOrigin), mods : {<<>>}]
    \/ input \in [kind : {"url"}, hash : Mods, origin : Plain(Tokens, 2), mods : {<<>>}]
    \/ input \in [kind : {"manifest"}, rules : RuleLists, body : {<<>>}]

AddMod ==
    /\ input.kind = "url"
    /\ \E m \in Mods, e \in {<<>>, <<"f">>}, p \in {<<>>} \cup Plain(Tokens, MaxModPath) :
          input' = [input EXCEPT !.mods = Append(@, [name |-> m, extra |-> e, path |-> p])]
    /\ Len(URL') <= MaxURL

AddLine ==
    /\ input.kind = "manifest" /\ Len(input.body) < MaxLines
    /\ \E l \in Lines : input' = [input EXCEPT !.body = Append(@, l)]

Stop == UNCHANGED input

Next == AddMod \/ AddLine \/ Stop

Spec == Init /\ [][Next]_input

-----------------------------------------------------------------------------
(* Distribution *)

IsDistribution == input.kind = "distribution"

ByHash(k) == DistributeByHash(k, input.as)
ByNode(k) == DistributeByNodeHash(k, input.as, input.allowed)
Usable == {a \in input.as : NodeOf[a] \in input.allowed}

Share(f(_), S) == Cardinality({k \in 0..(MaxPrefix - 1) : f(k) \in S})

FairShare(f(_), S, n) == Share(f, S) \in (MaxPrefix \div n)..(MaxPrefix \div n + 1)

(* Whatever pods there are, a torrent has one, by hash or, on a node the   *)
(* role allows, by node hash (infohashes that start with fffff aside); and *)
(* no pod, or node, gets more than its share of the torrents: the          *)
(* roundings of the hash line cost one prefix at most.                     *)
EvenPartition ==
    IsDistribution =>
        LET nodes == {NodeOf[a] : a \in Usable} IN
        /\ input.key < MaxPrefix =>
              /\ ByHash(input.key) \in input.as
              /\ IF Usable = {} THEN ByNode(input.key) = NoPod ELSE ByNode(input.key) \in Usable
        /\ \A a \in input.as : FairShare(ByHash, {a}, Cardinality(input.as))
        /\ \A n \in nodes : FairShare(ByNode, On(n, input.as), Cardinality(nodes))

(* What GetFallback counts on: a torrent whose pod is excluded stays on    *)
(* its node as long as the node has another pod, and no torrent of any     *)
(* other node moves.                                                       *)
ExclusionStaysOnNode ==
    IsDistribution =>
        \A q \in input.as :
            (Cardinality(On(NodeOf[q], input.as)) > 1 /\ ByNode(input.key) # NoPod) =>
                LET p == DistributeByNodeHash(input.key, input.as \ {q}, input.allowed)
                IN  p # NoPod /\ NodeOf[p] = NodeOf[ByNode(input.key)]

-----------------------------------------------------------------------------
(* URLs *)

(* What the proxy makes of the client's request and of each request a      *)
(* service makes in turn for its X-Source-Url.                             *)
Calls ==
    LET all == Len(input.mods)
        call[i \in 0..all] == Parse(IF i = 0 THEN URL ELSE SourceURL(call[i - 1]))
    IN  call

ColonAfterTilde(path) == \E i \in Tildes(path) : Contains(Segment(path, i), ":")

(* The services of a URL are called from the last to the first, each with  *)
(* its own path and extra, all for the same torrent and file, and the last *)
(* call is for the file itself.  Tildes that name no service belong to     *)
(* names and stay in them.  (An extra is read from such a tilde if the     *)
(* service has none; a question mark in a name cuts the chain short, but   *)
(* never leads it to another torrent.)                                     *)
ChainPeelsMods ==
    input.kind = "url" =>
        LET all == Len(input.mods) IN
        \A i \in 0..all :
            LET src == Calls[i] IN
            /\ ~src.err /\ src.InfoHash = <<input.hash>>
            /\ ~Contains(URL, "?") =>
                  /\ <<"/", input.hash>> \o src.Path = Compose(IF i = all THEN 0 ELSE all - i - 1)
                  /\ src.OriginPath = input.origin
                  /\ i = all => src.Mod = NoMod /\ GetEdgeType(src) = src.Type
                  /\ i < all =>
                        LET m == input.mods[all - i] IN
                        /\ GetEdgeType(src) = m.name
                        /\ src.Mod.Path = (IF m.path = <<>> THEN <<"/">> ELSE CleanPath(m.path))
                        /\ (m.extra # <<>> \/ ~ColonAfterTilde(m.path)) => src.Mod.Extra = m.extra

-----------------------------------------------------------------------------
(* Playlists *)

(* Lines after the previous segment URL, up to the URL at i. *)
Since(body, i) == {j \in 1..(i - 1) : \A k \in j..(i - 1) : body[k].t # "url"}

(* The duration of the segment at i: the last one given for it. *)
DurationAt(body, i) ==
    LET given == {j \in Since(body, i) : body[j].t = "extinf" /\ body[j].sec # BadNumber}
    IN  IF given = {} THEN 0 ELSE body[Max(given)].sec

(* Film time after each of the lines. *)
FilmTime(body) ==
    LET at[n \in 0..Len(body)] ==
            IF n = 0 THEN ParseSessionOffset(body)
            ELSE at[n - 1] + (IF body[n].t = "url" THEN DurationAt(body, n) ELSE 0)
    IN  at

(* Line i under a grace rule: a segment of the primary token gets the      *)
(* rule's if its film time lies before the end of the grace period and the *)
(* playlist gives a duration for it.                                       *)
GraceLine(body, i, rule, primary) ==
    IF /\ body[i] = SegmentLine(primary)
       /\ ParseSessionOffset(body) < rule.duration
       /\ FilmTime(body)[i - 1] < rule.duration
       /\ DurationAt(body, i) > 0
    THEN SegmentLine(rule.token) ELSE body[i]

GraceManifest(body, rule, primary) ==
    StripSessionOffsetLine([i \in DOMAIN body |-> GraceLine(body, i, rule, primary)])

(* A segment gets the grace token exactly if its film time, the session    *)
(* offset plus the durations of the segments before it, lies before the    *)
(* end of the grace period of the first usable rule, and a positive        *)
(* duration can be read for the segment itself: one without a readable     *)
(* EXTINF keeps the primary token wherever it lies.  All other lines stay  *)
(* as they are, but for the session offset, which is taken out of every    *)
(* playlist that a usable rule applies to, one without segments included.  *)
GraceExact ==
    input.kind = "manifest" =>
        LET grace == {k \in DOMAIN input.rules :
                         input.rules[k].token = "grace" /\ input.rules[k].duration > 0}
        IN  RewriteManifest(input.body, input.rules, "primary") =
                IF grace = {} THEN input.body
                ELSE GraceManifest(input.body, input.rules[Min(grace)], "primary")
=============================================================================
