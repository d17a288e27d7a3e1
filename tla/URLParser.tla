----------------------------- MODULE URLParser -----------------------------
(***************************************************************************)
(* services/url_parser.go: what a request asks for.  The path of a URL is  *)
(* an infohash, a file of the torrent, and any number of services to run   *)
(* on it, innermost first:                                                 *)
(*     /infohash/dir/file~hls/index.m3u8~vtt:en/subtitles.vtt              *)
(* The proxy sends the request to the last service and tells it, in        *)
(* X-Source-Url, where to get its input: the same URL without that         *)
(* service.  So a service calls the proxy back for the one before it.      *)
(*                                                                         *)
(* A path is a sequence of tokens: the characters the parser looks for     *)
(* ("/", "~", ":", "?") and the words between them.  It is decoded, and    *)
(* net/http's mux has removed dots and double slashes from it.  An edge's  *)
(* Name, for metrics, is left out: its type determines it.                 *)
(***************************************************************************)
EXTENDS Integers, Sequences, SequencesExt

CONSTANTS
    Mods,       \* keys of ServicesConfig other than "default": GetMods()
    HexWords    \* words with five hex digits in a row

ASSUME URLParserAssumption == {"/", "~", ":", "?", "default"} \cap (Mods \cup HexWords) = {}

(* The two results of strings.SplitN(s, t, 2). *)
Upto(s, t) ==
    LET k == SelectInSeq(s, LAMBDA x : x = t) IN IF k = 0 THEN s ELSE SubSeq(s, 1, k - 1)

After(s, t) ==
    LET k == SelectInSeq(s, LAMBDA x : x = t) IN IF k = 0 THEN <<>> ELSE SubSeq(s, k + 1, Len(s))

From(s, i) == SubSeq(s, i, Len(s))

Tildes(path) == {i \in DOMAIN path : path[i] = "~"}

(* p[0] of extractMod's loop: from a tilde to the next slash. *)
Segment(path, i) == Upto(From(path, i + 1), "/")

KnownMod(path, i) == \E m \in Mods : Upto(Segment(path, i), ":") = <<m>>

(* Looks at the last tilde only. *)
ModIndex_LastTilde(path) ==
    LET last == Max({0} \cup Tildes(path))
    IN  IF last # 0 /\ KnownMod(path, last) THEN last ELSE 0

(* The loop goes back from tilde to tilde until one is followed by the     *)
(* name of a service; 0 is !exist.                                         *)
ModIndex(path) == Max({0} \cup {i \in Tildes(path) : KnownMod(path, i)})

(* The variable e is assigned for every tilde on the way that has a colon  *)
(* in its segment, and never cleared.                                      *)
Extra(path, k) ==
    LET visited == {i \in Tildes(path) : i >= k /\ Contains(Segment(path, i), ":")}
    IN  IF visited = {} THEN <<>> ELSE After(Segment(path, Min(visited)), ":")

(* filepath.Clean, which finds at most a trailing slash to remove. *)
CleanPath(path) == IF Len(path) > 1 /\ Last(path) = "/" THEN Front(path) ELSE path

NoMod == [Type |-> "none", Path |-> <<>>, Extra |-> <<>>]

ExtractMod(path) ==
    LET k == ModIndex(path)
    IN  IF k = 0 THEN [path |-> path, mod |-> NoMod]
        ELSE [path |-> SubSeq(path, 1, k - 1),
              mod  |-> [Type  |-> Upto(Segment(path, k), ":")[1],
                        Path  |-> CleanPath(<<"/">> \o After(From(path, k + 1), "/")),
                        Extra |-> Extra(path, k)]]

(* Strips one service only. *)
OriginPath_Once(path) == ExtractMod(path).path

(* Parse strips services until there are none. *)
OriginPath(path) ==
    LET strip[n \in 0..Len(path)] ==
            LET k == ModIndex(SubSeq(path, 1, n)) IN IF k = 0 THEN n ELSE strip[k - 1]
    IN  SubSeq(path, 1, strip[Len(path)])

CheckHash(hash) == \E i \in DOMAIN hash : hash[i] \in HexWords

ParseError == [err |-> TRUE]

(* The first component is an infohash, or the name of a service. *)
Parse(urlPath) ==
    LET hash == Upto(From(urlPath, 2), "/")
        type == IF \E m \in Mods : hash = <<m>> THEN hash[1] ELSE "default"
        ex   == ExtractMod(<<"/">> \o After(From(urlPath, 2), "/"))
    IN  IF hash = <<>> \/ (type = "default" /\ ~CheckHash(hash)) THEN ParseError
        ELSE [err |-> FALSE, InfoHash |-> hash, Type |-> type, Path |-> ex.path,
              OriginPath |-> OriginPath(ex.path), Mod |-> ex.mod]

GetEdgeType(src) == IF src.Mod # NoMod THEN src.Mod.Type ELSE src.Type

(* The path the proxy sees when a service requests its X-Source-Url.  The  *)
(* header holds the decoded path, not escaped again: a question mark in it *)
(* ends the path.                                                          *)
SourceURL(src) == Upto(<<"/">> \o src.InfoHash \o src.Path, "?")
============================================================================
