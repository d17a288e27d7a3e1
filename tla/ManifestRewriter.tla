------------------------- MODULE ManifestRewriter -------------------------
(***************************************************************************)
(* services/manifest_rewriter.go and the rules of a token (claims.go,      *)
(* rules.go): the segments of a playlist that start within the first       *)
(* seconds of a film are given another token, with another rate.           *)
(*                                                                         *)
(* A manifest is a sequence of lines: the session offset the upstream put  *)
(* in, the duration of the next segment (EXTINF), the URL of a segment     *)
(* with the token in its query, and all others.  Times are whole numbers;  *)
(* BadNumber is one that does not parse.                                   *)
(***************************************************************************)
EXTENDS Integers, Sequences, SequencesExt

CONSTANTS BadNumber, NoToken

ASSUME ManifestAssumption == BadNumber \notin Int

OffsetLine(sec) == [t |-> "offset", sec |-> sec]
ExtinfLine(sec) == [t |-> "extinf", sec |-> sec]
SegmentLine(token) == [t |-> "url", token |-> token]
OtherLine == [t |-> "other"]

NoRule == [kind |-> "none", scope |-> "none", duration |-> 0, token |-> NoToken]

(* ExtractRules has replaced missing or mistyped fields by zero values. *)
FindGraceRule(rules) ==
    LET k == SelectInSeq(rules, LAMBDA r : /\ r.kind = "grace" /\ r.scope = "manifest"
                                           /\ r.token # NoToken /\ r.duration > 0)
    IN  IF k = 0 THEN NoRule ELSE rules[k]

(* The first offset tag counts, whatever is in it. *)
ParseSessionOffset(body) ==
    LET k == SelectInSeq(body, LAMBDA l : l.t = "offset")
    IN  IF k = 0 \/ body[k].sec = BadNumber THEN 0 ELSE body[k].sec

StripSessionOffsetLine(body) ==
    LET kept[n \in 0..Len(body)] ==
            IF n = 0 THEN <<>>
            ELSE IF body[n].t = "offset" THEN kept[n - 1] ELSE Append(kept[n - 1], body[n])
    IN  kept[Len(body)]

SwapToken(line, primary, grace) == IF line.token = primary THEN SegmentLine(grace) ELSE line

(* A segment counts by its end. *)
InGrace_ByEnd(acc, until) == acc.movieTime + acc.pending <= until /\ acc.pending > 0

InGrace(acc, until) == acc.movieTime < until /\ acc.pending > 0

(* One round of the loop; an EXTINF that does not parse leaves pending as  *)
(* it was.                                                                 *)
RewriteLine(acc, line, rule, primary) ==
    CASE line.t = "offset" -> acc
      [] line.t = "extinf" -> [acc EXCEPT !.out = Append(@, line),
                                          !.pending = IF line.sec = BadNumber THEN @ ELSE line.sec]
      [] line.t = "other" -> [acc EXCEPT !.out = Append(@, line)]
      [] line.t = "url" ->
            [out |-> Append(acc.out, IF InGrace(acc, rule.duration)
                                     THEN SwapToken(line, primary, rule.token) ELSE line),
             movieTime |-> acc.movieTime + acc.pending,
             pending |-> 0]

(* The loop: what is known after each of the lines. *)
RewriteLines(body, rule, primary) ==
    LET acc[n \in 0..Len(body)] ==
            IF n = 0 THEN [out |-> <<>>, movieTime |-> ParseSessionOffset(body), pending |-> 0]
            ELSE RewriteLine(acc[n - 1], body[n], rule, primary)
    IN  acc

RewriteManifest(body, rules, primary) ==
    LET rule == FindGraceRule(rules)
    IN  IF rule = NoRule \/ primary = NoToken THEN body
        ELSE IF ParseSessionOffset(body) >= rule.duration THEN StripSessionOffsetLine(body)
        ELSE RewriteLines(body, rule, primary)[Len(body)].out
===========================================================================
