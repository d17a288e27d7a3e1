------------------------- MODULE MCSessionLimiter -------------------------
(***************************************************************************)
(* SessionLimiter for TLC.  f1 and f2 are files of one torrent, f1 above   *)
(* the big-file threshold and f2 below it; a request is a goroutine that   *)
(* serves one request after another, so short histories of many requests   *)
(* are covered by few of them.                                             *)
(***************************************************************************)
EXTENDS SessionLimiter, TLC

CONSTANTS f1, f2, h

MCSizeOf == [f \in Files |-> IF f = f1 THEN 4 ELSE 1]
MCHashOf == [f \in Files |-> h]
(* One segment of an HLS rendition of f1, shorter than the threshold. *)
MCModSizes == {2}

MCSymmetry ==
    Permutations(Requests) \cup Permutations(Addrs) \cup Permutations(Subnets)

=============================================================================
