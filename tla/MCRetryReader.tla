--------------------------- MODULE MCRetryReader ---------------------------
(***************************************************************************)
(* RetryReader for TLC: the forms of Range headers on a short object.      *)
(***************************************************************************)
EXTENDS RetryReader

MCAllRanges == {NoRange, From(1), Slice(0, 2), Slice(1, 3), Suffix(2), From(4)}
=============================================================================
