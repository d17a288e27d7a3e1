-------------------------- MODULE MCHybridBucket --------------------------
(***************************************************************************)
(* HybridBucket for TLC: all waiters on one proxy, or one on each.         *)
(***************************************************************************)
EXTENDS HybridBucket, TLC

CONSTANTS b1, b2, w1, w2

MCOneBucket == [w \in Waiters |-> b1]
MCTwoBuckets == [w \in Waiters |-> IF w = w1 THEN b1 ELSE b2]
=============================================================================
