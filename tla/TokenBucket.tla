---------------------------- MODULE TokenBucket ----------------------------
(***************************************************************************)
(* What a shared token bucket promises: its clients draw from it no more   *)
(* than Capacity at once and no more than Rate per clock tick.  beat flips *)
(* with the clock, so that an implementation cannot pass off tokens it     *)
(* makes up as time going by; drawn is what each client has in hand, so    *)
(* that tokens cannot be handed out without leaving the bucket.            *)
(***************************************************************************)
EXTENDS Integers

CONSTANTS Clients, Rate, Capacity

VARIABLES tokens, beat, drawn

Least(x, y) == IF x < y THEN x ELSE y

Init ==
    /\ tokens = Capacity
    /\ beat = FALSE
    /\ drawn = [c \in Clients |-> 0]

Accrue ==
    /\ beat' = ~beat
    /\ tokens' = Least(Capacity, tokens + Rate)
    /\ UNCHANGED drawn

Grant(c) ==
    /\ drawn[c] = 0
    /\ \E n \in 0..tokens :
          /\ tokens' = tokens - n
          /\ drawn' = [drawn EXCEPT ![c] = n]
    /\ UNCHANGED beat

(* The client uses what it drew, or loses it. *)
Spend(c) ==
    /\ drawn' = [drawn EXCEPT ![c] = 0]
    /\ UNCHANGED <<tokens, beat>>

Next == Accrue \/ \E c \in Clients : Grant(c) \/ Spend(c)

Spec == Init /\ [][Next]_<<tokens, beat, drawn>>
============================================================================
