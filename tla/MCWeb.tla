------------------------------- MODULE MCWeb -------------------------------
(***************************************************************************)
(* Web for TLC.                                                            *)
(***************************************************************************)
EXTENDS Web

CONSTANTS c1, c2, n1

MCCaller == [n \in Nested |-> c1]

Good == [otherHash |-> FALSE, session |-> TRUE, moved |-> FALSE, rate |-> "good"]

(* Requests of c1 may get to the pods; those of c2 only take a slot. *)
MCProfiles ==
    [c \in Clients |->
        IF c = c1 THEN {Good, [Good EXCEPT !.otherHash = TRUE], [Good EXCEPT !.moved = TRUE]}
        ELSE {[Good EXCEPT !.rate = "bad"]}]

(* Two services on one host. *)
MCPods == {[ip |-> "host", http |-> 1], [ip |-> "host", http |-> 2]}
============================================================================
