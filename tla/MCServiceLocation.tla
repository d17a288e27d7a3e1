------------------------- MODULE MCServiceLocation -------------------------
(***************************************************************************)
(* ServiceLocation for TLC: pods 1 and 2 on node 1, the others on node 2.  *)
(***************************************************************************)
EXTENDS ServiceLocation

MCNodeOf == [p \in Pods |-> IF p <= 2 THEN 1 ELSE 2]
MCNoStats == [n \in Nodes |-> [allowed |-> {}, denied |-> {}]]
MCStats == [n \in Nodes |-> [allowed |-> IF n = 1 THEN {"paid"} ELSE {}, denied |-> {"free"}]]
============================================================================
