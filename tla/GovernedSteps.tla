---------------------------- MODULE GovernedSteps ----------------------------
(***************************************************************************)
(* What a governed sequence of steps promises, whatever requests overlap   *)
(* and whenever the server dies: an item passes its steps one at a time,   *)
(* in their order, and a step once passed stays passed.                    *)
(***************************************************************************)
EXTENDS Naturals

CONSTANTS Items, Steps

VARIABLE reached

TypeOK == reached \in [Items -> 0..Steps]

Init == reached = [i \in Items |-> 0]

Advance(i) == reached[i] < Steps /\ reached' = [reached EXCEPT ![i] = @ + 1]

Next == \E i \in Items : Advance(i)

Spec == Init /\ [][Next]_reached
=============================================================================
