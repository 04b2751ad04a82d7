------------------------------ MODULE MCDelivery ------------------------------
(* Model values for the runs of Delivery. *)
EXTENDS DeliveryTrail, TLC

Interchangeable == Permutations(Requests)

=============================================================================
