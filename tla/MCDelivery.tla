----------------------------- MODULE MCDelivery -----------------------------
(* Small instances of Delivery for TLC.  Nothing in Delivery orders workers, *)
(* their slots, task ids or lanes, so all four are symmetric.                *)
EXTENDS DeliveryJobs, TLC

Symmetric == Permutations(Workers) \cup Permutations(Slots)
               \cup Permutations(Tasks) \cup Permutations(Lanes)
=============================================================================
