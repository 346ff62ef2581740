------------------------------ MODULE MCDHTRing ------------------------------
(* Constants for model checking DHTRing.  Two keys whose hashes lie at the
   two ends of the hash space, so that a split sends the second one away. *)
EXTENDS DHTRing

CONSTANTS kl, kh

MCHash == [k \in Key |-> IF k = kl THEN 1 ELSE HASH_SIZE - 1]

Symmetry == Permutations(Node)
=============================================================================
