------------------------------ MODULE MCRustRing ------------------------------
(* Constants for model checking RustRing, as in MCDHTRing. *)
EXTENDS RustRing

CONSTANTS kl, kh

MCHash == [k \in Key |-> IF k = kl THEN 1 ELSE HASH_SIZE - 1]

(* Values are only compared with one another, so they may be exchanged as well. *)
StoreSymmetry == Permutations(Leavers) \cup Permutations(Value)

Symmetry == Permutations(Leavers) \cup Permutations(Node \ Leavers)
=============================================================================
