------------------------------ MODULE HashRange ------------------------------
(***************************************************************************)
(* The arithmetic on hash ranges.  A node stores range_start and range_end *)
(* as uint8_t (util.h) and computes with them in int: every value is       *)
(* promoted before it is subtracted or divided, and reduced modulo         *)
(* HASH_SIZE (256 in the code) when it is assigned back.                   *)
(***************************************************************************)
EXTENDS Integers

CONSTANT HASH_SIZE

ASSUME HashSizeAssumption == HASH_SIZE \in Nat \ {0}

(* The values of a uint8_t, which are also the hashes. *)
Byte == 0 .. HASH_SIZE - 1

(* Mutant of u8: the fields are ints. *)
Mutant_NoWrap(x) == x

(* Assignment of an int to a uint8_t. *)
u8(x) == x % HASH_SIZE

(* x / 2 in C: the quotient is truncated towards zero. *)
Half(x) == IF x >= 0 THEN x \div 2 ELSE -((-x) \div 2)

(* check_range answers 0 (in range) exactly for these hashes.  A range whose
   start exceeds its end holds none. *)
InRange(hash, start, end) == start <= hash /\ hash <= end

(* The int span compared with NET_JOIN's max_span; negative if inverted. *)
self_range(start, end) == end - start

(* The end of the part of its range a node keeps when another one joins. *)
middle_point(start, end) == u8(Half(end - start) + start)

(* Mutant of handover_start: the middle point is handed over too. *)
Mutant_SharedMiddle(start, end) == middle_point(start, end)

(* The start of the part it hands over; that part ends at its old end. *)
handover_start(start, end) == u8(middle_point(start, end) + 1)
=============================================================================
