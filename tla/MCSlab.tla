-------------------------------- MODULE MCSlab --------------------------------
(* A pool for TLC: one size below the exact one, whose pages hold their    *)
(* bitmap in the first chunk, and one above it.                            *)
EXTENDS Slab
CONSTANTS small, big
Sizes == {small, big}
ChunksOf == [s \in Sizes |-> IF s = small THEN 4 ELSE 2]
ReservedOf == [s \in Sizes |-> IF s = small THEN 1 ELSE 0]
===============================================================================
