-------------------------------- MODULE Heap --------------------------------
(***************************************************************************)
(* What an allocator promises the code that uses it: memory it hands out   *)
(* lies in the pool and overlaps nothing that is in use.                   *)
(***************************************************************************)
CONSTANT Cell       \* the memory of the pool
VARIABLE held       \* the regions in use, each a set of cells

Init == held = {}

Alloc ==
  \E r \in held' :
    /\ r # {} /\ r \subseteq Cell
    /\ r \cap UNION held = {}
    /\ held' = held \cup {r}

Release == \E r \in held : held' = held \ {r}

Spec == Init /\ [][Alloc \/ Release]_held
=============================================================================
