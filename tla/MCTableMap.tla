----------------------------- MODULE MCTableMap -----------------------------
(* Tables for TLC: two watched tables w1 and w2, one that is not watched.  *)
EXTENDS TableMap, TLC
CONSTANTS w1, w2, u
TwoWatched == {w1, w2}
(* The watched tables are interchangeable. *)
Symmetry == Permutations(TwoWatched)
OneWatched == {w1}
ThreeTables == {w1, w2, u}
TwoTables == {w1, u}
(* Version 2 has a column less, and none with metadata; version 3 only    *)
(* names its columns otherwise than version 1.                             *)
Definitions == 1 .. 3
Columns == <<2, 1, 2>>
Metadata == <<2, 0, 2>>
=============================================================================
