---------------------------- MODULE MCReplication ----------------------------
(* Binlogs for TLC.                                                        *)
EXTENDS Replication

LOCAL E(kind, file, end, images) ==
  [kind |-> kind, file |-> file, end |-> end, images |-> images]

(* Two inserts under one table map, an update, a rotation, a delete, and a *)
(* third file that was begun without a ROTATE event (the master died).     *)
ThreeFiles ==
  << E("map", 1, 1, 0), E("write", 1, 2, 2), E("write", 1, 3, 1), E("commit", 1, 4, 0),
     E("map", 1, 5, 0), E("update", 1, 6, 2), E("commit", 1, 7, 0), E("rotate", 1, 8, 0),
     E("other", 2, 1, 0), E("map", 2, 2, 0), E("delete", 2, 3, 3), E("commit", 2, 4, 0),
     E("map", 3, 1, 0), E("write", 3, 2, 1), E("commit", 3, 3, 0) >>

(* One insert of five rows, and a row after it. *)
LongInsert ==
  << E("map", 1, 1, 0), E("write", 1, 2, 5), E("commit", 1, 3, 0),
     E("map", 1, 4, 0), E("write", 1, 5, 1), E("commit", 1, 6, 0) >>
=============================================================================
