----------------------------- MODULE MCConfig -----------------------------
(* Numbers at the edges of a word of four bits and a port of two: a port    *)
(* that is cut to 0, ratios whose product with the number of tables wraps.  *)
EXTENDS Config

EdgeValues ==
  [slave_id |-> {0, 1}, master_port |-> {4, 5}, ti_map_ratio |-> {0, 1, 3, 4, 6},
   ti_bucket_size |-> {0, 2}, ti_bucket_height |-> {1, 2}, pool_size |-> {0, 1}]
=============================================================================
