---------------------------- MODULE MCNameHash ----------------------------
(* Three table names: the second takes two words, the third so many that    *)
(* two of them in a bucket wrap the u_short that counts its words.          *)
EXTENDS NameHash
CONSTANTS w1, w2, w3

Lengths == [w \in Words |-> IF w = w1 THEN 1 ELSE IF w = w2 THEN 2 ELSE 7]
=============================================================================
