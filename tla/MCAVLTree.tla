----------------------------- MODULE MCAVLTree -----------------------------
(* Values of the constants of AVLTree for model checking.                  *)
EXTENDS AVLTree

(* The third word is as long as a node: their blocks serve for each other. *)
Lengths == [w \in Words |-> IF w = 3 THEN NodeLen ELSE 2]

(* Once is enough but for the third word, which comes after the second.    *)
Counts == [w \in Words |-> IF w = 3 THEN 2 ELSE 1]
=============================================================================
