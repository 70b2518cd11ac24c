----------------------------- MODULE MCIkdTree ------------------------------
(***************************************************************************)
(* Four points in two rows, so that both axes split; one box cuts across   *)
(* both children of a split, the other covers a side of it.  Six nodes     *)
(* with rebuilds from three nodes on let an inner subtree be frozen under  *)
(* recorded ancestors while points are inserted into it and beside it.     *)
(***************************************************************************)
EXTENDS IkdTree

MCPoints == {<<0, 0>>, <<1, 1>>, <<2, 0>>, <<3, 1>>}
MCBoxes == {<<<<0, 0>>, <<3, 0>>>>, <<<<0, 0>>, <<1, 1>>>>}
MCBatches == {<<p>> : p \in MCPoints} \union {<<<<0, 0>>, <<3, 1>>>>}
MCQueries == {<<0, 0>>, <<1, 2>>, <<2, 1>>}
=============================================================================
