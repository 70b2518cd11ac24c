----------------------------- MODULE MCLocalMap -----------------------------
(***************************************************************************)
(* A plane in which the sensor goes along one axis or off it, back, or     *)
(* jumps, so that the cube stays, slides along either axis, and drops      *)
(* points it meets again later.  One scan has two points closer than the   *)
(* leaf on the two sides of a voxel boundary, one is empty.                *)
(***************************************************************************)
EXTENDS LocalMap

MCAxes == {1, 2}

MCPositions == {<<0, 0>>, <<1, 0>>, <<2, 1>>, <<4, 3>>, <<9, 0>>}

MCShapes ==
    {{}, {<<-2, 0>>}, {<<0, 1>>, <<1, 1>>}, {<<2, 2>>, <<-1, -2>>}}
=============================================================================
