---------------------------- MODULE MCIkdRebuild ----------------------------
(***************************************************************************)
(* Two points with up to three live copies each, every region, batches of  *)
(* one and of two points: a batch can straddle the end of the worker, and  *)
(* duplicates of a point can be split between the frozen subtree and the   *)
(* rest.                                                                   *)
(***************************************************************************)
EXTENDS IkdRebuild

CONSTANTS p, q

MCPoints == {p, q}
MCRegions == SUBSET {p, q} \ {{}}
MCBatches == {<<p>>, <<q>>, <<p, q>>, <<p, p>>}
=============================================================================
