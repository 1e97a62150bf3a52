---------------------------- MODULE MCSovereignRPC ----------------------------
(* Instances of SovereignRPC for TLC. *)
EXTENDS SovereignRPC, TLC

CONSTANTS n1, n2, cid1

MCNode      == {n1, n2}
MCCid       == {cid1}
MCAmount    == 0 .. 2
MCMinStakes == {1, 2}
Symmetry    == Permutations(MCNode)
=============================================================================
