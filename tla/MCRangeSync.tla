---------------------------- MODULE MCRangeSync ----------------------------
(***************************************************************************)
(* Instances of RangeSync for TLC.  Peers and targets of one kind are      *)
(* interchangeable: the module only compares them and counts peers.        *)
(***************************************************************************)
EXTENDS RangeSync, TLC

Symmetry == Permutations(FinalizedTargets) \cup Permutations(HeadTargets) \cup Permutations(Peers)

=============================================================================
