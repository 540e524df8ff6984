------------------------- MODULE SlashingConditions -------------------------
(***************************************************************************)
(* What the consensus rules punish: two different blocks of one slot, two  *)
(* different attestations of one target, and a surround.                   *)
(***************************************************************************)
EXTENDS Integers

DoubleProposal(x, y) == x # y /\ x.slot = y.slot

Surrounds(x, y) == x.source < y.source /\ y.target < x.target

Slashable(x, y) ==
    \/ x # y /\ x.target = y.target
    \/ Surrounds(x, y)
    \/ Surrounds(y, x)

=============================================================================
