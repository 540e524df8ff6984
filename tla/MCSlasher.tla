------------------------------ MODULE MCSlasher ------------------------------
(* An instance of Slasher for TLC. *)
EXTENDS Slasher

Vote(vs, s, t, r) == [attesters |-> vs, source |-> s, target |-> t, root |-> r]

(* Validator 0 may cast votes that surround each other within a chunk,     *)
(* across chunks and across the end of the arrays, and votes with the same *)
(* target.  Validator 1, in the next validator chunk, takes part in two    *)
(* aggregates and is far behind at the second.                             *)
MCAttestations ==
    {Vote({0}, 0, 0, "x"), Vote({0}, 2, 3, "x"), Vote({0, 1}, 2, 3, "x"), Vote({0}, 0, 4, "x"),
     Vote({0}, 3, 4, "x"), Vote({0, 1}, 5, 6, "x"), Vote({0}, 2, 7, "x"), Vote({0}, 3, 7, "y"),
     Vote({1}, 3, 2, "x")}

MCBlocks == {[proposer |-> 1, slot |-> 2, root |-> r] : r \in {"x", "y"}}
=============================================================================
