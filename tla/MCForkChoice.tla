---------------------------- MODULE MCForkChoice ----------------------------
(***************************************************************************)
(* Instances of ForkChoice.  The checkpoints of a block are those of a     *)
(* chain that follows the protocol: the realized ones of a block are the   *)
(* unrealized ones of its last ancestor in an earlier epoch.               *)
(***************************************************************************)
EXTENDS ForkChoice

Cp(epoch, root) == [epoch |-> epoch, root |-> root]

\* A block whose attestations justify nothing new.
Plain(slot, parent, target, justified, finalized) ==
    [slot |-> slot, parent |-> parent, target |-> target,
     justified |-> justified, finalized |-> finalized,
     unrealized_justified |-> justified, unrealized_finalized |-> finalized]

\* A block whose attestations justify uj and finalize uf.
Justifying(slot, parent, target, justified, finalized, uj, uf) ==
    [Plain(slot, parent, target, justified, finalized) EXCEPT
        !.unrealized_justified = uj, !.unrealized_finalized = uf]

G == Cp(0, 1)

-----------------------------------------------------------------------------
Vote(indices, slot, root, target) ==
    [indices |-> indices, slot |-> slot, root |-> root, target |-> target]

SameBalances == [r \in DOMAIN Block |-> <<30, 20>>]

\* Payloads: two slots per epoch and a fork in slot 1.  Blocks 3 and 5, after block 2, have
\* invalid payloads; block 4 competes with block 2, and validator 2 may move its vote from
\* block 4 to block 3.
PayloadTree == <<
    Plain(0, ZeroHash, 1, G, G),
    Plain(1, 1, 1, G, G),
    Plain(2, 2, 3, G, G),
    Plain(1, 1, 1, G, G),
    Plain(3, 3, 3, G, G)>>

PayloadAttestations == {Vote({2}, 1, 4, G), Vote({1, 2}, 2, 3, Cp(1, 3))}

\* Finality: one slot per epoch, an anchor in epoch 2, a chain 1-2-3-4 that justifies in
\* every epoch, a block 5 beside block 3 that justifies nothing and 6 beside block 2.
A == Cp(2, 1)
FinalityTree == <<
    Plain(2, ZeroHash, 1, A, A),
    Plain(3, 1, 2, A, A),
    Justifying(4, 2, 3, A, A, Cp(3, 2), A),
    Justifying(5, 3, 4, Cp(3, 2), A, Cp(4, 3), Cp(3, 2)),
    Plain(4, 2, 5, A, A),
    Plain(3, 1, 6, A, A)>>

FinalityAttestations == {Vote({1}, 4, 3, Cp(4, 3)), Vote({2}, 4, 5, Cp(4, 5))}

\* The total changes with every justified block, and validator 2 is new in the second.
GrowingBalances == <<<<30>>, <<40, 20>>, <<20, 50>>, <<20, 50>>, <<40, 20>>, <<30>>>>

\* Two validators exchange balances.
SwappedBalances == <<<<30, 20>>, <<20, 30>>, <<20, 30>>, <<20, 30>>, <<20, 30>>, <<30, 20>>>>
=============================================================================
