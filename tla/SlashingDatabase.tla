-------------------------- MODULE SlashingDatabase --------------------------
(***************************************************************************)
(* The decisions of the validator client's slashing protection database    *)
(* (validator_client/slashing_protection), as operators on the rows that   *)
(* one validator has in the tables signed_blocks and signed_attestations.  *)
(* Every public method runs its SQL in one exclusive transaction on a pool *)
(* of one connection, so each operator is one atomic step of its callers.  *)
(*                                                                         *)
(* A signing root is a hash of the message and its domain: two messages    *)
(* have the same root exactly when they are the same message.  A row keeps *)
(* the message itself; NullData stands for the zero root that an import    *)
(* stores, which SigningRoot::eq makes unequal to every root.              *)
(***************************************************************************)
EXTENDS Integers

CONSTANTS
    Data,       \* what two messages of the same slot or epochs can differ in
    NullData,   \* the zero signing root
    MaxSlot,    \* slots are 0..MaxSlot
    MaxEpoch,   \* epochs are 0..MaxEpoch
    SqlMax      \* the largest integer a column holds (i64::MAX)

ASSUME DatabaseAssumption ==
    /\ NullData \notin Data
    /\ MaxSlot \in Nat
    /\ MaxEpoch \in Nat
    /\ SqlMax \in Nat

Slot == 0..MaxSlot
Epoch == 0..MaxEpoch

Block == [slot : Slot, data : Data]
Attestation == [source : Epoch, target : Epoch, data : Data]

BlockRow == [slot : Slot, data : Data \cup {NullData}]
AttestationRow == [source : Epoch, target : Epoch, data : Data \cup {NullData}]

(***************************************************************************)
(* ToSql for Slot and Epoch: i64::try_from fails above i64::MAX, and the   *)
(* failed statement aborts the transaction.                                *)
(***************************************************************************)
ToSql(n) == n <= SqlMax

-----------------------------------------------------------------------------
(***************************************************************************)
(* check_block_proposal: a row of the slot is SameData or a                *)
(* DoubleBlockProposal, and neither is signed; a slot not above MIN(slot)  *)
(* violates the lower bound; anything else is Valid.                       *)
(***************************************************************************)
DoubleBlockProposal(rows, block) ==
    \E row \in rows : row.slot = block.slot

SlotViolatesLowerBound(rows, block) ==
    rows # {} /\ \A row \in rows : block.slot <= row.slot

BlockIsValid(rows, block) ==
    /\ ToSql(block.slot)
    /\ ~DoubleBlockProposal(rows, block)
    /\ ~SlotViolatesLowerBound(rows, block)

(***************************************************************************)
(* check_attestation, with its tests in the order of the code.  A row of   *)
(* the same target is SameData or a DoubleVote, and neither is signed.     *)
(***************************************************************************)
SourceExceedsTarget(att) == att.source > att.target

DoubleVote(rows, att) ==
    \E row \in rows : row.target = att.target

PrevSurroundsNew(rows, att) ==
    \E row \in rows : row.source < att.source /\ row.target > att.target

NewSurroundsPrev(rows, att) ==
    \E row \in rows : row.source > att.source /\ row.target < att.target

SourceLessThanLowerBound(rows, att) ==
    rows # {} /\ \A row \in rows : att.source < row.source

TargetLessThanOrEqLowerBound(rows, att) ==
    rows # {} /\ \A row \in rows : att.target <= row.target

AttestationIsValid_NoSurroundedCheck(rows, att) ==
    /\ ~SourceExceedsTarget(att)
    /\ ToSql(att.target)
    /\ ~DoubleVote(rows, att)
    /\ ~NewSurroundsPrev(rows, att)
    /\ ~SourceLessThanLowerBound(rows, att)
    /\ ~TargetLessThanOrEqLowerBound(rows, att)

AttestationIsValid(rows, att) ==
    /\ ~SourceExceedsTarget(att)
    /\ ToSql(att.target)
    /\ ~DoubleVote(rows, att)
    /\ ~PrevSurroundsNew(rows, att)
    /\ ~NewSurroundsPrev(rows, att)
    /\ ~SourceLessThanLowerBound(rows, att)
    /\ ~TargetLessThanOrEqLowerBound(rows, att)

-----------------------------------------------------------------------------
(***************************************************************************)
(* prune_signed_blocks and prune_signed_attestations: delete what is below *)
(* the new minimum, except the row of the largest slot or target.          *)
(***************************************************************************)
PruneSignedBlocks_KeepsNoMaximum(rows, newMinSlot) ==
    {row \in rows : row.slot >= newMinSlot}

PruneSignedBlocks(rows, newMinSlot) ==
    rows \ {row \in rows : /\ row.slot < newMinSlot
                           /\ \E other \in rows : row.slot < other.slot}

PruneSignedAttestations_KeepsNoMaximum(rows, newMinTarget) ==
    {row \in rows : row.target >= newMinTarget}

PruneSignedAttestations(rows, newMinTarget) ==
    rows \ {row \in rows : /\ row.target < newMinTarget
                           /\ \E other \in rows : row.target < other.target}

(***************************************************************************)
(* import_interchange_record replaces the rows of a kind the record has    *)
(* any of by one synthetic row at the maximum of the record and of the     *)
(* rows.  The largest source and the largest target are taken separately.  *)
(* ImportBlocks and ImportAttestations are the set that holds the new rows *)
(* only, or nothing when a column cannot hold a maximum and the            *)
(* transaction aborts.  A record is given by its slots, or by its          *)
(* source/target pairs.                                                    *)
(***************************************************************************)
Slots(rows) == {row.slot : row \in rows}
Sources(rows) == {row.source : row \in rows}
Targets(rows) == {row.target : row \in rows}

Maxima(S) == {m \in S : \A n \in S : n <= m}

ImportBlocks(rows, slots) ==
    IF slots = {}
    THEN {rows}
    ELSE {{[slot |-> m, data |-> NullData]} :
             m \in {n \in Maxima(slots \cup Slots(rows)) : ToSql(n)}}

SyntheticRows(atts) ==
    [source : Maxima(Sources(atts)), target : Maxima(Targets(atts)), data : {NullData}]

ImportAttestations_ForgetsRows(rows, atts) ==
    IF atts = {}
    THEN {rows}
    ELSE {{row} : row \in {max \in SyntheticRows(atts) : ToSql(max.source) /\ ToSql(max.target)}}

ImportAttestations(rows, atts) ==
    IF atts = {}
    THEN {rows}
    ELSE {{row} : row \in {max \in SyntheticRows(atts \cup rows) :
                              ToSql(max.source) /\ ToSql(max.target)}}

=============================================================================
