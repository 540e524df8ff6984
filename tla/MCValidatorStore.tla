-------------------------- MODULE MCValidatorStore --------------------------
(***************************************************************************)
(* Instances of ValidatorStore for TLC.                                    *)
(***************************************************************************)
EXTENDS ValidatorStore

CONSTANTS d1, d2

Vote(source, target, data) == [source |-> source, target |-> target, data |-> data]

(***************************************************************************)
(* Two votes for target 1, votes that surround and are surrounded, one     *)
(* whose source exceeds its target, and one no column can hold.            *)
(***************************************************************************)
Votes == {Vote(0, 1, d1), Vote(0, 1, d2), Vote(1, 2, d1), Vote(0, 3, d1),
          Vote(2, 3, d1), Vote(2, 1, d1), Vote(0, MaxEpoch, d1)}
SomeBlocks == {[slot |-> 0, data |-> d1], [slot |-> 0, data |-> d2],
               [slot |-> 1, data |-> d1], [slot |-> 1, data |-> d2],
               [slot |-> MaxSlot, data |-> d1]}
NoVotes == {}
NoBlocks == {}

OneAttestation == [slots |-> {}, atts |-> {[source |-> 0, target |-> 1]}]
SplitMaxima == [slots |-> {}, atts |-> {[source |-> 2, target |-> 2],
                                        [source |-> 0, target |-> 3]}]
LastAttestation == [slots |-> {}, atts |-> {[source |-> 0, target |-> MaxEpoch]}]
OneBlock == [slots |-> {1}, atts |-> {}]
TwoBlocks == [slots |-> {0, 2}, atts |-> {}]
LastBlock == [slots |-> {MaxSlot}, atts |-> {}]

AttestationRecords == {OneAttestation, SplitMaxima, LastAttestation}
BlockRecords == {OneBlock, TwoBlocks, LastBlock}

=============================================================================
