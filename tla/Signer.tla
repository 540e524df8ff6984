------------------------------- MODULE Signer -------------------------------
(***************************************************************************)
(* What a validator client promises, without databases, tasks or crashes:  *)
(* it signs one message at a time, never forgets what it signed, and signs *)
(* for a key it protects only what is not slashable together with anything *)
(* that key has signed before.                                             *)
(***************************************************************************)
EXTENDS SlashingConditions

CONSTANTS
    Keys,           \* the voting public keys
    ProtectedKeys,  \* the keys whose slashing protection is the client's task
    Attestations,
    Blocks

VARIABLES
    signedAtts,     \* the attestations each key has signed
    signedBlocks    \* the blocks each key has signed

vars == <<signedAtts, signedBlocks>>

Init ==
    /\ signedAtts = [k \in Keys |-> {}]
    /\ signedBlocks = [k \in Keys |-> {}]

SignAttestation(k, att) ==
    /\ k \in ProtectedKeys => \A a \in signedAtts[k] : ~Slashable(att, a)
    /\ signedAtts' = [signedAtts EXCEPT ![k] = @ \cup {att}]
    /\ UNCHANGED signedBlocks

SignBlock(k, block) ==
    /\ k \in ProtectedKeys => \A b \in signedBlocks[k] : ~DoubleProposal(block, b)
    /\ signedBlocks' = [signedBlocks EXCEPT ![k] = @ \cup {block}]
    /\ UNCHANGED signedAtts

Next ==
    \E k \in Keys :
        \/ \E att \in Attestations : SignAttestation(k, att)
        \/ \E block \in Blocks : SignBlock(k, block)

Spec == Init /\ [][Next]_vars

=============================================================================
