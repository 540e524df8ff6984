------------------------ MODULE ValidatorStoreProofs ------------------------
(***************************************************************************)
(* Proofs about ValidatorStore, for every number of keys, tasks, slots and *)
(* epochs, every set of duties and every set of interchange records.       *)
(***************************************************************************)
EXTENDS ValidatorStore, WellFoundedInduction, TLAPS

-----------------------------------------------------------------------------
(***************************************************************************)
(* Type correctness.                                                       *)
(***************************************************************************)

(* Importing slots keeps the rows of signed_blocks well typed. *)
LEMMA ImportBlocksType ==
    ASSUME NEW rows \in SUBSET BlockRow, NEW slots \in SUBSET Slot,
           NEW new \in ImportBlocks(rows, slots)
    PROVE  new \in SUBSET BlockRow
BY DEF ImportBlocks, Maxima, Slots, BlockRow

(* Importing attestations keeps the rows of signed_attestations well typed. *)
LEMMA ImportAttestationsType ==
    ASSUME NEW rows \in SUBSET AttestationRow,
           NEW atts \in SUBSET [source : Epoch, target : Epoch],
           NEW new \in ImportAttestations(rows, atts)
    PROVE  new \in SUBSET AttestationRow
BY DEF ImportAttestations, SyntheticRows, Maxima, Sources, Targets, AttestationRow

(* Every step keeps every variable's type. *)
LEMMA TypeStep == TypeOK /\ [Next]_vars => TypeOK'
<1> SUFFICES ASSUME TypeOK, [Next]_vars PROVE TypeOK'
  OBVIOUS
<1> USE StoreAssumption, DatabaseAssumption
<1> USE DEF TypeOK, db, keys, tasks, pruning, history
<1>1. CASE Start
  BY <1>1 DEF Start, RegisterValidators, StartPruning, NoExport
<1>2. CASE Crash
  BY <1>2 DEF Crash, PruneIdle, TaskState, Epoch
<1>3. ASSUME NEW t \in AttestationTasks, NEW k \in Validators,
             NEW att \in AttestationDuties, NEW current \in Epoch,
             BeginAttestation(t, k, att, current)
      PROVE  TypeOK'
  BY <1>3 DEF BeginAttestation, TaskState
<1>4. ASSUME NEW t \in AttestationTasks, CheckAndInsertAttestation(t)
      PROVE  TypeOK'
  <2>1. attTask[t] \in [pc : {"method", "approved"}, key : Validators, msg : Attestation]
    BY <1>4 DEF CheckAndInsertAttestation, TaskState, Idle
  <2>2. attTask[t].msg \in AttestationRow /\ attTask[t].key \in Validators
    BY <2>1 DEF Attestation, AttestationRow
  <2>3. attRows' \in [Validators -> SUBSET AttestationRow]
    BY <1>4, <2>2 DEF CheckAndInsertAttestation
  <2>4. attTask' \in [AttestationTasks -> TaskState(Attestation)]
    BY <1>4, <2>1 DEF CheckAndInsertAttestation, TaskState
  <2>5. QED
    BY <1>4, <2>3, <2>4 DEF CheckAndInsertAttestation
<1>5. ASSUME NEW t \in AttestationTasks, SignAttestation(t)
      PROVE  TypeOK'
  BY <1>5 DEF SignAttestation, TaskState, Idle
<1>6. ASSUME NEW t \in AttestationTasks, FailAttestation(t)
      PROVE  TypeOK'
  BY <1>6 DEF FailAttestation, TaskState
<1>7. ASSUME NEW t \in BlockTasks, NEW k \in Validators,
             NEW block \in BlockDuties, NEW current \in Slot,
             BeginBlock(t, k, block, current)
      PROVE  TypeOK'
  BY <1>7 DEF BeginBlock, TaskState
<1>8. ASSUME NEW t \in BlockTasks, CheckAndInsertBlock(t)
      PROVE  TypeOK'
  <2>1. blockTask[t] \in [pc : {"method", "approved"}, key : Validators, msg : Block]
    BY <1>8 DEF CheckAndInsertBlock, TaskState, Idle
  <2>2. blockTask[t].msg \in BlockRow /\ blockTask[t].key \in Validators
    BY <2>1 DEF Block, BlockRow
  <2>3. blockRows' \in [Validators -> SUBSET BlockRow]
    BY <1>8, <2>2 DEF CheckAndInsertBlock
  <2>4. blockTask' \in [BlockTasks -> TaskState(Block)]
    BY <1>8, <2>1 DEF CheckAndInsertBlock, TaskState
  <2>5. QED
    BY <1>8, <2>3, <2>4 DEF CheckAndInsertBlock
<1>9. ASSUME NEW t \in BlockTasks, SignBlock(t)
      PROVE  TypeOK'
  BY <1>9 DEF SignBlock, TaskState, Idle
<1>10. ASSUME NEW t \in BlockTasks, FailBlock(t)
       PROVE  TypeOK'
  BY <1>10 DEF FailBlock, TaskState
<1>11. ASSUME NEW epoch \in Epoch, BeginPrune(epoch)
       PROVE  TypeOK'
  BY <1>11 DEF BeginPrune, StartPruning
<1>12. CASE PruneAllSignedAttestations
  BY <1>12 DEF PruneAllSignedAttestations, PruneSignedAttestations
<1>13. CASE PruneAllSignedBlocks
  BY <1>13 DEF PruneAllSignedBlocks, PruneSignedBlocks, PruneEnds, PruneIdle, Epoch
<1>14. CASE PruneFails
  BY <1>14 DEF PruneFails, PruneEnds, PruneIdle, Epoch
<1>15. ASSUME NEW k \in Validators, NEW record \in Interchanges,
              ImportInterchange(k, record)
       PROVE  TypeOK'
  <2>1. blockRows' \in [Validators -> SUBSET BlockRow]
    BY <1>15, ImportBlocksType DEF ImportInterchange
  <2>2. attRows' \in [Validators -> SUBSET AttestationRow]
    BY <1>15, ImportAttestationsType DEF ImportInterchange
  <2>3. QED
    BY <1>15, <2>1, <2>2 DEF ImportInterchange, RegisterValidators, NoExport
<1>16. ASSUME NEW k \in Validators, RegisterValidator(k)
       PROVE  TypeOK'
  BY <1>16 DEF RegisterValidator, RegisterValidators, NoExport
<1>17. ASSUME NEW k \in Validators, AddDefinition(k)
       PROVE  TypeOK'
  BY <1>17 DEF AddDefinition
<1>18. ASSUME NEW k \in Validators, DeleteKeystore(k)
       PROVE  TypeOK'
  BY <1>18 DEF DeleteKeystore
<1>19. ASSUME NEW k \in Validators, ExportSlashingProtection(k)
       PROVE  TypeOK'
  BY <1>19 DEF ExportSlashingProtection
<1>20. CASE DeleteEndsWithoutExport
  BY <1>20 DEF DeleteEndsWithoutExport
<1>21. CASE UNCHANGED vars
  BY <1>21 DEF vars
<1>22. QED
  BY Zenon, <1>1, <1>2, <1>3, <1>4, <1>5, <1>6, <1>7, <1>8, <1>9, <1>10, <1>11,
     <1>12, <1>13, <1>14, <1>15, <1>16, <1>17, <1>18, <1>19, <1>20, <1>21
     DEF Next

(* The initial states are well typed. *)
LEMMA InitType == Init => TypeOK
BY StoreAssumption, DatabaseAssumption
   DEF Init, TypeOK, TaskState, PruneIdle, NoExport, Epoch

(***************************************************************************)
(* Every reachable state of the validator store is well typed: rows stay   *)
(* rows through signing, pruning and importing, and a task that ended      *)
(* holds nothing.                                                          *)
(***************************************************************************)
THEOREM TypeCorrect == Spec => []TypeOK
BY InitType, TypeStep, PTL DEF Spec

-----------------------------------------------------------------------------
(***************************************************************************)
(* What the operators on rows do to the messages that the rows guard.      *)
(***************************************************************************)
OrderedRows(rows) == \A x, y \in rows : x.target < y.target => x.source <= y.source

(* A bounded set of numbers that is not empty has a largest element. *)
LEMMA HasMaximum ==
    ASSUME NEW N \in Nat, NEW S \in SUBSET (0..N), S # {}
    PROVE  \E m \in S : \A n \in S : n <= m
<1> DEFINE T == {N - n : n \in S}
<1>0. \A n \in S : n \in Nat /\ N - n \in Nat
  OBVIOUS
<1>1. T \subseteq Nat /\ T # {}
  <2> HIDE DEF T
  <2>1. T \subseteq Nat
    BY <1>0 DEF T
  <2>2. QED
    BY Zenon, <2>1 DEF T
<1>2. PICK x \in T : \A y \in T : ~(<<y, x>> \in OpToRel(<, Nat))
  BY <1>1, WFMin, NatLessThanWellFounded
<1>3. \A y \in T : ~(y < x)
  BY Zenon, <1>1, <1>2 DEF OpToRel
<1>4. PICK m \in S : x = N - m
  OBVIOUS
<1>5. \A n \in S : n <= m
  <2> TAKE n \in S
  <2>1. ~(N - n < N - m)
    BY SMTT(30), <1>3, <1>4
  <2>2. QED
    BY <1>0, <2>1
<1>6. QED
  BY <1>5

(* An approved attestation is slashable with nothing that the rows guard, *)
(* and once it is a row they still guard what they did.                   *)
LEMMA InsertAttestation ==
    ASSUME NEW rows \in SUBSET AttestationRow, NEW att \in Attestation,
           AttestationIsValid(rows, att),
           NEW a \in Attestation, GuardedAtt(rows, a)
    PROVE  /\ ~Slashable(a, att) /\ ~Slashable(att, a)
           /\ GuardedAtt(rows \cup {att}, a)
<1> USE DEF AttestationRow, Attestation, Epoch
<1>1. CASE a \in rows
  BY <1>1 DEF AttestationIsValid, DoubleVote, PrevSurroundsNew, NewSurroundsPrev,
              Slashable, Surrounds, GuardedAtt
<1>2. CASE rows # {} /\ \A row \in rows : a.source <= row.source /\ a.target <= row.target
  <2>1. PICK low \in rows : ~(att.source < low.source)
    BY <1>2 DEF AttestationIsValid, SourceLessThanLowerBound
  <2>2. PICK below \in rows : ~(att.target <= below.target)
    BY <1>2 DEF AttestationIsValid, TargetLessThanOrEqLowerBound
  <2>3. a.source <= att.source /\ a.target < att.target
    BY <1>2, <2>1, <2>2 DEF DatabaseAssumption
  <2>4. QED
    BY <1>2, <2>3 DEF Slashable, Surrounds, GuardedAtt
<1>3. QED
  BY <1>1, <1>2 DEF GuardedAtt

(* An approved attestation leaves the rows ordered. *)
LEMMA InsertKeepsOrder ==
    ASSUME NEW rows \in SUBSET AttestationRow, NEW att \in Attestation,
           AttestationIsValid(rows, att), OrderedRows(rows)
    PROVE  OrderedRows(rows \cup {att})
BY DEF OrderedRows, AttestationIsValid, PrevSurroundsNew, NewSurroundsPrev,
       AttestationRow, Attestation, Epoch

(* Pruning never removes every attestation of a key. *)
LEMMA PruneAttestationsNonempty ==
    ASSUME NEW rows \in SUBSET AttestationRow, rows # {}, NEW min \in Nat
    PROVE  PruneSignedAttestations(rows, min) # {}
<1>1. Targets(rows) \in SUBSET (0..MaxEpoch) /\ Targets(rows) # {}
  BY DEF Targets, AttestationRow, Epoch
<1>2. PICK m \in Targets(rows) : \A n \in Targets(rows) : n <= m
  BY Zenon, <1>1, HasMaximum, DatabaseAssumption
<1>3. PICK row \in rows : row.target = m
  BY DEF Targets
<1>4. \A other \in rows : ~(row.target < other.target)
  BY SMTT(30), <1>2, <1>3, <1>1 DEF Targets, AttestationRow, Epoch
<1>5. QED
  BY <1>4 DEF PruneSignedAttestations

(* Rows in order still guard, once pruned, what they guarded before. *)
LEMMA PruneAttestations ==
    ASSUME NEW rows \in SUBSET AttestationRow, OrderedRows(rows), NEW min \in Nat,
           NEW a \in Attestation, GuardedAtt(rows, a)
    PROVE  GuardedAtt(PruneSignedAttestations(rows, min), a)
<1> DEFINE kept == PruneSignedAttestations(rows, min)
<1>1. kept \subseteq rows
  BY DEF PruneSignedAttestations
<1>2. rows # {} => kept # {}
  BY PruneAttestationsNonempty
<1>3. CASE a \in rows /\ a \notin kept
  <2>1. PICK other \in rows : a.target < min /\ a.target < other.target
    BY <1>3 DEF PruneSignedAttestations
  <2>2. ASSUME NEW row \in kept PROVE a.target < row.target
    BY <1>1, <2>1 DEF PruneSignedAttestations, AttestationRow, Attestation, Epoch
  <2>3. \A row \in kept : a.source <= row.source /\ a.target <= row.target
    BY <1>1, <1>3, <2>2 DEF OrderedRows, AttestationRow, Attestation, Epoch
  <2>4. QED
    BY <1>2, <1>3, <2>3 DEF GuardedAtt
<1>4. CASE a \in kept
  BY <1>4 DEF GuardedAtt
<1>5. CASE rows # {} /\ \A row \in rows : a.source <= row.source /\ a.target <= row.target
  BY <1>1, <1>2, <1>5 DEF GuardedAtt
<1>6. QED
  BY <1>3, <1>4, <1>5 DEF GuardedAtt

(* The synthetic row of an import guards what the rows did. *)
LEMMA ImportGuardsAttestations ==
    ASSUME NEW rows \in SUBSET AttestationRow,
           NEW atts \in SUBSET [source : Epoch, target : Epoch],
           NEW new \in ImportAttestations(rows, atts),
           NEW a \in Attestation, GuardedAtt(rows, a)
    PROVE  GuardedAtt(new, a)
<1>1. CASE atts = {}
  BY <1>1 DEF ImportAttestations
<1>2. CASE atts # {}
  <2>1. PICK max \in SyntheticRows(atts \cup rows) : new = {max}
    BY <1>2 DEF ImportAttestations
  <2>2. \A row \in rows : row.source <= max.source /\ row.target <= max.target
    BY <2>1 DEF SyntheticRows, Maxima, Sources, Targets
  <2>3. max.source \in Nat /\ max.target \in Nat
    BY <2>1 DEF SyntheticRows, Maxima, Sources, Targets, AttestationRow, Epoch
  <2>4. PICK row \in rows : a.source <= row.source /\ a.target <= row.target
    BY DEF GuardedAtt, Attestation, Epoch
  <2>5. a.source <= max.source /\ a.target <= max.target
    BY <2>2, <2>3, <2>4 DEF AttestationRow, Attestation, Epoch
  <2>6. QED
    BY <2>1, <2>5 DEF GuardedAtt
<1>3. QED
  BY <1>1, <1>2

(* The rows after an import are in order. *)
LEMMA ImportKeepsOrder ==
    ASSUME NEW rows \in SUBSET AttestationRow, OrderedRows(rows),
           NEW atts \in SUBSET [source : Epoch, target : Epoch],
           NEW new \in ImportAttestations(rows, atts)
    PROVE  OrderedRows(new)
<1>1. CASE atts = {}
  BY <1>1 DEF ImportAttestations
<1>2. CASE atts # {}
  <2>1. PICK max \in SyntheticRows(atts \cup rows) : new = {max}
    BY <1>2 DEF ImportAttestations
  <2>2. max.target \in Nat
    BY <2>1 DEF SyntheticRows, Maxima, Targets, AttestationRow, Epoch
  <2>3. QED
    BY <2>1, <2>2 DEF OrderedRows
<1>3. QED
  BY <1>1, <1>2

(* An approved block is no double proposal of a guarded one, and once it *)
(* is a row the rows still guard what they did.                          *)
LEMMA InsertBlock ==
    ASSUME NEW rows \in SUBSET BlockRow, NEW block \in Block,
           BlockIsValid(rows, block),
           NEW b \in Block, GuardedBlock(rows, b)
    PROVE  /\ ~DoubleProposal(b, block) /\ ~DoubleProposal(block, b)
           /\ GuardedBlock(rows \cup {block}, b)
<1> USE DEF BlockRow, Block, Slot
<1>1. CASE b \in rows
  BY <1>1 DEF BlockIsValid, DoubleBlockProposal, DoubleProposal, GuardedBlock
<1>2. CASE rows # {} /\ \A row \in rows : b.slot <= row.slot
  <2>1. PICK below \in rows : ~(block.slot <= below.slot)
    BY <1>2 DEF BlockIsValid, SlotViolatesLowerBound
  <2>2. b.slot < block.slot
    BY <1>2, <2>1
  <2>3. QED
    BY <1>2, <2>2 DEF DoubleProposal, GuardedBlock
<1>3. QED
  BY <1>1, <1>2 DEF GuardedBlock

(* Pruning never removes every block of a key. *)
LEMMA PruneBlocksNonempty ==
    ASSUME NEW rows \in SUBSET BlockRow, rows # {}, NEW min \in Nat
    PROVE  PruneSignedBlocks(rows, min) # {}
<1>1. Slots(rows) \in SUBSET (0..MaxSlot) /\ Slots(rows) # {}
  BY DEF Slots, BlockRow, Slot
<1>2. PICK m \in Slots(rows) : \A n \in Slots(rows) : n <= m
  BY Zenon, <1>1, HasMaximum, DatabaseAssumption
<1>3. PICK row \in rows : row.slot = m
  BY DEF Slots
<1>4. \A other \in rows : ~(row.slot < other.slot)
  BY <1>2, <1>3, <1>1 DEF Slots, BlockRow, Slot
<1>5. QED
  BY <1>4 DEF PruneSignedBlocks

(* The rows still guard, once pruned, what they guarded before. *)
LEMMA PruneBlocks ==
    ASSUME NEW rows \in SUBSET BlockRow, NEW min \in Nat,
           NEW b \in Block, GuardedBlock(rows, b)
    PROVE  GuardedBlock(PruneSignedBlocks(rows, min), b)
<1> DEFINE kept == PruneSignedBlocks(rows, min)
<1>1. kept \subseteq rows
  BY DEF PruneSignedBlocks
<1>2. rows # {} => kept # {}
  BY PruneBlocksNonempty
<1>3. CASE b \in rows /\ b \notin kept
  <2>1. PICK other \in rows : b.slot < min /\ b.slot < other.slot
    BY <1>3 DEF PruneSignedBlocks
  <2>2. ASSUME NEW row \in kept PROVE b.slot <= row.slot
    BY <1>1, <2>1 DEF PruneSignedBlocks, BlockRow, Block, Slot
  <2>3. QED
    BY <1>2, <1>3, <2>2 DEF GuardedBlock
<1>4. CASE b \in kept
  BY <1>4 DEF GuardedBlock
<1>5. CASE rows # {} /\ \A row \in rows : b.slot <= row.slot
  BY <1>1, <1>2, <1>5 DEF GuardedBlock
<1>6. QED
  BY <1>3, <1>4, <1>5 DEF GuardedBlock

(* The synthetic row of an import guards what the rows did. *)
LEMMA ImportGuardsBlocks ==
    ASSUME NEW rows \in SUBSET BlockRow, NEW slots \in SUBSET Slot,
           NEW new \in ImportBlocks(rows, slots),
           NEW b \in Block, GuardedBlock(rows, b)
    PROVE  GuardedBlock(new, b)
<1>1. CASE slots = {}
  BY <1>1 DEF ImportBlocks
<1>2. CASE slots # {}
  <2>1. PICK m \in Maxima(slots \cup Slots(rows)) :
           new = {[slot |-> m, data |-> NullData]}
    BY <1>2 DEF ImportBlocks
  <2>2. \A row \in rows : row.slot <= m
    BY <2>1 DEF Maxima, Slots
  <2>3. m \in Nat
    BY <2>1 DEF Maxima, Slots, BlockRow, Slot
  <2>4. PICK row \in rows : b.slot <= row.slot
    BY DEF GuardedBlock, Block, Slot
  <2>5. b.slot <= m
    BY <2>2, <2>3, <2>4 DEF BlockRow, Block, Slot
  <2>6. QED
    BY <2>1, <2>5 DEF GuardedBlock
<1>3. QED
  BY <1>1, <1>2

-----------------------------------------------------------------------------
(***************************************************************************)
(* The inductive invariant.  A promise is a signature that was produced or *)
(* may still be produced by a task whose message the database approved.    *)
(***************************************************************************)
AttInv ==
    /\ \A k \in Validators : OrderedRows(attRows[k])
    /\ \A k \in LocallyProtected :
          /\ \A a \in PromisedAtts(k) : GuardedAtt(attRows[k], a)
          /\ \A x, y \in PromisedAtts(k) : ~Slashable(x, y)

BlockInv ==
    \A k \in LocallyProtected :
        /\ \A b \in PromisedBlocks(k) : GuardedBlock(blockRows[k], b)
        /\ \A x, y \in PromisedBlocks(k) : ~DoubleProposal(x, y)

Inv == TypeOK /\ AttInv /\ BlockInv

(* The promises of a well-typed state are messages. *)
LEMMA PromisesType ==
    ASSUME TypeOK, NEW k \in Validators
    PROVE  PromisedAtts(k) \subseteq Attestation /\ PromisedBlocks(k) \subseteq Block
<1>1. ASSUME NEW t \in AttestationTasks, attTask[t].pc = "approved"
      PROVE  attTask[t].msg \in Attestation
  BY <1>1 DEF TypeOK, TaskState, Idle
<1>2. ASSUME NEW t \in BlockTasks, blockTask[t].pc = "approved"
      PROVE  blockTask[t].msg \in Block
  BY <1>2 DEF TypeOK, TaskState, Idle
<1>3. signedAtts[k] \subseteq Attestation /\ signedBlocks[k] \subseteq Block
  BY DEF TypeOK
<1>4. QED
  BY <1>1, <1>2, <1>3 DEF PromisedAtts, PromisedBlocks, ApprovedAtts, ApprovedBlocks

AttPromisesShrink == \A k \in Validators : PromisedAtts(k)' \subseteq PromisedAtts(k)
BlockPromisesShrink == \A k \in Validators : PromisedBlocks(k)' \subseteq PromisedBlocks(k)

(* Only the approval of an attestation by the database makes a new promise. *)
LEMMA AttPromises ==
    ASSUME TypeOK, [Next]_vars, ~\E t \in AttestationTasks : CheckAndInsertAttestation(t)
    PROVE  AttPromisesShrink
<1> USE DEF AttPromisesShrink, PromisedAtts, ApprovedAtts
<1>1. CASE UNCHANGED <<attTask, signedAtts>>
  BY <1>1
<1>2. CASE Crash
  BY <1>2 DEF Crash, Idle, history
<1>3. ASSUME NEW t \in AttestationTasks, NEW k \in Validators,
             NEW att \in AttestationDuties, NEW current \in Epoch,
             BeginAttestation(t, k, att, current)
      PROVE  AttPromisesShrink
  BY <1>3 DEF BeginAttestation, history, TypeOK
<1>4. ASSUME NEW t \in AttestationTasks, SignAttestation(t)
      PROVE  AttPromisesShrink
  <2>1. attTask' = [attTask EXCEPT ![t] = Idle] /\ attTask[t].pc = "approved"
    BY <1>4 DEF SignAttestation
  <2>2. \A k \in Validators : signedAtts[k]' \subseteq
            signedAtts[k] \cup (IF k = attTask[t].key THEN {attTask[t].msg} ELSE {})
    BY <1>4 DEF SignAttestation, TypeOK
  <2>3. \A k \in Validators : ApprovedAtts(k)' \subseteq ApprovedAtts(k)
    BY <2>1 DEF Idle, TypeOK
  <2>4. QED
    BY <2>1, <2>2, <2>3
<1>5. ASSUME NEW t \in AttestationTasks, FailAttestation(t)
      PROVE  AttPromisesShrink
  BY <1>5 DEF FailAttestation, Idle, history, TypeOK
<1>6. QED
  BY Zenon, <1>1, <1>2, <1>3, <1>4, <1>5
     DEF Next, vars, tasks, history, Start, BeginBlock, CheckAndInsertBlock, SignBlock,
         FailBlock, BeginPrune, PruneAllSignedAttestations, PruneAllSignedBlocks,
         PruneFails, ImportInterchange, RegisterValidator, AddDefinition,
         DeleteKeystore, ExportSlashingProtection, DeleteEndsWithoutExport

(* Only the approval of a block by the database makes a new promise. *)
LEMMA BlockPromises ==
    ASSUME TypeOK, [Next]_vars, ~\E t \in BlockTasks : CheckAndInsertBlock(t)
    PROVE  BlockPromisesShrink
<1> USE DEF BlockPromisesShrink, PromisedBlocks, ApprovedBlocks
<1>1. CASE UNCHANGED <<blockTask, signedBlocks>>
  BY <1>1
<1>2. CASE Crash
  BY <1>2 DEF Crash, Idle, history
<1>3. ASSUME NEW t \in BlockTasks, NEW k \in Validators,
             NEW block \in BlockDuties, NEW current \in Slot,
             BeginBlock(t, k, block, current)
      PROVE  BlockPromisesShrink
  BY <1>3 DEF BeginBlock, history, TypeOK
<1>4. ASSUME NEW t \in BlockTasks, SignBlock(t)
      PROVE  BlockPromisesShrink
  <2>1. blockTask' = [blockTask EXCEPT ![t] = Idle] /\ blockTask[t].pc = "approved"
    BY <1>4 DEF SignBlock
  <2>2. \A k \in Validators : signedBlocks[k]' \subseteq
            signedBlocks[k] \cup (IF k = blockTask[t].key THEN {blockTask[t].msg} ELSE {})
    BY <1>4 DEF SignBlock, TypeOK
  <2>3. \A k \in Validators : ApprovedBlocks(k)' \subseteq ApprovedBlocks(k)
    BY <2>1 DEF Idle, TypeOK
  <2>4. QED
    BY <2>1, <2>2, <2>3
<1>5. ASSUME NEW t \in BlockTasks, FailBlock(t)
      PROVE  BlockPromisesShrink
  BY <1>5 DEF FailBlock, Idle, history, TypeOK
<1>6. QED
  BY Zenon, <1>1, <1>2, <1>3, <1>4, <1>5
     DEF Next, vars, tasks, history, Start, BeginAttestation, CheckAndInsertAttestation,
         SignAttestation, FailAttestation, BeginPrune, PruneAllSignedAttestations,
         PruneAllSignedBlocks, PruneFails, ImportInterchange, RegisterValidator,
         AddDefinition, DeleteKeystore, ExportSlashingProtection,
         DeleteEndsWithoutExport

(***************************************************************************)
(* The four ways a step can treat the rows and promises of one kind.       *)
(***************************************************************************)
AttestationStep ==
    \/ AttPromisesShrink /\ UNCHANGED attRows
    \/ \E t \in AttestationTasks : CheckAndInsertAttestation(t)
    \/ AttPromisesShrink /\ PruneAllSignedAttestations
    \/ AttPromisesShrink /\ \E k \in Validators, record \in Interchanges :
          ImportInterchange(k, record)

BlockStep ==
    \/ BlockPromisesShrink /\ UNCHANGED blockRows
    \/ \E t \in BlockTasks : CheckAndInsertBlock(t)
    \/ BlockPromisesShrink /\ PruneAllSignedBlocks
    \/ BlockPromisesShrink /\ \E k \in Validators, record \in Interchanges :
          ImportInterchange(k, record)

(* Every step treats attestations in one of these ways. *)
LEMMA AttestationSteps ==
    ASSUME TypeOK, [Next]_vars
    PROVE  AttestationStep
<1>1. UNCHANGED attRows \/ (\E t \in AttestationTasks : CheckAndInsertAttestation(t))
        \/ PruneAllSignedAttestations
        \/ (\E k \in Validators, record \in Interchanges : ImportInterchange(k, record))
  BY Zenon DEF Next, vars, db, Start, Crash, BeginAttestation, SignAttestation,
         FailAttestation, BeginBlock, CheckAndInsertBlock, SignBlock, FailBlock,
         BeginPrune, PruneAllSignedBlocks, PruneFails, RegisterValidator,
         AddDefinition, DeleteKeystore, ExportSlashingProtection,
         DeleteEndsWithoutExport
<1>2. QED
  BY <1>1, AttPromises DEF AttestationStep

(* Every step treats blocks in one of these ways. *)
LEMMA BlockSteps ==
    ASSUME TypeOK, [Next]_vars
    PROVE  BlockStep
<1>1. UNCHANGED blockRows \/ (\E t \in BlockTasks : CheckAndInsertBlock(t))
        \/ PruneAllSignedBlocks
        \/ (\E k \in Validators, record \in Interchanges : ImportInterchange(k, record))
  BY Zenon DEF Next, vars, db, Start, Crash, BeginAttestation, CheckAndInsertAttestation,
         SignAttestation, FailAttestation, BeginBlock, SignBlock, FailBlock,
         BeginPrune, PruneAllSignedAttestations, PruneFails, RegisterValidator,
         AddDefinition, DeleteKeystore, ExportSlashingProtection,
         DeleteEndsWithoutExport
<1>2. QED
  BY <1>1, BlockPromises DEF BlockStep

(* The smallest target that pruning keeps is a number. *)
LEMMA NewMinType ==
    ASSUME TypeOK
    PROVE  NewMinTarget(pruneTask.epoch) \in Nat /\ NewMinSlot(pruneTask.epoch) \in Nat
<1>1. pruneTask.epoch \in Nat
  BY DEF TypeOK, Epoch
<1>2. NewMinTarget(pruneTask.epoch) \in Nat
  BY <1>1, StoreAssumption DEF NewMinTarget
<1>3. QED
  BY <1>2, StoreAssumption DEF NewMinSlot

(* A step keeps the attestations promised so far guarded and harmless. *)
LEMMA AttInvStep ==
    ASSUME TypeOK, TypeOK', AttInv, [Next]_vars
    PROVE  AttInv'
<1> DEFINE Ordered == \A k \in Validators : OrderedRows(attRows[k])
           Guarded == \A k \in LocallyProtected : \A a \in PromisedAtts(k) :
                          GuardedAtt(attRows[k], a)
           Harmless == \A k \in LocallyProtected : \A x, y \in PromisedAtts(k) :
                          ~Slashable(x, y)
<1> SUFFICES Ordered' /\ Guarded' /\ Harmless'
  BY DEF AttInv
<1>0. Ordered /\ Guarded /\ Harmless
  BY DEF AttInv
<1>types. /\ \A k \in Validators : attRows[k] \in SUBSET AttestationRow
          /\ \A k \in Validators : PromisedAtts(k) \subseteq Attestation
          /\ LocallyProtected \subseteq Validators
  BY PromisesType DEF TypeOK, LocallyProtected
<1>shrink. AttPromisesShrink => Harmless'
  BY <1>0, <1>types DEF AttPromisesShrink, LocallyProtected
<1>1. CASE AttPromisesShrink /\ UNCHANGED attRows
  <2>1. Guarded'
    BY <1>0, <1>1, <1>types DEF AttPromisesShrink, LocallyProtected
  <2>2. QED
    BY <1>0, <1>1, <1>shrink, <2>1
<1>2. ASSUME NEW t \in AttestationTasks, CheckAndInsertAttestation(t)
      PROVE  Ordered' /\ Guarded' /\ Harmless'
  <2> DEFINE key == attTask[t].key
             att == attTask[t].msg
  <2>1. key \in Validators /\ att \in Attestation
    BY <1>2 DEF CheckAndInsertAttestation, TypeOK, TaskState, Idle
  <2>2. \A k \in Validators : k # key => attRows'[k] = attRows[k]
    BY <1>2, <2>1 DEF CheckAndInsertAttestation, TypeOK
  <2>3. \A k \in Validators : PromisedAtts(k)' \subseteq
            PromisedAtts(k) \cup (IF k = key THEN {att} ELSE {})
    <3>1. signedAtts' = signedAtts
      BY <1>2 DEF CheckAndInsertAttestation, history
    <3>2. attTask' = [attTask EXCEPT ![t].pc = "approved"]
      BY <1>2 DEF CheckAndInsertAttestation
    <3>3. \A u \in AttestationTasks : u # t => attTask'[u] = attTask[u]
      BY <3>2 DEF TypeOK
    <3>4. attTask'[t].key = key /\ attTask'[t].msg = att
      BY <1>2, <3>2 DEF CheckAndInsertAttestation, TypeOK, TaskState, Idle
    <3>5. QED
      BY <3>1, <3>3, <3>4 DEF PromisedAtts, ApprovedAtts
  <2>4. CASE key \in RemotelyProtected
    <3>1. attRows' = attRows
      BY <1>2, <2>4 DEF CheckAndInsertAttestation
    <3>2. \A k \in LocallyProtected : PromisedAtts(k)' \subseteq PromisedAtts(k)
      BY <2>3, <2>4 DEF LocallyProtected
    <3>3. QED
      BY <1>0, <3>1, <3>2
  <2>5. CASE key \notin RemotelyProtected
    <3>1. AttestationIsValid(attRows[key], att) /\ attRows'[key] = attRows[key] \cup {att}
      BY <1>2, <2>1, <2>5 DEF CheckAndInsertAttestation, TypeOK
    <3>2. Ordered'
      BY <1>0, <1>types, <2>1, <2>2, <3>1, InsertKeepsOrder
    <3>3. ASSUME NEW a \in PromisedAtts(key)
          PROVE  /\ ~Slashable(a, att) /\ ~Slashable(att, a)
                 /\ GuardedAtt(attRows'[key], a)
      <4>1. a \in Attestation /\ GuardedAtt(attRows[key], a)
        BY <1>0, <1>types, <2>1, <2>5 DEF LocallyProtected
      <4>2. QED
        BY <1>types, <2>1, <3>1, <4>1, InsertAttestation
    <3>4. GuardedAtt(attRows'[key], att) /\ ~Slashable(att, att)
      BY <2>1, <3>1 DEF GuardedAtt, Slashable, Surrounds, Attestation, Epoch
    <3>5. Guarded'
      BY <1>0, <1>types, <2>2, <2>3, <3>3, <3>4
    <3>6. Harmless'
      BY <1>0, <1>types, <2>3, <3>3, <3>4
    <3>7. QED
      BY <3>2, <3>5, <3>6
  <2>6. QED
    BY <2>4, <2>5
<1>3. CASE AttPromisesShrink /\ PruneAllSignedAttestations
  <2> DEFINE min == NewMinTarget(pruneTask.epoch)
  <2>1. min \in Nat
    BY NewMinType
  <2> HIDE DEF min
  <2>2. \A k \in Validators : attRows'[k] = attRows[k]
                            \/ attRows'[k] = PruneSignedAttestations(attRows[k], min)
    BY <1>3 DEF PruneAllSignedAttestations, min
  <2>3. Ordered'
    BY <1>0, <2>2 DEF OrderedRows, PruneSignedAttestations
  <2>4. ASSUME NEW k \in LocallyProtected, NEW a \in PromisedAtts(k)'
        PROVE  GuardedAtt(attRows'[k], a)
    <3>1. a \in Attestation /\ GuardedAtt(attRows[k], a)
      BY <1>0, <1>3, <1>types DEF AttPromisesShrink
    <3>2. QED
      BY <1>0, <1>types, <2>1, <2>2, <3>1, PruneAttestations
  <2>5. QED
    BY <1>3, <1>shrink, <2>3, <2>4
<1>4. ASSUME AttPromisesShrink, NEW key \in Validators, NEW record \in Interchanges,
             ImportInterchange(key, record)
      PROVE  Ordered' /\ Guarded' /\ Harmless'
  <2>1. PICK rows \in ImportAttestations(attRows[key], record.atts) :
           attRows' = [attRows EXCEPT ![key] = rows]
    BY Zenon, <1>4 DEF ImportInterchange
  <2>2. record.atts \in SUBSET [source : Epoch, target : Epoch]
    BY StoreAssumption
  <2>3. \A k \in Validators : attRows'[k] = IF k = key THEN rows ELSE attRows[k]
    BY <2>1 DEF TypeOK
  <2>4. Ordered'
    <3>1. attRows[key] \in SUBSET AttestationRow /\ OrderedRows(attRows[key])
      BY <1>0, <1>types
    <3>2. OrderedRows(rows)
      BY Zenon, <2>2, <3>1, ImportKeepsOrder
    <3>3. \A k \in Validators : OrderedRows(attRows'[k])
      BY Zenon, <1>0, <2>3, <3>2
    <3>4. QED
      BY <3>3
  <2>5. ASSUME NEW k \in LocallyProtected, NEW a \in PromisedAtts(k)'
        PROVE  GuardedAtt(attRows'[k], a)
    <3>1. a \in Attestation /\ GuardedAtt(attRows[k], a)
      BY <1>0, <1>4, <1>types DEF AttPromisesShrink
    <3>2. k \in Validators /\ attRows[k] \in SUBSET AttestationRow
      BY <1>types DEF LocallyProtected
    <3>3. CASE k = key
      <4>1. GuardedAtt(rows, a)
        BY Zenon, <2>2, <3>1, <3>2, <3>3, ImportGuardsAttestations
      <4>2. QED
        BY Zenon, <2>3, <3>2, <3>3, <4>1
    <3>4. CASE k # key
      BY Zenon, <2>3, <3>1, <3>2, <3>4
    <3>5. QED
      BY <3>3, <3>4
  <2>6. QED
    BY <1>4, <1>shrink, <2>4, <2>5
<1>5. QED
  BY <1>1, <1>2, <1>3, <1>4, AttestationSteps DEF AttestationStep

(* A step keeps the blocks promised so far guarded and harmless. *)
LEMMA BlockInvStep ==
    ASSUME TypeOK, TypeOK', BlockInv, [Next]_vars
    PROVE  BlockInv'
<1> DEFINE Guarded == \A k \in LocallyProtected : \A b \in PromisedBlocks(k) :
                          GuardedBlock(blockRows[k], b)
           Harmless == \A k \in LocallyProtected : \A x, y \in PromisedBlocks(k) :
                          ~DoubleProposal(x, y)
<1> SUFFICES Guarded' /\ Harmless'
  BY DEF BlockInv
<1>0. Guarded /\ Harmless
  BY DEF BlockInv
<1>types. /\ \A k \in Validators : blockRows[k] \in SUBSET BlockRow
          /\ \A k \in Validators : PromisedBlocks(k) \subseteq Block
          /\ LocallyProtected \subseteq Validators
  BY PromisesType DEF TypeOK, LocallyProtected
<1>shrink. BlockPromisesShrink => Harmless'
  BY SMTT(30), <1>0, <1>types DEF BlockPromisesShrink, LocallyProtected
<1>1. CASE BlockPromisesShrink /\ UNCHANGED blockRows
  <2>1. Guarded'
    BY <1>0, <1>1, <1>types DEF BlockPromisesShrink, LocallyProtected
  <2>2. QED
    BY <1>1, <1>shrink, <2>1
<1>2. ASSUME NEW t \in BlockTasks, CheckAndInsertBlock(t)
      PROVE  Guarded' /\ Harmless'
  <2> DEFINE key == blockTask[t].key
             block == blockTask[t].msg
  <2>1. key \in Validators /\ block \in Block
    BY <1>2 DEF CheckAndInsertBlock, TypeOK, TaskState, Idle
  <2>2. \A k \in Validators : k # key => blockRows'[k] = blockRows[k]
    BY <1>2, <2>1 DEF CheckAndInsertBlock, TypeOK
  <2>3. \A k \in Validators : PromisedBlocks(k)' \subseteq
            PromisedBlocks(k) \cup (IF k = key THEN {block} ELSE {})
    <3>1. signedBlocks' = signedBlocks
      BY <1>2 DEF CheckAndInsertBlock, history
    <3>2. blockTask' = [blockTask EXCEPT ![t].pc = "approved"]
      BY <1>2 DEF CheckAndInsertBlock
    <3>3. \A u \in BlockTasks : u # t => blockTask'[u] = blockTask[u]
      BY <3>2 DEF TypeOK
    <3>4. blockTask'[t].key = key /\ blockTask'[t].msg = block
      BY <1>2, <3>2 DEF CheckAndInsertBlock, TypeOK, TaskState, Idle
    <3>5. QED
      BY <3>1, <3>3, <3>4 DEF PromisedBlocks, ApprovedBlocks
  <2>4. CASE key \in RemotelyProtected
    <3>1. blockRows' = blockRows
      BY <1>2, <2>4 DEF CheckAndInsertBlock
    <3>2. \A k \in LocallyProtected : PromisedBlocks(k)' \subseteq PromisedBlocks(k)
      BY <2>3, <2>4 DEF LocallyProtected
    <3>3. QED
      BY <1>0, <3>1, <3>2
  <2>5. CASE key \notin RemotelyProtected
    <3>1. BlockIsValid(blockRows[key], block) /\ blockRows'[key] = blockRows[key] \cup {block}
      BY <1>2, <2>1, <2>5 DEF CheckAndInsertBlock, TypeOK
    <3>2. ASSUME NEW b \in PromisedBlocks(key)
          PROVE  /\ ~DoubleProposal(b, block) /\ ~DoubleProposal(block, b)
                 /\ GuardedBlock(blockRows'[key], b)
      <4>1. b \in Block /\ GuardedBlock(blockRows[key], b)
        BY <1>0, <1>types, <2>1, <2>5 DEF LocallyProtected
      <4>2. QED
        BY <1>types, <2>1, <3>1, <4>1, InsertBlock
    <3>3. GuardedBlock(blockRows'[key], block) /\ ~DoubleProposal(block, block)
      BY <3>1 DEF GuardedBlock, DoubleProposal
    <3>4. Guarded'
      BY <1>0, <1>types, <2>2, <2>3, <3>2, <3>3
    <3>5. Harmless'
      BY <1>0, <1>types, <2>3, <3>2, <3>3
    <3>6. QED
      BY <3>4, <3>5
  <2>6. QED
    BY <2>4, <2>5
<1>3. CASE BlockPromisesShrink /\ PruneAllSignedBlocks
  <2> DEFINE min == NewMinSlot(pruneTask.epoch)
  <2>1. min \in Nat
    BY NewMinType
  <2> HIDE DEF min
  <2>2. \A k \in Validators : blockRows'[k] = blockRows[k]
                            \/ blockRows'[k] = PruneSignedBlocks(blockRows[k], min)
    BY <1>3 DEF PruneAllSignedBlocks, min
  <2>3. ASSUME NEW k \in LocallyProtected, NEW b \in PromisedBlocks(k)'
        PROVE  GuardedBlock(blockRows'[k], b)
    <3>1. b \in Block /\ GuardedBlock(blockRows[k], b)
      BY <1>0, <1>3, <1>types DEF BlockPromisesShrink
    <3>2. QED
      BY <1>types, <2>1, <2>2, <3>1, PruneBlocks
  <2>4. QED
    BY <1>3, <1>shrink, <2>3
<1>4. ASSUME BlockPromisesShrink, NEW key \in Validators, NEW record \in Interchanges,
             ImportInterchange(key, record)
      PROVE  Guarded' /\ Harmless'
  <2>1. PICK rows \in ImportBlocks(blockRows[key], record.slots) :
           blockRows' = [blockRows EXCEPT ![key] = rows]
    BY Zenon, <1>4 DEF ImportInterchange
  <2>2. record.slots \in SUBSET Slot
    BY StoreAssumption
  <2>3. \A k \in Validators : blockRows'[k] = IF k = key THEN rows ELSE blockRows[k]
    BY <2>1 DEF TypeOK
  <2>4. ASSUME NEW k \in LocallyProtected, NEW b \in PromisedBlocks(k)'
        PROVE  GuardedBlock(blockRows'[k], b)
    <3>1. b \in Block /\ GuardedBlock(blockRows[k], b)
      BY SMTT(30), <1>0, <1>4, <1>types DEF BlockPromisesShrink
    <3>2. k \in Validators /\ blockRows[k] \in SUBSET BlockRow
      BY SMTT(30), <1>types DEF LocallyProtected
    <3>3. CASE k = key
      <4>1. GuardedBlock(rows, b)
        BY Zenon, <2>2, <3>1, <3>2, <3>3, ImportGuardsBlocks
      <4>2. QED
        BY Zenon, <2>3, <3>2, <3>3, <4>1
    <3>4. CASE k # key
      BY Zenon, <2>3, <3>1, <3>2, <3>4
    <3>5. QED
      BY <3>3, <3>4
  <2>5. QED
    BY <1>4, <1>shrink, <2>4
<1>5. QED
  BY <1>1, <1>2, <1>3, <1>4, BlockSteps DEF BlockStep

-----------------------------------------------------------------------------
(* The inductive invariant holds initially and is kept by every step. *)
THEOREM Invariance == Spec => []Inv
<1>1. Init => AttInv /\ BlockInv
  BY DEF Init, AttInv, BlockInv, OrderedRows, PromisedAtts, PromisedBlocks,
         ApprovedAtts, ApprovedBlocks, Idle, LocallyProtected
<1>2. Init => Inv
  BY <1>1, InitType DEF Inv
<1>3. Inv /\ [Next]_vars => Inv'
  BY TypeStep, AttInvStep, BlockInvStep DEF Inv
<1>4. QED
  BY <1>2, <1>3, PTL DEF Spec

(***************************************************************************)
(* No key protected by the database ever signs two attestations that are   *)
(* slashable together, however calls, prunes, imports, deletions and       *)
(* crashes interleave.                                                     *)
(***************************************************************************)
THEOREM AttestationSafety == Spec => []NoSlashableAttestations
<1>1. Inv => NoSlashableAttestations
  BY DEF Inv, AttInv, NoSlashableAttestations, PromisedAtts
<1>2. QED
  BY <1>1, Invariance, PTL

(***************************************************************************)
(* No key protected by the database ever signs two blocks of one slot.     *)
(***************************************************************************)
THEOREM ProposalSafety == Spec => []NoDoubleProposal
<1>1. Inv => NoDoubleProposal
  BY DEF Inv, BlockInv, NoDoubleProposal, PromisedBlocks
<1>2. QED
  BY <1>1, Invariance, PTL

(***************************************************************************)
(* The claim in prune_signed_attestations holds: stored attestations with  *)
(* a smaller target have no larger source.                                 *)
(***************************************************************************)
THEOREM PruneClaim == Spec => []RowsOrdered
<1>1. Inv => RowsOrdered
  BY DEF Inv, AttInv, RowsOrdered, OrderedRows
<1>2. QED
  BY <1>1, Invariance, PTL

(***************************************************************************)
(* Every signature produced or still to be produced stays guarded by the   *)
(* rows of its key, through every prune and import.                        *)
(***************************************************************************)
THEOREM GuardedForever == Spec => []SignedStaysGuarded
<1>1. Inv => SignedStaysGuarded
  BY DEF Inv, AttInv, BlockInv, SignedStaysGuarded
<1>2. QED
  BY <1>1, Invariance, PTL

-----------------------------------------------------------------------------
(***************************************************************************)
(* The export.  While a key is disabled its rows are the exported ones:    *)
(* signing, pruning and importing all need it enabled.                     *)
(***************************************************************************)
ExportInv ==
    \A k \in LocallyProtected : status[k] = "disabled" =>
        exported[k] = [blocks |-> blockRows[k], atts |-> attRows[k]]

(* Every step keeps the rows of a disabled key as they were exported. *)
LEMMA ExportInvStep ==
    ASSUME TypeOK, ExportInv, [Next]_vars
    PROVE  ExportInv'
<1> USE DEF ExportInv, LocallyProtected
<1>1. CASE UNCHANGED <<status, blockRows, attRows, exported>>
  BY <1>1
<1>2. CASE Start
  BY <1>2 DEF Start, RegisterValidators
<1>3. ASSUME NEW t \in AttestationTasks, CheckAndInsertAttestation(t)
      PROVE  ExportInv'
  <2>1. \A k \in LocallyProtected : status[k] = "disabled" => attRows'[k] = attRows[k]
    BY <1>3 DEF CheckAndInsertAttestation, TypeOK
  <2>2. QED
    BY <1>3, <2>1 DEF CheckAndInsertAttestation, history
<1>4. ASSUME NEW t \in BlockTasks, CheckAndInsertBlock(t)
      PROVE  ExportInv'
  <2>1. \A k \in LocallyProtected : status[k] = "disabled" => blockRows'[k] = blockRows[k]
    BY <1>4 DEF CheckAndInsertBlock, TypeOK
  <2>2. QED
    BY <1>4, <2>1 DEF CheckAndInsertBlock, history
<1>5. CASE PruneAllSignedAttestations
  BY <1>5 DEF PruneAllSignedAttestations, CheckValidatorRegistrations, history
<1>6. CASE PruneAllSignedBlocks
  BY SMTT(30), <1>6 DEF PruneAllSignedBlocks, CheckValidatorRegistrations, history
<1>7. ASSUME NEW key \in Validators, NEW record \in Interchanges,
             ImportInterchange(key, record)
      PROVE  ExportInv'
  BY <1>7 DEF ImportInterchange, RegisterValidators, TypeOK
<1>8. ASSUME NEW key \in Validators, RegisterValidator(key)
      PROVE  ExportInv'
  BY Zenon, <1>8 DEF RegisterValidator, RegisterValidators
<1>9. ASSUME NEW key \in Validators, ExportSlashingProtection(key)
      PROVE  ExportInv'
  BY <1>9 DEF ExportSlashingProtection, TypeOK
<1>10. QED
  BY Zenon, <1>1, <1>2, <1>3, <1>4, <1>5, <1>6, <1>7, <1>8, <1>9
     DEF Next, vars, db, history, Crash, BeginAttestation, SignAttestation,
         FailAttestation, BeginBlock, SignBlock, FailBlock, BeginPrune, PruneFails,
         AddDefinition, DeleteKeystore, DeleteEndsWithoutExport

(***************************************************************************)
(* The record that a delete request exports covers everything its key has  *)
(* signed and everything a call in flight may still sign.                  *)
(***************************************************************************)
THEOREM ExportIsComplete == Spec => []ExportCoversSigned
<1>1. Init => ExportInv
  BY DEF Init, ExportInv, LocallyProtected
<1>2. Inv /\ ExportInv /\ [Next]_vars => ExportInv'
  BY ExportInvStep DEF Inv
<1>3. Inv /\ ExportInv => ExportCoversSigned
  <2> SUFFICES ASSUME Inv, ExportInv, NEW k \in LocallyProtected, status[k] = "disabled"
               PROVE  /\ \A a \in PromisedAtts(k) :
                            /\ \E row \in exported[k].atts : a.source <= row.source
                            /\ \E row \in exported[k].atts : a.target <= row.target
                      /\ \A b \in PromisedBlocks(k) :
                            \E row \in exported[k].blocks : b.slot <= row.slot
    BY DEF ExportCoversSigned
  <2>0. exported[k] = [blocks |-> blockRows[k], atts |-> attRows[k]]
    BY DEF ExportInv
  <2>1. exported[k].atts = attRows[k] /\ exported[k].blocks = blockRows[k]
    BY <2>0
  <2>2. PromisedAtts(k) \subseteq Attestation /\ PromisedBlocks(k) \subseteq Block
    BY PromisesType DEF Inv, LocallyProtected
  <2>3. \A a \in PromisedAtts(k) :
           /\ \E row \in attRows[k] : a.source <= row.source
           /\ \E row \in attRows[k] : a.target <= row.target
    BY <2>2 DEF Inv, AttInv, GuardedAtt, Attestation, Epoch
  <2>4. \A b \in PromisedBlocks(k) : \E row \in blockRows[k] : b.slot <= row.slot
    BY <2>2 DEF Inv, BlockInv, GuardedBlock, Block, Slot
  <2>5. QED
    BY <2>1, <2>3, <2>4
<1>4. QED
  BY <1>1, <1>2, <1>3, Invariance, PTL DEF Spec

(* A database that imported a record lets no attestation through that is   *)
(* slashable with one the record covers, whatever it held before.          *)
LEMMA ImportedAttestationsProtect ==
    ASSUME NEW old \in SUBSET AttestationRow, NEW atts \in SUBSET AttestationRow,
           NEW rows \in ImportAttestations(old, atts),
           NEW att \in Attestation, AttestationIsValid(rows, att),
           NEW a \in Attestation,
           \E row \in atts : a.source <= row.source,
           \E row \in atts : a.target <= row.target
    PROVE  ~Slashable(att, a)
<1>1. PICK max \in SyntheticRows(atts \cup old) : rows = {max}
  BY DEF ImportAttestations
<1>2. /\ max.source \in Maxima(Sources(atts \cup old))
      /\ max.target \in Maxima(Targets(atts \cup old))
  BY <1>1 DEF SyntheticRows
<1>3. /\ max.source \in Epoch /\ max.target \in Epoch
      /\ \A row \in atts : row.source <= max.source /\ row.target <= max.target
  BY <1>2 DEF Maxima, Sources, Targets, AttestationRow
<1>4. a.source <= max.source /\ a.target <= max.target
  BY <1>3 DEF Attestation, AttestationRow, Epoch
<1>5. att.source >= max.source /\ att.target > max.target
  BY <1>1, <1>3 DEF AttestationIsValid, SourceLessThanLowerBound,
                    TargetLessThanOrEqLowerBound, Attestation, Epoch
<1>6. QED
  BY <1>3, <1>4, <1>5 DEF Slashable, Surrounds, Attestation, Epoch

(* The same for blocks. *)
LEMMA ImportedBlocksProtect ==
    ASSUME NEW old \in SUBSET BlockRow, NEW slots \in SUBSET Slot,
           NEW rows \in ImportBlocks(old, slots),
           NEW block \in Block, BlockIsValid(rows, block),
           NEW b \in Block, \E slot \in slots : b.slot <= slot
    PROVE  ~DoubleProposal(block, b)
<1>1. PICK m \in Maxima(slots \cup Slots(old)) : rows = {[slot |-> m, data |-> NullData]}
  BY DEF ImportBlocks
<1>2. m \in Slot /\ \A slot \in slots : slot <= m
  BY <1>1 DEF Maxima, Slots, BlockRow
<1>3. block.slot > m
  BY <1>1, <1>2 DEF BlockIsValid, SlotViolatesLowerBound, Block, Slot
<1>4. QED
  BY <1>2, <1>3 DEF DoubleProposal, Block, Slot

(***************************************************************************)
(* A key can be moved to another client with the record its deletion       *)
(* exported: nothing that client signs after the import is slashable with  *)
(* a message signed, or still to be signed, by this one.                   *)
(***************************************************************************)
THEOREM SafeHandover == Spec => []HandoverIsSafe
<1>1. TypeOK /\ ExportCoversSigned => HandoverIsSafe
  <2> SUFFICES ASSUME TypeOK, ExportCoversSigned,
                      NEW k \in LocallyProtected, status[k] = "disabled"
               PROVE  /\ \A rows \in ImportAttestations({}, exported[k].atts) :
                         \A att \in Attestation : AttestationIsValid(rows, att) =>
                             \A a \in PromisedAtts(k) : ~Slashable(att, a)
                      /\ \A rows \in ImportBlocks({}, Slots(exported[k].blocks)) :
                         \A block \in Block : BlockIsValid(rows, block) =>
                             \A b \in PromisedBlocks(k) : ~DoubleProposal(block, b)
    BY DEF HandoverIsSafe
  <2>1. /\ exported[k].atts \in SUBSET AttestationRow
        /\ exported[k].blocks \in SUBSET BlockRow
    BY DEF TypeOK, LocallyProtected
  <2>2. Slots(exported[k].blocks) \in SUBSET Slot
    BY <2>1 DEF Slots, BlockRow
  <2>3. PromisedAtts(k) \subseteq Attestation /\ PromisedBlocks(k) \subseteq Block
    BY PromisesType DEF LocallyProtected
  <2>4. /\ \A a \in PromisedAtts(k) :
              /\ \E row \in exported[k].atts : a.source <= row.source
              /\ \E row \in exported[k].atts : a.target <= row.target
        /\ \A b \in PromisedBlocks(k) :
              \E slot \in Slots(exported[k].blocks) : b.slot <= slot
    BY DEF ExportCoversSigned, Slots
  <2>5. ASSUME NEW rows \in ImportAttestations({}, exported[k].atts),
               NEW att \in Attestation, AttestationIsValid(rows, att),
               NEW a \in PromisedAtts(k)
        PROVE  ~Slashable(att, a)
    BY <2>1, <2>3, <2>4, <2>5, ImportedAttestationsProtect
  <2>6. ASSUME NEW rows \in ImportBlocks({}, Slots(exported[k].blocks)),
               NEW block \in Block, BlockIsValid(rows, block),
               NEW b \in PromisedBlocks(k)
        PROVE  ~DoubleProposal(block, b)
    BY <2>2, <2>3, <2>4, <2>6, ImportedBlocksProtect
  <2>7. QED
    BY <2>5, <2>6
<1>2. QED
  BY <1>1, TypeCorrect, ExportIsComplete, PTL

-----------------------------------------------------------------------------
(***************************************************************************)
(* Refinement.  Only SignAttestation and SignBlock change what the         *)
(* abstract signer sees; a message they sign is a promise, and promises    *)
(* are harmless to each other.                                             *)
(***************************************************************************)

(* Signing an approved attestation is a step of the abstract signer. *)
LEMMA SignAttestationRefines ==
    ASSUME Inv, NEW t \in AttestationTasks, SignAttestation(t)
    PROVE  Abstract!Next
<1> DEFINE k == attTask[t].key
           att == attTask[t].msg
<1>a. attTask[t].pc = "approved"
  BY DEF SignAttestation
<1>b. attTask[t] \in TaskState(Attestation)
  BY DEF Inv, TypeOK
<1>1. k \in Validators /\ att \in Attestation /\ attTask[t].pc = "approved"
  BY <1>a, <1>b DEF TaskState, Idle
<1>2. att \in PromisedAtts(k) /\ signedAtts[k] \subseteq PromisedAtts(k)
  BY <1>1 DEF PromisedAtts, ApprovedAtts
<1>3. k \in LocallyProtected => \A a \in signedAtts[k] : ~Slashable(att, a)
  BY <1>2 DEF Inv, AttInv
<1>4. k \in LocallyProtected => \A a \in signedAtts[k] : ~Abstract!Slashable(att, a)
  BY <1>3 DEF Slashable, Surrounds, Abstract!Slashable, Abstract!Surrounds
<1>5. /\ signedAtts' = [signedAtts EXCEPT ![k] = @ \cup {att}]
      /\ UNCHANGED signedBlocks
  BY DEF SignAttestation
<1>6. Abstract!SignAttestation(k, att)
  BY <1>4, <1>5 DEF Abstract!SignAttestation
<1>7. QED
  BY <1>1, <1>6 DEF Abstract!Next

(* Signing an approved block is a step of the abstract signer. *)
LEMMA SignBlockRefines ==
    ASSUME Inv, NEW t \in BlockTasks, SignBlock(t)
    PROVE  Abstract!Next
<1> DEFINE k == blockTask[t].key
           block == blockTask[t].msg
<1>a. blockTask[t].pc = "approved"
  BY DEF SignBlock
<1>b. blockTask[t] \in TaskState(Block)
  BY DEF Inv, TypeOK
<1>1. k \in Validators /\ block \in Block /\ blockTask[t].pc = "approved"
  BY <1>a, <1>b DEF TaskState, Idle
<1>2. block \in PromisedBlocks(k) /\ signedBlocks[k] \subseteq PromisedBlocks(k)
  BY <1>1 DEF PromisedBlocks, ApprovedBlocks
<1>3. k \in LocallyProtected => \A b \in signedBlocks[k] : ~DoubleProposal(block, b)
  BY <1>2 DEF Inv, BlockInv
<1>4. k \in LocallyProtected => \A b \in signedBlocks[k] : ~Abstract!DoubleProposal(block, b)
  BY <1>3 DEF DoubleProposal, Abstract!DoubleProposal
<1>5. /\ signedBlocks' = [signedBlocks EXCEPT ![k] = @ \cup {block}]
      /\ UNCHANGED signedAtts
  BY DEF SignBlock
<1>6. Abstract!SignBlock(k, block)
  BY <1>4, <1>5 DEF Abstract!SignBlock
<1>7. QED
  BY <1>1, <1>6 DEF Abstract!Next

(***************************************************************************)
(* The signing pipeline implements the abstract signer, for every number   *)
(* of keys, tasks, slots and epochs and every set of duties and records.   *)
(***************************************************************************)
THEOREM Refinement == Spec => ImplementsSigner
<1>1. Init => Abstract!Init
  BY DEF Init, Abstract!Init
<1>2. ASSUME Inv, [Next]_vars PROVE [Abstract!Next]_(Abstract!vars)
  <2>1. CASE UNCHANGED <<signedAtts, signedBlocks>>
    BY <2>1 DEF Abstract!vars
  <2>2. ASSUME NEW t \in AttestationTasks, SignAttestation(t)
        PROVE  Abstract!Next
    BY <1>2, <2>2, SignAttestationRefines
  <2>3. ASSUME NEW t \in BlockTasks, SignBlock(t)
        PROVE  Abstract!Next
    BY <1>2, <2>3, SignBlockRefines
  <2>4. QED
    BY Zenon, <1>2, <2>1, <2>2, <2>3
       DEF Next, vars, history, Start, Crash, BeginAttestation, CheckAndInsertAttestation,
           FailAttestation, BeginBlock, CheckAndInsertBlock, FailBlock, BeginPrune,
           PruneAllSignedAttestations, PruneAllSignedBlocks, PruneFails, ImportInterchange,
           RegisterValidator, AddDefinition, DeleteKeystore, ExportSlashingProtection,
           DeleteEndsWithoutExport
<1>3. QED
  BY <1>1, <1>2, Invariance, PTL DEF Spec, ImplementsSigner, Abstract!Spec

-----------------------------------------------------------------------------
(***************************************************************************)
(* The bounds of the attestations and of the blocks of one key.            *)
(***************************************************************************)
AttBoundsHold(rows, new) ==
    rows # {} => /\ new # {}
                 /\ \A x \in new : /\ \E y \in rows : y.source <= x.source
                                   /\ \E y \in rows : y.target <= x.target

BlockBoundsHold(rows, new) ==
    rows # {} => /\ new # {}
                 /\ \A x \in new : \E y \in rows : y.slot <= x.slot

(* Rows that stay the same keep their bounds. *)
LEMMA SameBounds ==
    /\ \A rows \in SUBSET AttestationRow : AttBoundsHold(rows, rows)
    /\ \A rows \in SUBSET BlockRow : BlockBoundsHold(rows, rows)
BY DEF AttBoundsHold, BlockBoundsHold, AttestationRow, BlockRow, Epoch, Slot

(* Approving an attestation lowers no bound of the attestations. *)
LEMMA InsertAttBounds ==
    ASSUME NEW rows \in SUBSET AttestationRow, NEW att \in Attestation,
           AttestationIsValid(rows, att)
    PROVE  AttBoundsHold(rows, rows \cup {att})
<1>1. rows # {} => \E y \in rows : y.source <= att.source
  BY DEF AttestationIsValid, SourceLessThanLowerBound, Attestation, AttestationRow, Epoch
<1>2. rows # {} => \E y \in rows : y.target <= att.target
  BY DEF AttestationIsValid, TargetLessThanOrEqLowerBound, Attestation, AttestationRow, Epoch
<1>3. AttBoundsHold(rows, rows)
  BY SameBounds
<1>4. QED
  BY Zenon, <1>1, <1>2, <1>3 DEF AttBoundsHold

(* Pruning lowers no bound of the attestations. *)
LEMMA PruneAttBounds ==
    ASSUME NEW rows \in SUBSET AttestationRow, NEW min \in Nat
    PROVE  AttBoundsHold(rows, PruneSignedAttestations(rows, min))
<1>1. AttBoundsHold(rows, rows)
  BY SameBounds
<1>2. PruneSignedAttestations(rows, min) \subseteq rows
  BY DEF PruneSignedAttestations
<1>3. QED
  BY Zenon, <1>1, <1>2, PruneAttestationsNonempty DEF AttBoundsHold

(* An import lowers no bound of the attestations. *)
LEMMA ImportAttBounds ==
    ASSUME NEW rows \in SUBSET AttestationRow,
           NEW atts \in SUBSET [source : Epoch, target : Epoch],
           NEW new \in ImportAttestations(rows, atts)
    PROVE  AttBoundsHold(rows, new)
<1>1. CASE atts = {}
  BY <1>1, SameBounds DEF ImportAttestations
<1>2. CASE atts # {}
  <2>1. PICK max \in SyntheticRows(atts \cup rows) : new = {max}
    BY <1>2 DEF ImportAttestations
  <2>2. \A row \in rows : row.source <= max.source /\ row.target <= max.target
    BY <2>1 DEF SyntheticRows, Maxima, Sources, Targets
  <2>3. QED
    BY <2>1, <2>2 DEF AttBoundsHold
<1>3. QED
  BY <1>1, <1>2

(* Approving a block lowers no bound of the blocks. *)
LEMMA InsertBlockBounds ==
    ASSUME NEW rows \in SUBSET BlockRow, NEW block \in Block, BlockIsValid(rows, block)
    PROVE  BlockBoundsHold(rows, rows \cup {block})
<1>1. rows # {} => \E y \in rows : y.slot <= block.slot
  BY DEF BlockIsValid, SlotViolatesLowerBound, Block, BlockRow, Slot
<1>2. BlockBoundsHold(rows, rows)
  BY SameBounds
<1>3. QED
  BY Zenon, <1>1, <1>2 DEF BlockBoundsHold

(* Pruning lowers no bound of the blocks. *)
LEMMA PruneBlockBounds ==
    ASSUME NEW rows \in SUBSET BlockRow, NEW min \in Nat
    PROVE  BlockBoundsHold(rows, PruneSignedBlocks(rows, min))
<1>1. BlockBoundsHold(rows, rows)
  BY SameBounds
<1>2. PruneSignedBlocks(rows, min) \subseteq rows
  BY DEF PruneSignedBlocks
<1>3. QED
  BY Zenon, <1>1, <1>2, PruneBlocksNonempty DEF BlockBoundsHold

(* An import lowers no bound of the blocks. *)
LEMMA ImportBlockBounds ==
    ASSUME NEW rows \in SUBSET BlockRow, NEW slots \in SUBSET Slot,
           NEW new \in ImportBlocks(rows, slots)
    PROVE  BlockBoundsHold(rows, new)
<1>1. CASE slots = {}
  BY <1>1, SameBounds DEF ImportBlocks
<1>2. CASE slots # {}
  <2>1. PICK m \in Maxima(slots \cup Slots(rows)) :
           new = {[slot |-> m, data |-> NullData]}
    BY <1>2 DEF ImportBlocks
  <2>2. \A row \in rows : row.slot <= m
    BY <2>1 DEF Maxima, Slots
  <2>3. QED
    BY <2>1, <2>2 DEF BlockBoundsHold
<1>3. QED
  BY <1>1, <1>2

(* A step lowers no bound of any key's attestations. *)
LEMMA AttBoundsStep ==
    ASSUME TypeOK, [Next]_vars, NEW k \in Validators
    PROVE  AttBoundsHold(attRows[k], attRows'[k])
<1>0. attRows[k] \in SUBSET AttestationRow
  BY DEF TypeOK
<1>1. CASE attRows'[k] = attRows[k]
  BY Zenon, <1>0, <1>1, SameBounds
<1>2. ASSUME NEW t \in AttestationTasks, CheckAndInsertAttestation(t),
             attRows'[k] # attRows[k]
      PROVE  AttBoundsHold(attRows[k], attRows'[k])
  <2>1. PICK att \in Attestation : /\ AttestationIsValid(attRows[k], att)
                                   /\ attRows'[k] = attRows[k] \cup {att}
    BY <1>2 DEF CheckAndInsertAttestation, TypeOK, TaskState, Idle
  <2>2. QED
    BY Zenon, <1>0, <2>1, InsertAttBounds
<1>3. CASE PruneAllSignedAttestations /\ attRows'[k] # attRows[k]
  <2> DEFINE min == NewMinTarget(pruneTask.epoch)
  <2>1. min \in Nat
    BY NewMinType
  <2> HIDE DEF min
  <2>2. attRows'[k] = PruneSignedAttestations(attRows[k], min)
    BY <1>3 DEF PruneAllSignedAttestations, min
  <2>3. QED
    BY Zenon, <1>0, <2>1, <2>2, PruneAttBounds
<1>4. ASSUME NEW key \in Validators, NEW record \in Interchanges,
             ImportInterchange(key, record), attRows'[k] # attRows[k]
      PROVE  AttBoundsHold(attRows[k], attRows'[k])
  <2>1. attRows'[k] \in ImportAttestations(attRows[k], record.atts)
    BY <1>4 DEF ImportInterchange, TypeOK
  <2>2. record.atts \in SUBSET [source : Epoch, target : Epoch]
    BY StoreAssumption
  <2>3. QED
    BY Zenon, <1>0, <2>1, <2>2, ImportAttBounds
<1>5. QED
  BY <1>1, <1>2, <1>3, <1>4, AttestationSteps DEF AttestationStep

(* A step lowers no bound of any key's blocks. *)
LEMMA BlockBoundsStep ==
    ASSUME TypeOK, [Next]_vars, NEW k \in Validators
    PROVE  BlockBoundsHold(blockRows[k], blockRows'[k])
<1>0. blockRows[k] \in SUBSET BlockRow
  BY DEF TypeOK
<1>1. CASE blockRows'[k] = blockRows[k]
  BY Zenon, <1>0, <1>1, SameBounds
<1>2. ASSUME NEW t \in BlockTasks, CheckAndInsertBlock(t), blockRows'[k] # blockRows[k]
      PROVE  BlockBoundsHold(blockRows[k], blockRows'[k])
  <2>1. PICK block \in Block : /\ BlockIsValid(blockRows[k], block)
                               /\ blockRows'[k] = blockRows[k] \cup {block}
    BY <1>2 DEF CheckAndInsertBlock, TypeOK, TaskState, Idle
  <2>2. QED
    BY Zenon, <1>0, <2>1, InsertBlockBounds
<1>3. CASE PruneAllSignedBlocks /\ blockRows'[k] # blockRows[k]
  <2> DEFINE min == NewMinSlot(pruneTask.epoch)
  <2>1. min \in Nat
    BY NewMinType
  <2> HIDE DEF min
  <2>2. blockRows'[k] = PruneSignedBlocks(blockRows[k], min)
    BY <1>3 DEF PruneAllSignedBlocks, min
  <2>3. QED
    BY Zenon, <1>0, <2>1, <2>2, PruneBlockBounds
<1>4. ASSUME NEW key \in Validators, NEW record \in Interchanges,
             ImportInterchange(key, record), blockRows'[k] # blockRows[k]
      PROVE  BlockBoundsHold(blockRows[k], blockRows'[k])
  <2>1. blockRows'[k] \in ImportBlocks(blockRows[k], record.slots)
    BY <1>4 DEF ImportInterchange, TypeOK
  <2>2. record.slots \in SUBSET Slot
    BY StoreAssumption
  <2>3. QED
    BY Zenon, <1>0, <2>1, <2>2, ImportBlockBounds
<1>5. QED
  BY <1>1, <1>2, <1>3, <1>4, BlockSteps DEF BlockStep

(***************************************************************************)
(* The lowest slot, source and target that the checks compare with never   *)
(* fall, and no step forgets everything a key has signed.                  *)
(***************************************************************************)
THEOREM BoundsAreMonotonic == Spec => BoundsNeverFall
<1> DEFINE Holds == \A k \in Validators :
          /\ blockRows[k] # {} =>
                /\ blockRows'[k] # {}
                /\ \A x \in blockRows'[k] : \E y \in blockRows[k] : y.slot <= x.slot
          /\ attRows[k] # {} =>
                /\ attRows'[k] # {}
                /\ \A x \in attRows'[k] :
                      /\ \E y \in attRows[k] : y.source <= x.source
                      /\ \E y \in attRows[k] : y.target <= x.target
<1>1. ASSUME TypeOK, [Next]_vars PROVE [Holds]_vars
  <2>1. ASSUME NEW k \in Validators
        PROVE  /\ AttBoundsHold(attRows[k], attRows'[k])
               /\ BlockBoundsHold(blockRows[k], blockRows'[k])
    BY <1>1, AttBoundsStep, BlockBoundsStep
  <2>2. QED
    BY <2>1 DEF AttBoundsHold, BlockBoundsHold
<1>2. QED
  BY <1>1, TypeCorrect, PTL DEF Spec, BoundsNeverFall

=============================================================================
