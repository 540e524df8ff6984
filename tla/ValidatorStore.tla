--------------------------- MODULE ValidatorStore ---------------------------
(***************************************************************************)
(* The validator client's signing pipeline around the slashing protection  *)
(* database: VibehouseValidatorStore (sign_abstract_block,                 *)
(* sign_attestation, add_validator, prune_slashing_protection_db,          *)
(* export_slashing_protection_for_keys), the keystore endpoints of its     *)
(* HTTP API, InitializedValidators, and the start-up of the client.        *)
(*                                                                         *)
(* Signing tasks, HTTP requests and the pruning task interleave at every   *)
(* await and between every two transactions; the process may crash at any  *)
(* step and keeps only the database and the validator definitions.         *)
(***************************************************************************)
EXTENDS SlashingDatabase, SlashingConditions

CONSTANTS
    Validators,         \* the voting public keys
    RemotelyProtected,  \* keys on a web3signer that has its own protection
    AttestationTasks,   \* concurrent calls of sign_attestation
    BlockTasks,         \* concurrent calls of sign_block
    AttestationDuties,  \* the attestations beacon nodes offer for signing
    BlockDuties,        \* the blocks beacon nodes offer for signing
    Interchanges,       \* the records that interchange files may hold
    HistoryEpochs,      \* SLASHING_PROTECTION_HISTORY_EPOCHS
    SlotsPerEpoch,
    NoTask              \* what an idle task holds

ASSUME StoreAssumption ==
    /\ RemotelyProtected \subseteq Validators
    /\ AttestationDuties \subseteq Attestation
    /\ BlockDuties \subseteq Block
    /\ Interchanges \subseteq [slots : SUBSET Slot,
                               atts : SUBSET [source : Epoch, target : Epoch]]
    /\ HistoryEpochs \in Nat \ {0}
    /\ SlotsPerEpoch \in Nat \ {0}

VARIABLES
    status,         \* the validators table: absent, enabled or disabled
    blockRows,      \* signed_blocks, per validator
    attRows,        \* signed_attestations, per validator
    definitions,    \* the enabled entries of validator_definitions.yml
    phase,          \* down, starting (start-up pruning) or up
    signingMethods, \* InitializedValidators::validators
    attTask,        \* each sign_attestation call in flight
    blockTask,      \* each sign_block call in flight
    pruneTask,      \* the prune_slashing_protection_db call in flight
    lastPrune,      \* slashing_protection_last_prune
    adding,         \* keys between register_validator and add_definition
    deleting,       \* the key of a delete request that holds the write lock
    signedAtts,     \* history: attestations whose signature was produced
    signedBlocks,   \* history: blocks whose signature was produced
    exported        \* history: the record that was exported when a key was disabled

db == <<status, blockRows, attRows>>
keys == <<definitions, phase, signingMethods, adding, deleting>>
tasks == <<attTask, blockTask>>
pruning == <<pruneTask, lastPrune>>
history == <<signedAtts, signedBlocks, exported>>
vars == <<db, keys, tasks, pruning, history>>

Idle == [pc |-> "idle", key |-> NoTask, msg |-> NoTask]
NoExport == [blocks |-> {}, atts |-> {}]
PruneIdle == [pc |-> "idle", keys |-> {}, epoch |-> 0]

TaskState(Messages) ==
    [pc : {"method", "approved"}, key : Validators, msg : Messages] \cup {Idle}

TypeOK ==
    /\ status \in [Validators -> {"absent", "enabled", "disabled"}]
    /\ blockRows \in [Validators -> SUBSET BlockRow]
    /\ attRows \in [Validators -> SUBSET AttestationRow]
    /\ definitions \subseteq Validators
    /\ phase \in {"down", "starting", "up"}
    /\ signingMethods \subseteq Validators
    /\ attTask \in [AttestationTasks -> TaskState(Attestation)]
    /\ blockTask \in [BlockTasks -> TaskState(Block)]
    /\ pruneTask \in [pc : {"idle", "attestations", "blocks"},
                      keys : SUBSET Validators, epoch : Epoch]
    /\ lastPrune \in Epoch
    /\ adding \subseteq Validators
    /\ deleting \subseteq Validators
    /\ signedAtts \in [Validators -> SUBSET Attestation]
    /\ signedBlocks \in [Validators -> SUBSET Block]
    /\ exported \in [Validators -> [blocks : SUBSET BlockRow,
                                    atts : SUBSET AttestationRow]]

(***************************************************************************)
(* The client is installed with some keys, before slashing protection is   *)
(* initialised.                                                            *)
(***************************************************************************)
Init ==
    /\ status = [k \in Validators |-> "absent"]
    /\ blockRows = [k \in Validators |-> {}]
    /\ attRows = [k \in Validators |-> {}]
    /\ definitions \in SUBSET Validators
    /\ phase = "down"
    /\ signingMethods = {}
    /\ attTask = [t \in AttestationTasks |-> Idle]
    /\ blockTask = [t \in BlockTasks |-> Idle]
    /\ pruneTask = PruneIdle
    /\ lastPrune = 0
    /\ adding = {}
    /\ deleting = {}
    /\ signedAtts = [k \in Validators |-> {}]
    /\ signedBlocks = [k \in Validators |-> {}]
    /\ exported = [k \in Validators |-> NoExport]

-----------------------------------------------------------------------------
(***************************************************************************)
(* Start-up.  With --init-slashing-protection every enabled definition is  *)
(* registered; without it the client refuses to start unless each one is   *)
(* registered and enabled.  The database is then pruned once before any    *)
(* service runs, if the clock can be read.                                 *)
(***************************************************************************)
RegisterValidators(ks) ==
    /\ status' = [k \in Validators |-> IF k \in ks THEN "enabled" ELSE status[k]]
    /\ exported' = [k \in Validators |-> IF k \in ks THEN NoExport ELSE exported[k]]

CheckValidatorRegistrations(ks) == \A k \in ks : status[k] = "enabled"

PruneIsDue(epoch, last) == epoch \div HistoryEpochs > last \div HistoryEpochs

StartPruning(ks, epoch) ==
    pruneTask' = [pc |-> "attestations", keys |-> ks, epoch |-> epoch]

Start ==
    /\ phase = "down"
    /\ \/ RegisterValidators(definitions)
       \/ CheckValidatorRegistrations(definitions) /\ UNCHANGED <<status, exported>>
    /\ signingMethods' = definitions
    /\ \/ phase' = "up" /\ UNCHANGED pruneTask
       \/ \E epoch \in Epoch :
             /\ PruneIsDue(epoch, lastPrune)
             /\ phase' = "starting"
             /\ StartPruning(definitions, epoch)
    /\ UNCHANGED <<blockRows, attRows, definitions, adding, deleting, tasks,
                   lastPrune, signedAtts, signedBlocks>>

Crash ==
    /\ phase # "down"
    /\ phase' = "down"
    /\ signingMethods' = {}
    /\ attTask' = [t \in AttestationTasks |-> Idle]
    /\ blockTask' = [t \in BlockTasks |-> Idle]
    /\ pruneTask' = PruneIdle
    /\ lastPrune' = 0
    /\ adding' = {}
    /\ deleting' = {}
    /\ UNCHANGED <<db, definitions, history>>

-----------------------------------------------------------------------------
(***************************************************************************)
(* Signing.  A call takes the signing method of its key under the read     *)
(* lock (doppelganger protection may refuse, which is the call not being   *)
(* made), asks the database, and signs only on Safe::Valid; SameData and   *)
(* every error end the call.  The method it holds outlives the removal of  *)
(* the key from InitializedValidators.  current is the caller's reading of *)
(* the clock.                                                              *)
(***************************************************************************)
BeginAttestation(t, k, att, current) ==
    /\ phase = "up" /\ deleting = {}
    /\ attTask[t] = Idle
    /\ att.target <= current
    /\ k \in signingMethods
    /\ attTask' = [attTask EXCEPT ![t] = [pc |-> "method", key |-> k, msg |-> att]]
    /\ UNCHANGED <<db, keys, blockTask, pruning, history>>

BeginBlock(t, k, block, current) ==
    /\ phase = "up" /\ deleting = {}
    /\ blockTask[t] = Idle
    /\ block.slot <= current
    /\ k \in signingMethods
    /\ blockTask' = [blockTask EXCEPT ![t] = [pc |-> "method", key |-> k, msg |-> block]]
    /\ UNCHANGED <<db, keys, attTask, pruning, history>>

(***************************************************************************)
(* check_and_insert_*: get_validator_id refuses an absent or disabled key, *)
(* a Valid message is inserted in the transaction that checked it, and     *)
(* anything else ends the call.                                            *)
(***************************************************************************)
CheckAndInsertAttestation_IgnoresStatus(t) ==
    LET k == attTask[t].key
        att == attTask[t].msg
    IN  /\ attTask[t].pc = "method"
        /\ AttestationIsValid(attRows[k], att)
        /\ attRows' = [attRows EXCEPT ![k] = @ \cup {att}]
        /\ attTask' = [attTask EXCEPT ![t].pc = "approved"]
        /\ UNCHANGED <<status, blockRows, keys, blockTask, pruning, history>>

CheckAndInsertAttestation(t) ==
    LET k == attTask[t].key
        att == attTask[t].msg
        approve == attTask' = [attTask EXCEPT ![t].pc = "approved"]
    IN  /\ attTask[t].pc = "method"
        /\ \/ /\ k \in RemotelyProtected
              /\ approve /\ UNCHANGED attRows
           \/ /\ k \notin RemotelyProtected
              /\ status[k] = "enabled" /\ AttestationIsValid(attRows[k], att)
              /\ attRows' = [attRows EXCEPT ![k] = @ \cup {att}]
              /\ approve
        /\ UNCHANGED <<status, blockRows, keys, blockTask, pruning, history>>

CheckAndInsertBlock_IgnoresStatus(t) ==
    LET k == blockTask[t].key
        block == blockTask[t].msg
    IN  /\ blockTask[t].pc = "method"
        /\ BlockIsValid(blockRows[k], block)
        /\ blockRows' = [blockRows EXCEPT ![k] = @ \cup {block}]
        /\ blockTask' = [blockTask EXCEPT ![t].pc = "approved"]
        /\ UNCHANGED <<status, attRows, keys, attTask, pruning, history>>

CheckAndInsertBlock(t) ==
    LET k == blockTask[t].key
        block == blockTask[t].msg
        approve == blockTask' = [blockTask EXCEPT ![t].pc = "approved"]
    IN  /\ blockTask[t].pc = "method"
        /\ \/ /\ k \in RemotelyProtected
              /\ approve /\ UNCHANGED blockRows
           \/ /\ k \notin RemotelyProtected
              /\ status[k] = "enabled" /\ BlockIsValid(blockRows[k], block)
              /\ blockRows' = [blockRows EXCEPT ![k] = @ \cup {block}]
              /\ approve
        /\ UNCHANGED <<status, attRows, keys, attTask, pruning, history>>

SignAttestation(t) ==
    /\ attTask[t].pc = "approved"
    /\ signedAtts' = [signedAtts EXCEPT ![attTask[t].key] = @ \cup {attTask[t].msg}]
    /\ attTask' = [attTask EXCEPT ![t] = Idle]
    /\ UNCHANGED <<db, keys, blockTask, pruning, signedBlocks, exported>>

SignBlock(t) ==
    /\ blockTask[t].pc = "approved"
    /\ signedBlocks' = [signedBlocks EXCEPT ![blockTask[t].key] = @ \cup {blockTask[t].msg}]
    /\ blockTask' = [blockTask EXCEPT ![t] = Idle]
    /\ UNCHANGED <<db, keys, attTask, pruning, signedAtts, exported>>

(***************************************************************************)
(* The call ends without a signature: the database refused, its pool timed *)
(* out, or the signer failed after the row was committed.                  *)
(***************************************************************************)
FailAttestation(t) ==
    /\ attTask[t] # Idle
    /\ attTask' = [attTask EXCEPT ![t] = Idle]
    /\ UNCHANGED <<db, keys, blockTask, pruning, history>>

FailBlock(t) ==
    /\ blockTask[t] # Idle
    /\ blockTask' = [blockTask EXCEPT ![t] = Idle]
    /\ UNCHANGED <<db, keys, attTask, pruning, history>>

-----------------------------------------------------------------------------
(***************************************************************************)
(* prune_slashing_protection_db: the keys are read once, attestations and  *)
(* blocks are pruned in two transactions, and lastPrune only moves when    *)
(* both commit.  A key that is not enabled aborts the whole transaction.   *)
(***************************************************************************)
NewMinTarget(epoch) == IF epoch < HistoryEpochs THEN 0 ELSE epoch - HistoryEpochs

NewMinSlot(epoch) == NewMinTarget(epoch) * SlotsPerEpoch

PruneEnds ==
    /\ pruneTask' = PruneIdle
    /\ phase' = "up"
    /\ UNCHANGED <<definitions, signingMethods, adding, deleting>>

BeginPrune(epoch) ==
    /\ phase = "up" /\ deleting = {}
    /\ pruneTask = PruneIdle
    /\ PruneIsDue(epoch, lastPrune)
    /\ StartPruning(signingMethods, epoch)
    /\ UNCHANGED <<db, keys, tasks, lastPrune, history>>

PruneAllSignedAttestations ==
    /\ pruneTask.pc = "attestations"
    /\ CheckValidatorRegistrations(pruneTask.keys)
    /\ ToSql(NewMinTarget(pruneTask.epoch))
    /\ attRows' = [k \in Validators |->
                     IF k \in pruneTask.keys
                     THEN PruneSignedAttestations(attRows[k], NewMinTarget(pruneTask.epoch))
                     ELSE attRows[k]]
    /\ pruneTask' = [pruneTask EXCEPT !.pc = "blocks"]
    /\ UNCHANGED <<status, blockRows, keys, tasks, lastPrune, history>>

PruneAllSignedBlocks ==
    /\ pruneTask.pc = "blocks"
    /\ CheckValidatorRegistrations(pruneTask.keys)
    /\ ToSql(NewMinSlot(pruneTask.epoch))
    /\ blockRows' = [k \in Validators |->
                       IF k \in pruneTask.keys
                       THEN PruneSignedBlocks(blockRows[k], NewMinSlot(pruneTask.epoch))
                       ELSE blockRows[k]]
    /\ lastPrune' = pruneTask.epoch
    /\ PruneEnds
    /\ UNCHANGED <<status, attRows, tasks, history>>

PruneFails ==
    /\ pruneTask.pc # "idle"
    /\ PruneEnds
    /\ UNCHANGED <<db, tasks, lastPrune, history>>

-----------------------------------------------------------------------------
(***************************************************************************)
(* import_interchange_info, from the command line while the client is down *)
(* or from the HTTP API: one transaction that registers the key and merges *)
(* its record.  A value that a column cannot hold aborts it.               *)
(***************************************************************************)
ImportInterchange(k, record) ==
    /\ phase # "starting"
    /\ RegisterValidators({k})
    /\ \E rows \in ImportBlocks(blockRows[k], record.slots) :
          blockRows' = [blockRows EXCEPT ![k] = rows]
    /\ \E rows \in ImportAttestations(attRows[k], record.atts) :
          attRows' = [attRows EXCEPT ![k] = rows]
    /\ UNCHANGED <<keys, tasks, pruning, signedAtts, signedBlocks>>

(***************************************************************************)
(* add_validator: the key is registered at once, whether or not it has a   *)
(* definition or is being deleted, and in a second step its definition is  *)
(* added under the write lock, and update_validators gives it a signing    *)
(* method and drops those of disabled definitions.  The second step fails  *)
(* if an enabled definition of the key is there (DuplicatePublicKey), or   *)
(* its keystore cannot be opened.                                          *)
(***************************************************************************)
RegisterValidator(k) ==
    /\ phase = "up"
    /\ RegisterValidators({k})
    /\ adding' = adding \cup {k}
    /\ UNCHANGED <<blockRows, attRows, definitions, phase, signingMethods,
                   deleting, tasks, pruning, signedAtts, signedBlocks>>

AddDefinition(k) ==
    /\ k \in adding /\ deleting = {}
    /\ adding' = adding \ {k}
    /\ \/ /\ k \notin definitions \cap signingMethods
          /\ definitions' = definitions \cup {k}
          /\ signingMethods' = (signingMethods \cap definitions) \cup {k}
       \/ UNCHANGED <<definitions, signingMethods>>
    /\ UNCHANGED <<db, phase, deleting, tasks, pruning, history>>

(***************************************************************************)
(* The delete endpoint.  Under the write lock of InitializedValidators the *)
(* key's definition is disabled and its signing method goes.  It may fail  *)
(* before either, after the definition of a keystore is saved as disabled, *)
(* or, for a web3signer, when the definition is saved at the end.  In any  *)
(* case the request then disables the key and exports its rows in one      *)
(* transaction, unless it fails or the key is unknown.                     *)
(***************************************************************************)
DeleteKeystore(k) ==
    /\ phase = "up" /\ deleting = {}
    /\ deleting' = {k}
    /\ definitions' \in {definitions, definitions \ {k}}
    /\ signingMethods' \in {signingMethods, signingMethods \ {k}}
    /\ UNCHANGED <<db, phase, adding, tasks, pruning, history>>

ExportSlashingProtection(k) ==
    /\ k \in deleting
    /\ deleting' = {}
    /\ status[k] # "absent"
    /\ status' = [status EXCEPT ![k] = "disabled"]
    /\ exported' = [exported EXCEPT ![k] = [blocks |-> blockRows[k], atts |-> attRows[k]]]
    /\ UNCHANGED <<blockRows, attRows, definitions, phase, signingMethods,
                   adding, tasks, pruning, signedAtts, signedBlocks>>

DeleteEndsWithoutExport ==
    /\ deleting # {}
    /\ deleting' = {}
    /\ UNCHANGED <<db, definitions, phase, signingMethods, adding, tasks,
                   pruning, history>>

-----------------------------------------------------------------------------
Next ==
    \/ Start
    \/ Crash
    \/ \E t \in AttestationTasks :
          \/ \E k \in Validators, att \in AttestationDuties, current \in Epoch :
                BeginAttestation(t, k, att, current)
          \/ CheckAndInsertAttestation(t)
          \/ SignAttestation(t)
          \/ FailAttestation(t)
    \/ \E t \in BlockTasks :
          \/ \E k \in Validators, block \in BlockDuties, current \in Slot :
                BeginBlock(t, k, block, current)
          \/ CheckAndInsertBlock(t)
          \/ SignBlock(t)
          \/ FailBlock(t)
    \/ \E epoch \in Epoch : BeginPrune(epoch)
    \/ PruneAllSignedAttestations
    \/ PruneAllSignedBlocks
    \/ PruneFails
    \/ \E k \in Validators, record \in Interchanges : ImportInterchange(k, record)
    \/ \E k \in Validators :
          \/ RegisterValidator(k)
          \/ AddDefinition(k)
          \/ DeleteKeystore(k)
          \/ ExportSlashingProtection(k)
    \/ DeleteEndsWithoutExport

Spec == Init /\ [][Next]_vars

-----------------------------------------------------------------------------
LocallyProtected == Validators \ RemotelyProtected

ApprovedAtts(k) == {attTask[t].msg : t \in {u \in AttestationTasks :
                       attTask[u].pc = "approved" /\ attTask[u].key = k}}
ApprovedBlocks(k) == {blockTask[t].msg : t \in {u \in BlockTasks :
                         blockTask[u].pc = "approved" /\ blockTask[u].key = k}}

PromisedAtts(k) == signedAtts[k] \cup ApprovedAtts(k)
PromisedBlocks(k) == signedBlocks[k] \cup ApprovedBlocks(k)

(***************************************************************************)
(* A message is guarded when the rows refuse everything slashable with it: *)
(* it is a row itself, or no row is below it.                              *)
(***************************************************************************)
GuardedAtt(rows, a) ==
    \/ a \in rows
    \/ rows # {} /\ \A row \in rows : a.source <= row.source /\ a.target <= row.target

GuardedBlock(rows, b) ==
    \/ b \in rows
    \/ rows # {} /\ \A row \in rows : b.slot <= row.slot

(***************************************************************************)
(* No key that relies on the database ever signs two different blocks of   *)
(* one slot: not by concurrent sign_block calls, not after pruning or an   *)
(* import removed the row, not across crashes or a delete and re-import.   *)
(***************************************************************************)
NoDoubleProposal ==
    \A k \in LocallyProtected : \A x, y \in signedBlocks[k] : ~DoubleProposal(x, y)

(***************************************************************************)
(* No key that relies on the database ever signs two attestations of which *)
(* one is a double vote on or surrounds the other, under the same events.  *)
(***************************************************************************)
NoSlashableAttestations ==
    \A k \in LocallyProtected : \A x, y \in signedAtts[k] : ~Slashable(x, y)

(***************************************************************************)
(* Whatever was signed, or is approved and not signed yet, stays guarded   *)
(* by the rows of its key, however often they are pruned or replaced.      *)
(***************************************************************************)
SignedStaysGuarded ==
    \A k \in LocallyProtected :
        /\ \A a \in PromisedAtts(k) : GuardedAtt(attRows[k], a)
        /\ \A b \in PromisedBlocks(k) : GuardedBlock(blockRows[k], b)

(***************************************************************************)
(* The comment of prune_signed_attestations: of two stored attestations    *)
(* the one with the smaller target has no larger source, so that deleting  *)
(* by target alone never lowers the source bound.                          *)
(***************************************************************************)
RowsOrdered ==
    \A k \in Validators : \A x, y \in attRows[k] :
        x.target < y.target => x.source <= y.source

(***************************************************************************)
(* The bounds the checks rest on never fall: no prune, import or insertion *)
(* empties the rows of a key or stores a row below all that were there.    *)
(* This is what ValidatorSummary::check_*_consistency tests at run time,   *)
(* for imports only.                                                       *)
(***************************************************************************)
BoundsNeverFall ==
    [][\A k \in Validators :
          /\ blockRows[k] # {} =>
                /\ blockRows'[k] # {}
                /\ \A x \in blockRows'[k] : \E y \in blockRows[k] : y.slot <= x.slot
          /\ attRows[k] # {} =>
                /\ attRows'[k] # {}
                /\ \A x \in attRows'[k] :
                      /\ \E y \in attRows[k] : y.source <= x.source
                      /\ \E y \in attRows[k] : y.target <= x.target]_vars

(***************************************************************************)
(* The record a delete request hands out covers everything the key has     *)
(* signed, and whatever a call in flight may still sign, for as long as    *)
(* the key stays disabled.                                                 *)
(***************************************************************************)
ExportCoversSigned ==
    \A k \in LocallyProtected :
        status[k] = "disabled" =>
            /\ \A a \in PromisedAtts(k) :
                  /\ \E row \in exported[k].atts : a.source <= row.source
                  /\ \E row \in exported[k].atts : a.target <= row.target
            /\ \A b \in PromisedBlocks(k) :
                  \E row \in exported[k].blocks : b.slot <= row.slot

(***************************************************************************)
(* A key can move to another client with the record that its deletion      *)
(* handed out: once the record is imported into an empty database, nothing *)
(* that database lets through is slashable with a message the key signed   *)
(* here, or that a call in flight here may still sign.                     *)
(***************************************************************************)
HandoverIsSafe ==
    \A k \in LocallyProtected :
        status[k] = "disabled" =>
            /\ \A rows \in ImportAttestations({}, exported[k].atts) :
               \A att \in Attestation : AttestationIsValid(rows, att) =>
                   \A a \in PromisedAtts(k) : ~Slashable(att, a)
            /\ \A rows \in ImportBlocks({}, Slots(exported[k].blocks)) :
               \A block \in Block : BlockIsValid(rows, block) =>
                   \A b \in PromisedBlocks(k) : ~DoubleProposal(block, b)

(***************************************************************************)
(* The signing pipeline implements the abstract signer: seen from outside, *)
(* signing is one step at a time and no protected key ever adds a message  *)
(* that is slashable with what it has signed, whatever the database, the   *)
(* tasks, the endpoints and the crashes do in between.                     *)
(***************************************************************************)
Abstract == INSTANCE Signer WITH
    Keys <- Validators,
    ProtectedKeys <- LocallyProtected,
    Attestations <- Attestation,
    Blocks <- Block

ImplementsSigner == Abstract!Spec

=============================================================================
