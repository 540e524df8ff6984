------------------------------- MODULE Slasher -------------------------------
(***************************************************************************)
(* The slasher (slasher/src and slasher/service): it records which         *)
(* attestations and blocks it has processed and reports those that are     *)
(* slashable with an earlier one.                                          *)
(*                                                                         *)
(* Per validator the database keeps the attestation of each target epoch,  *)
(* and two arrays over source epochs: the least target of the attestations *)
(* with a later source, and the greatest target of those with an earlier   *)
(* source.  All three wrap around after HistoryLength epochs.  A cell of   *)
(* an array holds the distance from its epoch to the target.  Chunks are   *)
(* kept where they steer the loops; the cell of an epoch within its chunk  *)
(* (chunk_index, chunk_offset, cell_index, disk_key) is its position       *)
(* modulo HistoryLength.                                                   *)
(*                                                                         *)
(* The processor thread processes the queues, prunes and hands over the    *)
(* slashings in turn, with the epoch it was notified of.  Attestations and *)
(* blocks arrive and the clock runs in between, transactions may fail and  *)
(* the process may restart.                                                *)
(***************************************************************************)
EXTENDS Integers, FiniteSets, SequencesExt

CONSTANTS
    Validators,         \* validator indices
    ValidatorChunkSize,
    HistoryLength,
    ChunkSize,
    MaxDistance,        \* MAX_DISTANCE, what no stored distance may reach
    SlotsPerEpoch,
    Attestations,       \* the indexed attestations of the network
    Blocks,             \* the signed block headers of the network
    MaxEpoch,           \* bound: the last epoch of the run
    MaxArrivals         \* bound: how many messages arrive

ASSUME SlasherAssumption ==
    /\ Validators \subseteq Nat
    /\ {ValidatorChunkSize, ChunkSize, SlotsPerEpoch, HistoryLength} \subseteq Nat \ {0}
    /\ HistoryLength % ChunkSize = 0
    /\ MaxDistance \in Nat /\ HistoryLength <= MaxDistance + 1     \* MAX_HISTORY_LENGTH
    /\ \A a \in Attestations : a.attesters \in SUBSET Validators \ {{}}

VARIABLES
    clock,      \* the current epoch
    queue,      \* attestation_queue
    blocks,     \* block_queue
    arrivals,   \* the number of messages so far
    round,      \* the epoch of the processor's round, from process_queued to its end
    store,      \* indexed_attestation_db and its inverse, indexed_attestation_id_db
    cache,      \* attestation_root_cache
    rows,       \* per validator: attesters_db, its maximum target, current epoch and arrays
    proposers,  \* proposers_db
    slashings,  \* attester_slashings and proposer_slashings, not yet handed over
    found,      \* history: every slashing found
    processed,  \* history: the attestations and blocks of committed transactions
    failed      \* history: process_queued met an inconsistency

vars == <<clock, queue, blocks, arrivals, round, store, cache, rows, proposers,
          slashings, found, processed, failed>>

Cells == 0..(HistoryLength - 1)
Epochs == 0..MaxEpoch
None == -1
Null == 0       \* the null id of a CompactAttesterRecord

NewRow == [records |-> [i \in Cells |-> Null], max_target |-> None, current_epoch |-> None,
           min |-> [i \in Cells |-> MaxDistance], max |-> [i \in Cells |-> 0]]

(* The state is well typed, and the table of ids is the inverse of the     *)
(* table of attestations (store_indexed_attestation looks an attestation   *)
(* up before it stores it).                                                *)
TypeOK ==
    /\ clock \in Epochs
    /\ queue \subseteq Attestations /\ blocks \subseteq Blocks
    /\ arrivals \in 0..MaxArrivals
    /\ round \in Epochs \cup {None}
    /\ DOMAIN store \subseteq 1..MaxArrivals /\ DOMAIN cache \subseteq 1..MaxArrivals
    /\ \A id \in DOMAIN store : store[id] \in Attestations
    /\ IsInjective(store)
    /\ rows \in [Validators -> [records : [Cells -> 0..MaxArrivals],
                                max_target : Epochs \cup {None},
                                current_epoch : Epochs \cup {None},
                                min : [Cells -> 0..MaxDistance],
                                max : [Cells -> 0..MaxDistance]]]
    /\ proposers \subseteq Blocks
    /\ slashings \subseteq found
    /\ processed \subseteq Attestations \cup Blocks
    /\ failed \in BOOLEAN

Init ==
    /\ clock = 0
    /\ queue = {} /\ blocks = {} /\ arrivals = 0
    /\ round = None
    /\ store = <<>> /\ cache = <<>>
    /\ rows = [v \in Validators |-> NewRow]
    /\ proposers = {}
    /\ slashings = {} /\ found = {} /\ processed = {} /\ failed = FALSE

-----------------------------------------------------------------------------
(* Epochs saturate at zero. *)
Monus(a, b) == IF a < b THEN 0 ELSE a - b

chunk_index(e) == (e % HistoryLength) \div ChunkSize
validator_chunk_index(v) == v \div ValidatorChunkSize

Target(cells, e) == e + cells[e % HistoryLength]

(* The attestation data, which its hash stands for. *)
Data(a) == [source |-> a.source, target |-> a.target, root |-> a.root]

IsDoubleVote(a, b) == Data(a) # Data(b) /\ a.target = b.target
Surrounds(a, b) == a.source < b.source /\ b.target < a.target

-----------------------------------------------------------------------------
(***************************************************************************)
(* The attesters database.                                                 *)
(***************************************************************************)
get_attester_record(row, target) ==
    IF target > row.max_target THEN Null ELSE row.records[target % HistoryLength]

update_attester_max_target_KeepsSkipped(row, target) ==
    [row EXCEPT !.max_target = Max({@, target})]

(* The entries between two maximum targets are still those of one history  *)
(* length earlier.                                                         *)
update_attester_max_target(row, target) ==
    LET start == IF row.max_target + 1 < target + 1 - HistoryLength
                 THEN target + 1 - HistoryLength
                 ELSE row.max_target + 1
        skipped == {e % HistoryLength : e \in start..(target - 1)}
    IN  IF target <= row.max_target THEN row
        ELSE [row EXCEPT !.max_target = target,
                         !.records = [i \in Cells |-> IF row.max_target # None /\ i \in skipped
                                                      THEN Null ELSE @[i]]]

(* The surrounding attestation must come first in a slashing. *)
into_slashing_ExistingFirst(status, existing, new) == <<existing, new>>
into_slashing(status, existing, new) ==
    IF status = "SurroundsExisting" THEN <<new, existing>> ELSE <<existing, new>>

NothingFound(row) == [row |-> row, found |-> {}, error |-> FALSE]
Failure(row) == [row |-> row, found |-> {}, error |-> TRUE]

check_and_update_attester_record(row, att, id, db, roots) ==
    LET existing == get_attester_record(row, att.target)
        root == IF existing \in DOMAIN roots THEN roots[existing] ELSE Data(db[existing])
    IN  CASE existing = Null ->
               NothingFound([update_attester_max_target(row, att.target)
                                EXCEPT !.records[att.target % HistoryLength] = id])
          [] existing = id -> NothingFound(row)
          [] existing \notin {Null, id} ->
               IF existing \notin DOMAIN roots \cup DOMAIN db THEN Failure(row)
               ELSE IF root = Data(att) THEN NothingFound(row)
               ELSE IF existing \in DOMAIN db /\ IsDoubleVote(att, db[existing])
               THEN [NothingFound(row) EXCEPT !.found = {into_slashing("DoubleVote", db[existing], att)}]
               ELSE Failure(row)

-----------------------------------------------------------------------------
(***************************************************************************)
(* The target arrays.  An update stops at the first cell that it does not  *)
(* improve, since the cells beyond it are as good.                         *)
(***************************************************************************)
SetTargets(cells, epochs, target) ==
    [i \in Cells |-> IF \E e \in epochs : e % HistoryLength = i
                     THEN target - (CHOOSE e \in epochs : e % HistoryLength = i)
                     ELSE cells[i]]

TooFar(target, e) == target - e >= MaxDistance

MinUpdate(cells, start, target, current) ==
    LET min_epoch == Monus(current, HistoryLength - 1)
        Ends(e) == \/ e < min_epoch
                   \/ chunk_index(e) # chunk_index(start)
                   \/ target >= Target(cells, e)
        end == CHOOSE e \in -1..start : /\ e = -1 \/ Ends(e)
                                        /\ \A x \in (e + 1)..start : ~Ends(x)
        improved == (end + 1)..start
    IN  [cells |-> SetTargets(cells, improved, target),
         error |-> \E e \in improved : TooFar(target, e),
         keep_going |-> end >= min_epoch /\ chunk_index(end) # chunk_index(start)]

MaxUpdate(cells, start, target, current) ==
    LET Ends(e) == \/ e > current
                   \/ chunk_index(e) # chunk_index(start)
                   \/ target <= Target(cells, e)
        end == CHOOSE e \in start..Max({start, current + 1}) :
                   Ends(e) /\ \A x \in start..(e - 1) : ~Ends(x)
        improved == start..(end - 1)
    IN  [cells |-> SetTargets(cells, improved, target),
         error |-> \E e \in improved : TooFar(target, e),
         keep_going |-> end <= current /\ chunk_index(end) # chunk_index(start)]

(* The last epoch of the previous chunk, the first of the next. *)
MinNextStart(start) == (start \div ChunkSize) * ChunkSize - 1
MaxNextStart_SkipsAChunk(start) == (start \div ChunkSize + 2) * ChunkSize
MaxNextStart(start) == (start \div ChunkSize + 1) * ChunkSize

RECURSIVE MinUpdates(_, _, _, _)
MinUpdates(cells, start, target, current) ==
    LET u == MinUpdate(cells, start, target, current)
    IN  IF u.keep_going /\ ~u.error
        THEN MinUpdates(u.cells, MinNextStart(start), target, current) ELSE u

RECURSIVE MaxUpdates(_, _, _, _)
MaxUpdates(cells, start, target, current) ==
    LET u == MaxUpdate(cells, start, target, current)
    IN  IF u.keep_going /\ ~u.error
        THEN MaxUpdates(u.cells, MaxNextStart(start), target, current) ELSE u

(* The attestation that an array refers to, by its target. *)
get_attestation_for_validator(row, target, db) ==
    LET id == get_attester_record(row, target)
    IN  IF id \in DOMAIN db THEN {db[id]} ELSE {}

(***************************************************************************)
(* apply_attestation_for_validator, for either array: the check, then the  *)
(* update unless something slashable was found.                            *)
(***************************************************************************)
ApplyMin(row, att, current, db) ==
    LET least == Target(row.min, att.source)
        existing == get_attestation_for_validator(row, least, db)
        u == MinUpdates(row.min, att.source - 1, att.target, current)
    IN  IF att.target > least
        THEN IF existing = {} THEN Failure(row)
             ELSE [NothingFound(row) EXCEPT
                     !.found = {into_slashing("SurroundsExisting", e, att) :
                                    e \in {x \in existing : att.source < x.source}}]
        ELSE IF att.source > Monus(current, HistoryLength)
        THEN [NothingFound([row EXCEPT !.min = u.cells]) EXCEPT !.error = u.error]
        ELSE NothingFound(row)

ApplyMax(row, att, current, db) ==
    LET greatest == Target(row.max, att.source)
        existing == get_attestation_for_validator(row, greatest, db)
        u == MaxUpdates(row.max, att.source + 1, att.target, current)
    IN  IF att.target < greatest
        THEN IF existing = {} THEN Failure(row)
             ELSE [NothingFound(row) EXCEPT
                     !.found = {into_slashing("SurroundedByExisting", e, att) :
                                    e \in {x \in existing : x.source < att.source}}]
        ELSE IF att.source < current
        THEN [NothingFound([row EXCEPT !.max = u.cells]) EXCEPT !.error = u.error]
        ELSE NothingFound(row)

epoch_update_for_validator_NotCurrent(cells, previous, current, neutral) ==
    LET passed == {e % HistoryLength : e \in previous..(current - 1)}
    IN  IF previous = None THEN cells
        ELSE [i \in Cells |-> IF i \in passed THEN neutral ELSE cells[i]]

(* The cells of the epochs since the last update start from the neutral    *)
(* element; until now they were those of one history length earlier.       *)
epoch_update_for_validator(cells, previous, current, neutral) ==
    LET passed == {e % HistoryLength : e \in previous..current}
    IN  IF previous = None THEN cells
        ELSE [i \in Cells |-> IF i \in passed THEN neutral ELSE cells[i]]

(* For one validator, whose cells no other validator's touch. *)
update_array(array, row, atts, current, db) ==
    LET Apply(r, att) == IF array = "min" THEN ApplyMin(r, att, current, db)
                                          ELSE ApplyMax(r, att, current, db)
    IN  FoldLeft(LAMBDA r, att :
                    IF r.error THEN r
                    ELSE LET next == Apply(r.row, att)
                         IN  [next EXCEPT !.found = @ \cup r.found],
                 NothingFound(row), atts)

(* Both arrays, the minimum first, and the current epoch. *)
UpdateValidator(row, atts, current, db) ==
    LET Passed(cells, neutral) ==
            epoch_update_for_validator(cells, row.current_epoch, current, neutral)
        low == update_array("min", [row EXCEPT !.min = Passed(@, MaxDistance)], atts, current, db)
        high == update_array("max", [low.row EXCEPT !.max = Passed(@, 0)], atts, current, db)
    IN  [row |-> [high.row EXCEPT !.current_epoch = current],
         found |-> low.found \cup high.found,
         error |-> low.error \/ high.error]

-----------------------------------------------------------------------------
(***************************************************************************)
(* Processing the queued attestations.  The transaction t carries the      *)
(* tables it writes, the cache and slashings that outlive it if it fails,  *)
(* and the trail of those two, from which a failure takes a point.         *)
(***************************************************************************)
Begin(primed, slashed) ==
    [store |-> store, cache |-> primed, rows |-> rows, found |-> slashed, error |-> FALSE,
     trail |-> {[cache |-> primed, found |-> slashed]}]

Mark(t) == [t EXCEPT !.trail = @ \cup {[cache |-> t.cache, found |-> t.found]}]

(* validate: what is neither kept nor deferred is dropped. *)
Relevant(att, current) == att.source <= att.target /\ att.source + HistoryLength > current
Keep(att, current) == Relevant(att, current) /\ att.target <= current
Defer(att, current) == Relevant(att, current) /\ att.target > current

(* De-duplication (AttestationBatch::queue): of the attestations of a      *)
(* validator to the same data, the first of those with most attesters.     *)
Winner(v, data, snapshot) ==
    LET same == {i \in DOMAIN snapshot : v \in snapshot[i].attesters /\ Data(snapshot[i]) = data}
        Size(i) == Cardinality(snapshot[i].attesters)
    IN  snapshot[CHOOSE i \in same : \A j \in same : Size(j) < Size(i) \/ (Size(j) = Size(i) /\ i <= j)]

Voted(v, snapshot) == {Data(att) : att \in {a \in ToSet(snapshot) : v \in a.attesters}}

store_indexed_attestation_Again(t, att) ==
    LET id == Max(DOMAIN t.store \cup {0}) + 1
    IN  Mark([t EXCEPT !.store = (id :> att) @@ @, !.cache = (id :> Data(att)) @@ @])

store_indexed_attestation(t, att) ==
    LET known == {id \in DOMAIN t.store : t.store[id] = att}
        id == IF known # {} THEN CHOOSE i \in known : TRUE ELSE Max(DOMAIN t.store \cup {0}) + 1
    IN  Mark([t EXCEPT !.store = (id :> att) @@ @, !.cache = (id :> Data(att)) @@ @])

IdOf(t, att) == CHOOSE id \in DOMAIN t.store : t.store[id] = att

(* A validator chunk's attestations by validator, then by data hash, which *)
(* orders the data arbitrarily.                                            *)
Subqueue(chunk, snapshot, hashes) ==
    LET members == SetToSortSeq({v \in Validators : validator_chunk_index(v) = chunk}, <)
        Of(v) == LET voted == SelectSeq(hashes, LAMBDA d : d \in Voted(v, snapshot))
                 IN  [i \in DOMAIN voted |-> Winner(v, voted[i], snapshot)]
    IN  FlattenSeq([i \in DOMAIN members |-> Of(members[i])])

attesting_validators_in_chunk(att, chunk) ==
    {v \in att.attesters : validator_chunk_index(v) = chunk}

(* get_attestation_data_root caches the data of what it had to load. *)
Loaded(roots, ids, db) == roots @@ [i \in ids \cap DOMAIN db |-> Data(db[i])]

check_double_votes(t, att, chunk) ==
    LET voters == attesting_validators_in_chunk(att, chunk)
        id == IdOf(t, att)
        r == [v \in voters |->
                 check_and_update_attester_record(t.rows[v], att, id, t.store, t.cache)]
        read == {get_attester_record(t.rows[v], att.target) : v \in voters} \ {Null, id}
    IN  IF t.error THEN t
        ELSE IF \E v \in voters : r[v].error THEN [t EXCEPT !.error = TRUE]
        ELSE Mark([t EXCEPT !.rows = [v \in Validators |-> IF v \in voters THEN r[v].row ELSE @[v]],
                            !.cache = Loaded(@, read, t.store),
                            !.found = @ \cup UNION {r[v].found : v \in voters}])

update(t, chunk, subqueue, current) ==
    LET members == {v \in Validators : validator_chunk_index(v) = chunk}
        columns == [c \in 1..(HistoryLength \div ChunkSize) |->
                       SelectSeq(subqueue, LAMBDA att : chunk_index(att.source) = c - 1)]
        Of(v) == SelectSeq(FlattenSeq(columns), LAMBDA att : v \in att.attesters)
        r == [v \in members |-> UpdateValidator(t.rows[v], Of(v), current, t.store)]
    IN  IF t.error THEN t
        ELSE IF \E v \in members : r[v].error THEN [t EXCEPT !.error = TRUE]
        ELSE Mark([t EXCEPT !.rows = [v \in Validators |-> IF v \in members THEN r[v].row ELSE @[v]],
                            !.found = @ \cup UNION {r[v].found : v \in members}])

process_batch(t, chunk, subqueue, current) ==
    update(FoldLeft(LAMBDA u, att : check_double_votes(u, att, chunk), t, subqueue),
           chunk, subqueue, current)

(* The chunks up to the greatest that has an attestation take part. *)
process_attestations(t, snapshot, hashes, current) ==
    LET voters == UNION {att.attesters : att \in ToSet(snapshot)}
        kept == UNION {{Winner(v, d, snapshot) : d \in Voted(v, snapshot)} : v \in voters}
        stored == FoldLeft(store_indexed_attestation, t,
                           SelectSeq(snapshot, LAMBDA att : att \in kept))
        chunks == IF voters = {} THEN <<>>
                  ELSE [i \in 1..(validator_chunk_index(Max(voters)) + 1) |-> i - 1]
    IN  FoldLeft(LAMBDA u, chunk : process_batch(u, chunk, Subqueue(chunk, snapshot, hashes), current),
                 stored, chunks)

-----------------------------------------------------------------------------
(***************************************************************************)
(* Blocks.                                                                 *)
(***************************************************************************)
SameProposal(b, c) == b.proposer = c.proposer /\ b.slot = c.slot

check_or_insert_block_proposal(p, block) ==
    LET existing == {b \in p.proposers : SameProposal(b, block)}
    IN  IF existing = {} THEN [p EXCEPT !.proposers = @ \cup {block}]
        ELSE [p EXCEPT !.found = @ \cup {<<b, block>> : b \in existing \ {block}}]

process_blocks(order) ==
    FoldLeft(check_or_insert_block_proposal, [proposers |-> proposers, found |-> {}], order)

-----------------------------------------------------------------------------
(***************************************************************************)
(* The actions.                                                            *)
(***************************************************************************)
accept_attestation ==
    /\ arrivals < MaxArrivals
    /\ \E att \in Attestations : queue' = queue \cup {att}
    /\ arrivals' = arrivals + 1
    /\ UNCHANGED <<clock, blocks, round, store, cache, rows, proposers, slashings, found,
                   processed, failed>>

accept_block_header ==
    /\ arrivals < MaxArrivals
    /\ \E block \in Blocks : blocks' = blocks \cup {block}
    /\ arrivals' = arrivals + 1
    /\ UNCHANGED <<clock, queue, round, store, cache, rows, proposers, slashings, found,
                   processed, failed>>

Tick ==
    /\ clock < MaxEpoch
    /\ clock' = clock + 1
    /\ UNCHANGED <<queue, blocks, arrivals, round, store, cache, rows, proposers, slashings,
                   found, processed, failed>>

(* What a failed transaction leaves: the queues it took from, and what it  *)
(* put in memory up to some point.                                         *)
AbortAfter(point) ==
    /\ cache' = point.cache
    /\ slashings' = slashings \cup point.found
    /\ found' = found \cup point.found
    /\ UNCHANGED <<store, rows, proposers, processed>>

Commit(t, p, batch) ==
    /\ store' = t.store /\ cache' = t.cache /\ rows' = t.rows
    /\ proposers' = p.proposers
    /\ slashings' = slashings \cup t.found
    /\ found' = found \cup t.found
    /\ processed' = processed \cup batch

(* The processor's round, at the epoch it was notified of (a notification  *)
(* that waited is a tick that comes later).  The vector's order and the    *)
(* hashes are arbitrary.  What a failed round had taken from the queues,   *)
(* except the deferred attestations, is lost.                              *)
process_queued ==
    /\ round = None
    /\ round' = clock
    /\ \/ \E snapshot \in SetToSeqs({a \in queue : Keep(a, clock)}), order \in SetToSeqs(blocks) :
          \E hashes \in SetToSeqs({Data(a) : a \in ToSet(snapshot)}) :
          \E p \in {process_blocks(order)} :
          \E t \in {process_attestations(Begin(cache, p.found), snapshot, hashes, clock)} :
             /\ queue' = {a \in queue : Defer(a, clock)} /\ blocks' = {}
             /\ failed' = (failed \/ t.error)
             /\ \/ ~t.error /\ Commit(t, p, ToSet(snapshot) \cup blocks)
                \/ \E point \in t.trail : AbortAfter(point)
       \/ /\ AbortAfter([cache |-> cache, found |-> {}])
          /\ blocks' \in {blocks, {}}
          /\ UNCHANGED <<queue, failed>>
    /\ UNCHANGED <<clock, arrivals>>

(* The first epoch that pruning leaves. *)
PruneBefore_OneTooMany(current) == Monus(current + 2, HistoryLength)
PruneBefore(current) == Monus(current + 1, HistoryLength)

(* The slashings found are taken and given to the beacon chain. *)
process_slashings == slashings' = {}

(* The rest of the round.  Pruning drops the cached roots before the       *)
(* entries go with the commit, so that a prune that fails has dropped them *)
(* or not; the slashings are handed over only if it succeeds.              *)
(* A restart between the two is one before this step, and a round with     *)
(* nothing to process.                                                     *)
prune_database ==
    LET min_epoch == PruneBefore(round)
        old == {id \in DOMAIN store : store[id].target < min_epoch}
        left == [id \in DOMAIN cache \ old |-> cache[id]]
    IN  /\ round # None
        /\ round' = None
        /\ \/ /\ cache' = left
              /\ store' = [id \in DOMAIN store \ old |-> store[id]]
              /\ proposers' = {b \in proposers : b.slot >= min_epoch * SlotsPerEpoch}
              /\ process_slashings
           \/ cache' \in {cache, left} /\ UNCHANGED <<store, proposers, slashings>>
        /\ UNCHANGED <<clock, queue, blocks, arrivals, rows, found, processed, failed>>

(* The process stops and opens the database again. *)
Restart ==
    /\ queue' = {} /\ blocks' = {} /\ cache' = <<>> /\ slashings' = {}
    /\ round' = None
    /\ UNCHANGED <<clock, arrivals, store, rows, proposers, found, processed, failed>>

Next ==
    \/ accept_attestation
    \/ accept_block_header
    \/ Tick
    \/ process_queued
    \/ prune_database
    \/ Restart

Spec == Init /\ [][Next]_vars

-----------------------------------------------------------------------------
(***************************************************************************)
(* Properties.                                                             *)
(***************************************************************************)
Votes(v) == {a \in processed \cap Attestations : v \in a.attesters}

CaughtBy(v, pair) ==
    /\ {pair[1], pair[2]} \subseteq Attestations
    /\ v \in pair[1].attesters \cap pair[2].attesters

Caught(v) == \E pair \in found : CaughtBy(v, pair)

(* A validator with two slashable attestations among those processed       *)
(* (process_queued) is in a slashing that was found, in whatever order,    *)
(* rounds and epochs they came, whatever else the validator voted, however *)
(* far the window moved in between, and whatever failed.                   *)
SlashableIsCaught ==
    \A v \in Validators : \A a, b \in Votes(v) :
        IsDoubleVote(a, b) \/ Surrounds(a, b) => Caught(v)

(* Every slashing found (into_slashing) is one that the beacon chain       *)
(* accepts: two different blocks of a proposer for a slot, or attestations *)
(* with a common attester, the first surrounding the second or both with   *)
(* the same target.                                                        *)
SlashingsAreValid ==
    \A pair \in found :
        \/ /\ {pair[1], pair[2]} \subseteq Blocks
           /\ pair[1] # pair[2] /\ SameProposal(pair[1], pair[2])
        \/ /\ \E v \in Validators : CaughtBy(v, pair)
           /\ IsDoubleVote(pair[1], pair[2]) \/ Surrounds(pair[1], pair[2])

(* process_queued never meets a state that it holds for inconsistent: a    *)
(* target in an array without a record of the validator, a record whose    *)
(* attestation is gone or of another target, a cached root of another      *)
(* attestation, a distance too large to store.                             *)
NeverFails == ~failed

(* Two different blocks of a proposer for the same slot that were both     *)
(* processed give a proposer slashing, unless pruning (prune_proposers)    *)
(* may have removed the first.                                             *)
DoubleProposalIsCaught ==
    \A b, c \in processed \cap Blocks :
        b # c /\ SameProposal(b, c) /\ b.slot >= Monus(clock + 1, HistoryLength) * SlotsPerEpoch
        => \E pair \in found : {pair[1], pair[2]} \subseteq Blocks /\ SameProposal(pair[1], b)

(* The arrays of a validator who is not caught say what they are for:      *)
(* within the history before its current epoch, the least target of the    *)
(* votes with a later source and the greatest of those with an earlier     *)
(* source, although an update stops at the first cell it does not improve  *)
(* (MinTargetChunk::update, MaxTargetChunk::update) and the cells are      *)
(* reused.                                                                 *)
ArraysMatchHistory ==
    \A v \in {x \in Validators : ~Caught(x) /\ rows[x].current_epoch # None} :
        LET current == rows[v].current_epoch
        IN  \A e \in Monus(current + 1, HistoryLength)..current :
                /\ Target(rows[v].min, e) =
                       Min({a.target : a \in {x \in Votes(v) : x.source > e}} \cup {e + MaxDistance})
                /\ Target(rows[v].max, e) =
                       Max({a.target : a \in {x \in Votes(v) : x.source < e}} \cup {e})

=============================================================================
