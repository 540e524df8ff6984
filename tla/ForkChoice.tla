----------------------------- MODULE ForkChoice -----------------------------
(***************************************************************************)
(* The fork choice of the beacon node (consensus/fork_choice over          *)
(* consensus/proto_array, with the store of beacon_chain), before Gloas.   *)
(* The beacon chain calls it from several threads under one lock, so one   *)
(* action is one call.  Blocks, attestations, slashings, answers of the    *)
(* execution engine, recomputations of the head, pruning and restarts come *)
(* in any order.  `now` is the slot the caller read from the slot clock.   *)
(***************************************************************************)
EXTENDS ProtoArray

CONSTANTS
    Anchor,             \* the root of the anchor block
    AnchorStatus,       \* its execution status: "Valid" or "Irrelevant"
    BalancesAt,         \* root of a checkpoint -> the balances of its state
    ValidPayloads,      \* the blocks whose payload the execution engine accepts
    ImportStatuses,     \* {"Valid"}, and "Optimistic" if the engine may be syncing
    UnknownHash,        \* a payload hash that no block has
    Attestations,       \* the attestations that may arrive
    Slashable,          \* validators an attester slashing may be about
    MaxStaleRestarts,   \* bound: restarts from weights that are behind (StaleWeights)
    MaxSlot,            \* bound: the last slot of the clock
    MaxQueue            \* bound: the length of the attestation queue

VARIABLES
    proto_array,        \* ProtoArrayForkChoice: [pa, votes, balances]
    store,              \* BeaconForkChoiceStore
    queued_attestations,
    head,               \* the answer of get_head, while nothing else was called
    stale_restarts      \* history: the restarts from weights that were behind

vars == <<proto_array, store, queued_attestations, head, stale_restarts>>

\* The blocks from root back to its first ancestor: the smallest set with root that holds
\* the parent of each of its blocks.
Chain(root) ==
    {a \in Roots : \A S \in SUBSET Roots :
        (root \in S /\ \A r \in S : Block[r].parent \in S \cup {ZeroHash}) => a \in S}

AnchorCheckpoint == [epoch |-> EpochOf(Block[Anchor].slot), root |-> Anchor]
FinalizedCheckpoints ==
    {AnchorCheckpoint} \cup {Block[r].finalized : r \in Roots}
                       \cup {Block[r].unrealized_finalized : r \in Roots}
JustifiedCheckpoints ==
    {AnchorCheckpoint} \cup {Block[r].justified : r \in Roots}
                       \cup {Block[r].unrealized_justified : r \in Roots}

ASSUME InputsAssumption ==
    /\ Anchor \in Roots
    /\ AnchorStatus \in {"Valid", "Irrelevant"}
    /\ BalancesAt \in [Roots -> Seq(Nat)]
    /\ ImportStatuses \subseteq {"Valid", "Optimistic"}
    /\ UnknownHash \notin Roots \cup {ZeroHash}
    /\ \A att \in Attestations : /\ att.slot \in Nat
                                 /\ att.root \in Roots
                                 /\ att.target \in Checkpoints
    /\ Slashable \subseteq Validators
    /\ MaxSlot \in Nat /\ Block[Anchor].slot <= MaxSlot
    /\ MaxQueue \in Nat
    /\ MaxStaleRestarts \in Nat

\* The execution engine accepts the payload of the anchor, and no payload behind one that
\* it does not accept.
ASSUME PayloadsAssumption ==
    /\ ValidPayloads \subseteq Roots
    /\ Anchor \in ValidPayloads
    /\ \A r \in ValidPayloads : Block[r].parent \in ValidPayloads \cup {ZeroHash}

\* What a state transition computes: the checkpoints of a block are before it on its own
\* chain, and nothing is finalized that is not justified.
ASSUME CheckpointsAssumption ==
    \A r \in Roots : LET b == Block[r] IN
        /\ b.finalized.epoch <= b.justified.epoch
        /\ b.unrealized_finalized.epoch <= b.unrealized_justified.epoch
        /\ b.parent # ZeroHash =>
            {b.justified.root, b.finalized.root, b.unrealized_justified.root,
             b.unrealized_finalized.root} \subseteq Chain(b.parent)

\* Less than a third of the stake is slashable: what is justified as late as a finalized
\* checkpoint, or later, is behind it.
ASSUME AccountableSafety ==
    \A f \in FinalizedCheckpoints, c \in FinalizedCheckpoints \cup JustifiedCheckpoints :
        c.epoch >= f.epoch => f.root \in Chain(c.root)

NoHead == [root |-> ZeroHash, error |-> "Stale"]
NoVote == [current |-> ZeroHash, next |-> ZeroHash, next_epoch |-> 0]
Nodes == proto_array.pa.nodes
Known(root) == IndexOf(Nodes, root) # NoIndex

-----------------------------------------------------------------------------
(***************************************************************************)
(* ProtoArrayForkChoice                                                    *)
(***************************************************************************)

\* A mutant: the balances of the last call are never replaced.
maybe_update_balances_Never(old, new) == old

\* Balances are replaced when one of three figures differs.
maybe_update_balances(old, new) ==
    IF \/ Len(old) # Len(new)
       \/ TotalBalance(old) # TotalBalance(new)
       \/ NumActive(old) # NumActive(new)
    THEN new ELSE old

\* ProtoArrayForkChoice::find_head for a store.  A failed apply_score_changes leaves the
\* votes moved and the balances as they were.
FindHead(proto, st) ==
    LET new == BalancesAt[st.justified.root]
        deltas == compute_deltas(proto.pa.nodes, proto.votes, proto.balances, new,
                                 st.equivocating)
        found(scored) ==
            [proto |-> [pa |-> scored.pa,
                        votes |-> VotesApplied(proto.votes, st.equivocating),
                        balances |-> IF scored.ok
                                     THEN maybe_update_balances(proto.balances, new)
                                     ELSE proto.balances],
             head |-> IF scored.ok THEN find_head(scored.pa, st.justified.root, st.time)
                      ELSE [root |-> ZeroHash, error |-> "DeltaOverflow"]]
    IN  found(apply_score_changes(proto.pa, deltas, st.justified, st.finalized, new,
                                  st.proposer_boost_root, st.time))

process_attestation(votes, att) ==
    [v \in Validators |->
        IF /\ v \in att.indices
           /\ att.target.epoch > votes[v].next_epoch \/ votes[v] = NoVote
        THEN [votes[v] EXCEPT !.next = att.root, !.next_epoch = att.target.epoch]
        ELSE votes[v]]

-----------------------------------------------------------------------------
(***************************************************************************)
(* Time and checkpoints                                                    *)
(***************************************************************************)

\* A mutant: older checkpoints are taken too.
update_checkpoints_AnyEpoch(st, justified, finalized) ==
    [st EXCEPT !.justified = justified, !.finalized = finalized]

\* A mutant: the justified checkpoint is left behind.
update_checkpoints_FinalizedOnly(st, justified, finalized) ==
    [st EXCEPT !.finalized = IF finalized.epoch > @.epoch THEN finalized ELSE @]

update_checkpoints(st, justified, finalized) ==
    [st EXCEPT !.justified = IF justified.epoch > @.epoch THEN justified ELSE @,
               !.finalized = IF finalized.epoch > @.epoch THEN finalized ELSE @]

\* on_tick for every slot up to `now`.  The unrealized checkpoints do not change on the
\* way, so one pull-up stands for those of all the epochs that start.
on_ticks(st, now) ==
    LET ticked == [st EXCEPT !.time = now, !.proposer_boost_root = ZeroHash]
    IN  IF now <= st.time THEN st
        ELSE IF EpochOf(now) > EpochOf(st.time)
             THEN update_checkpoints(ticked, st.unrealized_justified, st.unrealized_finalized)
             ELSE ticked

\* A mutant: an attestation waits one slot too long.
Eligible_OffByOne(queue, time) ==
    LET late == {k \in DOMAIN queue : queue[k].slot + 1 >= time}
    IN  IF late = {} THEN Len(queue) ELSE Min(late) - 1

\* The attestations before the first one that is not in the past.
Eligible(queue, time) ==
    LET late == {k \in DOMAIN queue : queue[k].slot >= time}
    IN  IF late = {} THEN Len(queue) ELSE Min(late) - 1

\* update_time: the ticks, then the attestation queue.
update_time(now) ==
    LET st == on_ticks(store, now)
        n == Eligible(queued_attestations, st.time)
        applied[k \in 0..n] ==
            IF k = 0 THEN proto_array.votes
            ELSE process_attestation(applied[k - 1], queued_attestations[k])
    IN  [store |-> st,
         queue |-> SubSeq(queued_attestations, n + 1, Len(queued_attestations)),
         votes |-> applied[n]]

\* What every call that reads the clock may read: not later than the bound.
Clock == store.time..MaxSlot

-----------------------------------------------------------------------------
(***************************************************************************)
(* Calls                                                                   *)
(***************************************************************************)

\* from_anchor: get_head is called once, on the anchor alone, with no balances yet.
Init ==
    LET anchor == AnchorCheckpoint
        st == [time |-> Block[Anchor].slot,
               justified |-> anchor, finalized |-> anchor,
               unrealized_justified |-> anchor, unrealized_finalized |-> anchor,
               proposer_boost_root |-> ZeroHash, equivocating |-> {}]
        empty == [nodes |-> <<>>, justified |-> anchor, finalized |-> anchor,
                  previous_boost |-> [root |-> ZeroHash, score |-> 0]]
        found == FindHead([pa |-> on_block(empty, Anchor, AnchorStatus, st.time),
                           votes |-> [v \in Validators |-> NoVote],
                           balances |-> <<>>], st)
    IN  /\ store = st
        /\ proto_array = found.proto
        /\ queued_attestations = <<>>
        /\ head = found.head
        /\ stale_restarts = 0

HeadFound(found) ==
    /\ proto_array' = found.proto
    /\ head' = found.head

get_head(now) ==
    LET t == update_time(now)
    IN  /\ store' = t.store
        /\ queued_attestations' = t.queue
        /\ HeadFound(FindHead([proto_array EXCEPT !.votes = t.votes], t.store))
        /\ UNCHANGED stale_restarts

\* The checks of on_block, in the store st.
BlockIsAcceptable(root, st) ==
    LET b == Block[root]
        finalized_slot == StartSlot(st.finalized.epoch)
    IN  /\ Known(b.parent)
        /\ b.slot <= st.time
        /\ b.slot > finalized_slot
        /\ AncestorAt(Nodes, IndexOf(Nodes, b.parent), finalized_slot) = st.finalized.root

\* The store after an accepted block: the boost, the checkpoints of its state, the
\* unrealized ones, and these pulled up at once for a block of a past epoch.
StoreAfterBlock(root, st, timely) ==
    LET b == Block[root]
        boosted == [st EXCEPT !.proposer_boost_root =
                        IF timely /\ b.slot = st.time /\ @ = ZeroHash THEN root ELSE @]
        realized == update_checkpoints(boosted, b.justified, b.finalized)
        seen == [realized EXCEPT
                    !.unrealized_justified = IF b.unrealized_justified.epoch > @.epoch
                                             THEN b.unrealized_justified ELSE @,
                    !.unrealized_finalized = IF b.unrealized_finalized.epoch > @.epoch
                                             THEN b.unrealized_finalized ELSE @]
    IN  IF EpochOf(b.slot) < EpochOf(st.time)
        THEN update_checkpoints(seen, b.unrealized_justified, b.unrealized_finalized)
        ELSE seen

\* A known block is ignored.  `timely` stands for a block before the attestation deadline
\* from the expected proposer.  A block with an invalid parent is refused by the tree
\* after the store was written.
OnBlock(root, now, timely, status) ==
    LET t == update_time(now)
        accepted == BlockIsAcceptable(root, t.store)
    IN  /\ ~Known(root)
        /\ status = "Valid" => root \in ValidPayloads
        /\ store' = IF accepted THEN StoreAfterBlock(root, t.store, timely) ELSE t.store
        /\ queued_attestations' = t.queue
        /\ proto_array' =
            [proto_array EXCEPT
                !.votes = t.votes,
                !.pa = IF accepted /\ ~ParentIsInvalid(@, root)
                       THEN on_block(@, root, status, t.store.time) ELSE @]
        /\ head' = NoHead
        /\ UNCHANGED stale_restarts

\* The checks of validate_on_attestation at a time.
AttestationIsValid(att, time, fromBlock) ==
    LET b == Block[att.root]
    IN  /\ fromBlock \/ EpochOf(time) \in {att.target.epoch, att.target.epoch + 1}
        /\ att.target.epoch = EpochOf(att.slot)
        /\ Known(att.target.root)
        /\ Known(att.root)
        /\ att.target.root = IF att.target.epoch > EpochOf(b.slot) THEN att.root ELSE b.target
        /\ b.slot <= att.slot

\* An attestation comes in a block of a later slot, or from the network, where its slot
\* may be ahead of the clock by one (the gossip clock disparity).
OnAttestation(att, now, fromBlock) ==
    LET t == update_time(now)
        valid == AttestationIsValid(att, t.store.time, fromBlock)
        past == att.slot < t.store.time
    IN  /\ att.slot <= IF fromBlock THEN now - 1 ELSE now + 1
        /\ store' = t.store
        /\ queued_attestations' =
                IF valid /\ ~past THEN Append(t.queue, att) ELSE t.queue
        /\ Len(queued_attestations') <= MaxQueue
        /\ proto_array' = [proto_array EXCEPT !.votes =
                IF valid /\ past THEN process_attestation(t.votes, att) ELSE t.votes]
        /\ head' = NoHead
        /\ UNCHANGED stale_restarts

OnAttesterSlashing(v) ==
    /\ store' = [store EXCEPT !.equivocating = @ \cup {v}]
    /\ head' = NoHead
    /\ UNCHANGED <<proto_array, queued_attestations, stale_restarts>>

OnValidExecutionPayload(root) ==
    /\ Known(root)
    /\ root \in ValidPayloads
    /\ proto_array' = [proto_array EXCEPT
            !.pa = propagate_execution_payload_validation_by_index(@, IndexOf(Nodes, root))]
    /\ head' = NoHead
    /\ UNCHANGED <<store, queued_attestations, stale_restarts>>

\* The latest block up to root whose payload is valid.
LatestValid(root) ==
    LET valid == Chain(root) \cap ValidPayloads
    IN  IF valid = {} THEN UnknownHash
        ELSE CHOOSE r \in valid : \A s \in valid : Block[s].slot <= Block[r].slot

\* What an execution engine that answers consistently makes the beacon chain call:
\* InvalidateOne, InvalidateMany for a forkchoiceUpdated of an invalid head, and for the
\* newPayload of a block with an invalid payload InvalidateMany of its parent.
InvalidationOperations ==
    LET bad == Roots \ ValidPayloads
    IN  [root : bad, always : {TRUE}, lva : {ZeroHash, UnknownHash}]
        \cup {[root |-> r, always |-> TRUE, lva |-> LatestValid(r)] : r \in bad}
        \cup {[root |-> Block[r].parent, always |-> FALSE, lva |-> LatestValid(r)] : r \in bad}

OnInvalidExecutionPayload(op) ==
    /\ Known(op.root)
    /\ proto_array' = [proto_array EXCEPT
                            !.pa = propagate_execution_payload_invalidation(@, op)]
    /\ head' = NoHead
    /\ UNCHANGED <<store, queued_attestations, stale_restarts>>

prune ==
    /\ proto_array' = [proto_array EXCEPT !.pa = maybe_prune(@, store.finalized.root)]
    /\ proto_array' # proto_array
    /\ head' = NoHead
    /\ UNCHANGED <<store, queued_attestations, stale_restarts>>

\* Whether proto_array_from_persisted resets the statuses: if asked to, and always if a
\* payload is invalid.
Resets == IF contains_invalid_payloads(proto_array.pa) THEN {TRUE} ELSE BOOLEAN

\* proto_array_from_persisted: the balances are not persisted, those of the justified
\* state take their place.
FromPersisted(reset) ==
    LET loaded == [proto_array EXCEPT !.balances = BalancesAt[store.justified.root]]
    IN  IF reset
        THEN [loaded EXCEPT
                !.pa = set_all_blocks_to_optimistic(@, loaded.votes, loaded.balances)]
        ELSE loaded

\* from_persisted: get_head at the persisted time; if it fails, the statuses are reset and
\* it is called once more.  (The queue has nothing for it: the last call at that time took
\* what was eligible.)
AfterRestart(reset) ==
    LET optimistic(proto) == [proto EXCEPT
            !.pa = set_all_blocks_to_optimistic(@, proto.votes, proto.balances)]
        retried(one) == IF one.head.error = "None" THEN one
                        ELSE FindHead(optimistic(one.proto), store)
    IN  retried(FindHead(FromPersisted(reset), store))

\* get_head still has to correct the weights: they were computed with other balances than
\* those of the justified state, or a payload was invalidated and kept its weight.  The
\* first is forgotten by a restart (the balances are not persisted); of the second
\* set_all_blocks_to_optimistic assumes that it does not occur ("it would have been set to
\* `0` in `apply_score_changes`", proto_array_fork_choice.rs:963).
StaleWeights ==
    \/ proto_array.balances # BalancesAt[store.justified.root]
    \/ \E i \in DOMAIN Nodes : Nodes[i].execution_status = "Invalid" /\ Nodes[i].weight # 0

\* The process stops in any state and starts again from what it persisted.  Every persisted
\* state is one the fork choice was in, so starting from an older one is no other behaviour.
\* Restarts from StaleWeights may add a weight each time, so their number has a bound.
Restart(reset) ==
    /\ StaleWeights => stale_restarts < MaxStaleRestarts
    /\ stale_restarts' = IF StaleWeights THEN stale_restarts + 1 ELSE stale_restarts
    /\ HeadFound(AfterRestart(reset))
    /\ UNCHANGED <<store, queued_attestations>>

Next ==
    \/ \E now \in Clock : get_head(now)
    \/ \E root \in Roots, now \in Clock, timely \in BOOLEAN, status \in ImportStatuses :
            OnBlock(root, now, timely, status)
    \/ \E att \in Attestations, now \in Clock, fromBlock \in BOOLEAN :
            OnAttestation(att, now, fromBlock)
    \/ \E v \in Slashable : OnAttesterSlashing(v)
    \/ \E root \in Roots : OnValidExecutionPayload(root)
    \/ \E op \in InvalidationOperations : OnInvalidExecutionPayload(op)
    \/ prune
    \/ \E reset \in Resets : Restart(reset)

Spec == Init /\ [][Next]_vars

\* The slot timer calls get_head in every slot, so the store's clock goes on; weaker than
\* fairness of get_head itself.
FairSpec == Spec /\ WF_store(\E now \in Clock : store' = on_ticks(store, now))

-----------------------------------------------------------------------------
(***************************************************************************)
(* Reference definitions: the fork choice rule of the consensus            *)
(* specification, from the blocks and the votes alone.                     *)
(***************************************************************************)

Children(i) == {j \in DOMAIN Nodes : Nodes[j].parent = i}
Subtree(i) == {j \in DOMAIN Nodes : i \in iter_nodes(Nodes, j)}
IsInvalid(i) == Nodes[i].execution_status = "Invalid"
Counted(i) == {Nodes[j].root : j \in {k \in Subtree(i) : ~IsInvalid(k)}}

\* The weight of a node: the balances, in the justified state, of the validators that are
\* not known to equivocate and whose latest vote is for a block of its subtree, and the
\* boost if the boosted block is in it and is of the current slot.
GhostWeight(i) ==
    LET balances == BalancesAt[store.justified.root]
        boost == store.proposer_boost_root
    IN  MapThenSumSet(LAMBDA v : BalanceOf(balances, v),
                      {v \in Validators : /\ v \notin store.equivocating
                                          /\ proto_array.votes[v].next \in Counted(i)})
        + (IF boost \in Counted(i) /\ Block[boost].slot = store.time
           THEN calculate_committee_fraction(balances, ProposerScoreBoost) ELSE 0)

\* The block of the chain of root at a slot, and the filter of the specification.
BlockAt(root, slot) ==
    LET up[r \in Roots] == IF Block[r].slot <= slot \/ Block[r].parent = ZeroHash
                           THEN r ELSE up[Block[r].parent]
    IN  up[root]

Viable(i) ==
    LET b == Block[Nodes[i].root]
        now == EpochOf(store.time)
        source == IF now > EpochOf(b.slot) THEN b.unrealized_justified ELSE b.justified
    IN  /\ ~IsInvalid(i)
        /\ \/ store.justified.epoch = 0
           \/ source.epoch \in {store.justified.epoch} \cup (now - 2)..now
        /\ \/ store.finalized.epoch = 0
           \/ BlockAt(Nodes[i].root, StartSlot(store.finalized.epoch)) = store.finalized.root

LeadsToViable(i) == \E j \in Subtree(i) : Viable(j)

\* From the justified block down to the heaviest child that leads to a viable block.
GhostHead ==
    LET down[i \in DOMAIN Nodes] ==
            LET good == {j \in Children(i) : LeadsToViable(j)}
                best == CHOOSE j \in good : \A k \in good :
                            \/ GhostWeight(j) > GhostWeight(k)
                            \/ /\ GhostWeight(j) = GhostWeight(k)
                               /\ Nodes[j].root >= Nodes[k].root
            IN  IF good = {} THEN Nodes[i].root ELSE down[best]
    IN  down[IndexOf(Nodes, store.justified.root)]

-----------------------------------------------------------------------------
(***************************************************************************)
(* Properties                                                              *)
(***************************************************************************)

\* The types of the fork choice's state.
TypeOK ==
    /\ \A i \in DOMAIN Nodes :
        /\ Nodes[i].root \in Roots
        /\ {Nodes[i].parent, Nodes[i].best_child, Nodes[i].best_descendant} \subseteq 0..Len(Nodes)
        /\ Nodes[i].weight \in Nat
        /\ Nodes[i].execution_status \in Statuses
    /\ \A v \in Validators :
        {proto_array.votes[v].current, proto_array.votes[v].next} \subseteq Roots \cup {ZeroHash}
    /\ store.time \in 0..MaxSlot
    /\ {store.justified, store.finalized, store.unrealized_justified,
        store.unrealized_finalized} \subseteq Checkpoints
    /\ store.proposer_boost_root \in Roots \cup {ZeroHash}
    /\ store.equivocating \subseteq Validators
    /\ Len(queued_attestations) <= MaxQueue
    /\ stale_restarts \in 0..MaxStaleRestarts

\* The vector is a tree in topological order and its links stay inside it: a parent comes
\* before its children, the best child is a child and the best descendant a descendant.
\* Insertion, invalidation and pruning (maybe_prune moves every index) all keep it so.
TreeWellFormed ==
    \A i \in DOMAIN Nodes :
        LET n == Nodes[i]
        IN  /\ n.parent < i
            /\ n.parent # NoIndex => Nodes[n.parent].root = Block[n.root].parent
            /\ n.best_child # NoIndex => /\ n.best_child \in Children(i)
                                         /\ n.best_descendant # NoIndex
            /\ n.best_descendant # NoIndex => n.best_descendant \in Subtree(i) \ {i}

\* After get_head every weight is what the votes, the justified balances and the boost
\* say, whatever was added, moved, slashed or invalidated before, and after every restart,
\* with or without a reset of the statuses, but those from StaleWeights: the deltas of
\* compute_deltas and apply_score_changes, and the weights that
\* set_all_blocks_to_optimistic restores, lose and repeat nothing.  A restart from
\* StaleWeights does break it, for good: what is missing or counted twice stays so.
WeightsMatchVotes ==
    head # NoHead /\ stale_restarts = 0 =>
        \A i \in DOMAIN Nodes :
            Nodes[i].weight = IF IsInvalid(i) THEN 0 ELSE GhostWeight(i)

\* The head that get_head finds through the best_descendant links is the head of the fork
\* choice rule computed from scratch, as long as the weights are right (WeightsMatchVotes).
HeadIsGhost == head.error = "None" /\ stale_restarts = 0 => head.root = GhostHead

\* Payload statuses agree along the chains while the engine answers consistently: behind
\* an invalid payload everything is invalid, before a valid one nothing is in doubt.
StatusesPropagate ==
    \A i \in DOMAIN Nodes : LET p == Nodes[i].parent IN p # NoIndex =>
        /\ IsInvalid(p) => IsInvalid(i)
        /\ Nodes[i].execution_status = "Valid" =>
                Nodes[p].execution_status \in {"Valid", "Irrelevant"}

\* apply_score_changes never takes more from a node than its weight.
\* (proto_array.rs:278: "I can't think of any valid reason why `node_delta.abs()` should
\* be greater than `node.weight`").
NoDeltaOverflow == head.error # "DeltaOverflow"

\* The justified and the finalized block stay in the tree, the first behind the second:
\* pruning and late blocks never leave get_head without its starting point.
CheckpointsInTree ==
    is_descendant(proto_array.pa, store.finalized.root, store.justified.root)

\* The clock and the checkpoints of the store never go back, through ticks, late blocks,
\* pull-ups and restarts, and finality moves along one chain.
FinalityAdvances ==
    [][/\ store'.time >= store.time
       /\ store'.justified.epoch >= store.justified.epoch
       /\ store'.finalized.epoch >= store.finalized.epoch
       /\ store'.finalized # store.finalized =>
            is_descendant(proto_array.pa, store.finalized.root, store'.finalized.root)]_vars

\* A restart would find a head now, at the first or at the second call of get_head, however
\* stale the persisted links, weights and statuses are (fork_choice.rs:1947: "If the second
\* attempt at finding a head fails, return an error since we do not expect this scenario").
RestartFindsHead == \A reset \in Resets : AfterRestart(reset).head.error = "None"

\* Every queued attestation is applied after its slot: dequeue_attestations stops at the
\* first one that is not in the past, so it may come late, but it comes.
QueueDrains ==
    \A a \in Attestations :
        (a.slot < MaxSlot /\ a \in Range(queued_attestations)) ~> a \notin Range(queued_attestations)

\* get_head fails only when no block behind the justified one is viable
\* (fork_choice.rs:1932: "If a call to `get_head` fails, the only known cause is because
\* the only head with viable FFG properties is has an invalid payload").
FailsOnlyWithoutViableHead ==
    head.error = "InvalidBestNode" =>
        ~LeadsToViable(IndexOf(Nodes, store.justified.root))

=============================================================================
