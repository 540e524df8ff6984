----------------------------- MODULE ProtoArray -----------------------------
(***************************************************************************)
(* The block tree of the fork choice (consensus/proto_array), before       *)
(* Gloas.  The operators take and return the struct ProtoArray, a record   *)
(*                                                                         *)
(*   [nodes, justified, finalized, previous_boost]                         *)
(*                                                                         *)
(* where nodes is the vector of ProtoNode.  What never changes in a node   *)
(* (slot, parent root, target root, checkpoints) is looked up in the       *)
(* constant Block.  The map `indices` is IndexOf: the code writes it       *)
(* together with the vector.  Indices start at 1 and NoIndex is Rust's     *)
(* None; roots are positive numbers, ordered like the hashes are.  Every   *)
(* block that has a payload has one of its own, so the payload's hash is   *)
(* written as the root of the block.                                       *)
(***************************************************************************)
EXTENDS Integers, Sequences, FiniteSetsExt

CONSTANTS
    Block,              \* root -> [slot, parent, target, justified, finalized,
                        \*          unrealized_justified, unrealized_finalized]
    NumValidators,
    SlotsPerEpoch,
    ProposerScoreBoost, \* spec.proposer_score_boost, a percentage
    PruneThreshold

ZeroHash == 0
NoIndex == 0
Roots == DOMAIN Block
Validators == 1..NumValidators
Statuses == {"Valid", "Optimistic", "Invalid", "Irrelevant"}
Checkpoints == [epoch : Nat, root : Roots]

ASSUME ParametersAssumption ==
    /\ NumValidators \in Nat
    /\ SlotsPerEpoch \in Nat \ {0}
    /\ ProposerScoreBoost \in Nat
    /\ PruneThreshold \in Nat

\* A block is of a later slot than its parent.
ASSUME BlockAssumption ==
    /\ ZeroHash \notin Roots
    /\ \A r \in Roots :
        /\ Block[r] \in [slot : Nat, parent : Roots \cup {ZeroHash}, target : Roots,
                         justified : Checkpoints, finalized : Checkpoints,
                         unrealized_justified : Checkpoints,
                         unrealized_finalized : Checkpoints]
        /\ Block[r].parent # ZeroHash => Block[Block[r].parent].slot < Block[r].slot

EpochOf(slot) == slot \div SlotsPerEpoch
StartSlot(epoch) == epoch * SlotsPerEpoch

\* A function on 1..n as a sequence that TLC has evaluated.
AsVec(f) == SubSeq(f, 1, Len(f))

\* f[1] + ... + f[n]
SumTo(f, n) ==
    LET sum[k \in 0..n] == IF k = 0 THEN 0 ELSE sum[k - 1] + f[k]
    IN  sum[n]

IndexOf(nodes, root) ==
    LET at == {i \in DOMAIN nodes : nodes[i].root = root}
    IN  IF at = {} THEN NoIndex ELSE Max(at)

\* From each index back to the first node.  A parent comes before its children in the
\* vector, so the walk meets the indices in falling order.
WalkBack(parent) ==
    LET up[j \in {NoIndex} \cup DOMAIN parent] ==
            IF j = NoIndex THEN {} ELSE {j} \cup up[parent[j]]
    IN  up

Parents(nodes) == [i \in DOMAIN nodes |-> nodes[i].parent]

\* The indices that iter_nodes yields from i on.
iter_nodes(nodes, i) == WalkBack(Parents(nodes))[i]

\* The root of the first node at or before a slot on the way back from i.
AncestorAt(nodes, i, slot) ==
    LET at == {j \in iter_nodes(nodes, i) : Block[nodes[j].root].slot <= slot}
    IN  IF at = {} THEN ZeroHash ELSE nodes[Max(at)].root

is_descendant(pa, ancestor, descendant) ==
    /\ IndexOf(pa.nodes, ancestor) # NoIndex
    /\ AncestorAt(pa.nodes, IndexOf(pa.nodes, descendant), Block[ancestor].slot) = ancestor

is_finalized_checkpoint_or_descendant(pa, root) ==
    LET b == Block[root]
        i == IndexOf(pa.nodes, root)
    IN  /\ i # NoIndex
        /\ \/ pa.finalized \in {b.finalized, b.justified,
                                b.unrealized_finalized, b.unrealized_justified}
           \/ AncestorAt(pa.nodes, i, StartSlot(pa.finalized.epoch)) = pa.finalized.root

\* A mutant: no block's justification is ever too old.
VotingSource_Current(b, slot) == [b.justified EXCEPT !.epoch = EpochOf(slot)]

\* The justified checkpoint a block votes with, pulled up for a block of a past epoch.
VotingSource(b, slot) ==
    IF EpochOf(slot) > EpochOf(b.slot) THEN b.unrealized_justified ELSE b.justified

node_is_viable_for_head(pa, i, slot) ==
    LET voting_source == VotingSource(Block[pa.nodes[i].root], slot)
    IN  /\ pa.nodes[i].execution_status # "Invalid"
        /\ \/ pa.justified.epoch = 0
           \/ voting_source.epoch = pa.justified.epoch
           \/ voting_source.epoch + 2 >= EpochOf(slot)
        /\ \/ pa.finalized.epoch = 0
           \/ is_finalized_checkpoint_or_descendant(pa, pa.nodes[i].root)

node_leads_to_viable_head(pa, i, slot) ==
    LET best == pa.nodes[i].best_descendant
    IN  \/ best # NoIndex /\ node_is_viable_for_head(pa, best, slot)
        \/ node_is_viable_for_head(pa, i, slot)

-----------------------------------------------------------------------------
(***************************************************************************)
(* Best child and best descendant                                          *)
(***************************************************************************)

\* Equal weights are decided by the root.
WinsTie(root, other) == root >= other

\* A child replaces the best child of its parent: viability, then weight, then root.
Outranks(child, leads, best, bestLeads) ==
    \/ leads /\ ~bestLeads
    \/ /\ leads = bestLeads
       /\ \/ child.weight > best.weight
          \/ child.weight = best.weight /\ WinsTie(child.root, best.root)

maybe_update_best_child_and_descendant(pa, parent, child, slot) ==
    LET nodes == pa.nodes
        best == nodes[parent].best_child
        below == nodes[child].best_descendant
        change_to_none == <<NoIndex, NoIndex>>
        change_to_child == <<child, IF below = NoIndex THEN child ELSE below>>
        no_change == <<best, nodes[parent].best_descendant>>
        links(leads) ==
            CASE best = child -> IF leads THEN change_to_child ELSE change_to_none
              [] best = NoIndex -> IF leads THEN change_to_child ELSE no_change
              [] OTHER -> IF Outranks(nodes[child], leads, nodes[best],
                                      node_leads_to_viable_head(pa, best, slot))
                          THEN change_to_child ELSE no_change
        linked(to) == [pa EXCEPT !.nodes[parent].best_child = to[1],
                                 !.nodes[parent].best_descendant = to[2]]
    IN  linked(links(node_leads_to_viable_head(pa, child, slot)))

\* A mutant: the links are left as insertion made them.
UpdateBest_Skipped(pa, slot) == pa

\* The second loop of apply_score_changes, over all nodes from the last one.
UpdateBest(pa, slot) ==
    LET n == Len(pa.nodes)
        step(acc, i) ==
            IF acc.nodes[i].parent = NoIndex THEN acc
            ELSE maybe_update_best_child_and_descendant(acc, acc.nodes[i].parent, i, slot)
        after[k \in 0..n] == IF k = 0 THEN pa ELSE step(after[k - 1], n + 1 - k)
    IN  after[n]

-----------------------------------------------------------------------------
(***************************************************************************)
(* Weights                                                                 *)
(***************************************************************************)

\* effective_balances.get(v).unwrap_or(0)
BalanceOf(balances, v) == IF v \in DOMAIN balances THEN balances[v] ELSE 0

TotalBalance(balances) == SumTo(balances, Len(balances))
NumActive(balances) == Quantify(DOMAIN balances, LAMBDA v : balances[v] # 0)

calculate_committee_fraction(balances, percent) ==
    (((TotalBalance(balances) \div SlotsPerEpoch) * percent) \div 100)

\* Whether compute_deltas moves the vote of v: it has one, and the root or the
\* balance behind it changed.
VoteMoves(vote, v, old, new) ==
    /\ vote.current # ZeroHash \/ vote.next # ZeroHash
    /\ vote.current # vote.next \/ BalanceOf(old, v) # BalanceOf(new, v)

\* compute_deltas: a vote takes its old balance from the node it leaves and gives
\* its new balance to the node it goes to.  An equivocating validator gives nothing.
compute_deltas(nodes, votes, old, new, equivocating) ==
    LET lost(v, root) ==
            IF /\ votes[v].current = root
               /\ v \in equivocating \/ VoteMoves(votes[v], v, old, new)
            THEN BalanceOf(old, v) ELSE 0
        gained(v, root) ==
            IF /\ votes[v].next = root
               /\ v \notin equivocating
               /\ VoteMoves(votes[v], v, old, new)
            THEN BalanceOf(new, v) ELSE 0
    IN  [i \in 0..Len(nodes) |-> IF i = NoIndex THEN 0 ELSE
            SumTo([v \in Validators |-> gained(v, nodes[i].root) - lost(v, nodes[i].root)],
                  NumValidators)]

\* What compute_deltas leaves in the votes.
VotesApplied(votes, equivocating) ==
    [v \in Validators |->
        [votes[v] EXCEPT !.current = IF v \in equivocating THEN ZeroHash ELSE votes[v].next]]

\* What apply_score_changes takes from the node it boosted the last time.
PreviousBoost(pa, root) ==
    IF pa.previous_boost.root = root THEN pa.previous_boost.score ELSE 0

\* The first loop of apply_score_changes.  `ok` is FALSE from the node on whose
\* weight would fall below zero (Error::DeltaOverflow).
UpdateWeights(pa, deltas, boost) ==
    LET n == Len(pa.nodes)
        step(acc, i) ==
            LET node == acc.nodes[i]
                invalid == node.execution_status = "Invalid"
                boosted == boost.root = node.root
                delta == IF invalid THEN 0 - node.weight
                         ELSE acc.deltas[i] - PreviousBoost(pa, node.root)
                                        + (IF boosted THEN boost.score ELSE 0)
            IN  IF ~acc.ok \/ node.weight + delta < 0 THEN [acc EXCEPT !.ok = FALSE]
                ELSE [nodes |-> [acc.nodes EXCEPT ![i].weight = @ + delta],
                      deltas |-> [acc.deltas EXCEPT ![node.parent] = @ + delta],
                      score |-> IF boosted /\ ~invalid THEN boost.score ELSE acc.score,
                      ok |-> TRUE]
        after[k \in 0..n] ==
            IF k = 0 THEN [nodes |-> pa.nodes, deltas |-> deltas, score |-> 0, ok |-> TRUE]
            ELSE step(after[k - 1], n + 1 - k)
    IN  after[n]

\* The result is the new tree and whether the call succeeded; an error leaves the
\* weights updated up to the failing node and the boost and the links as they were.
apply_score_changes(pa, deltas, justified, finalized, balances, boost_root, slot) ==
    LET boost == [root |-> boost_root,
                  score |-> calculate_committee_fraction(balances, ProposerScoreBoost)]
        scored(done) == [pa EXCEPT !.justified = justified, !.finalized = finalized,
                                   !.nodes = done.nodes]
        boosted(done) == [scored(done) EXCEPT
                            !.previous_boost = [root |-> boost_root, score |-> done.score]]
        result(done) == [ok |-> done.ok,
                         pa |-> IF done.ok THEN UpdateBest(boosted(done), slot)
                                ELSE scored(done)]
    IN  result(UpdateWeights(pa, deltas, boost))

find_head(pa, justified_root, slot) ==
    LET j == IndexOf(pa.nodes, justified_root)
        best == IF pa.nodes[j].best_descendant = NoIndex
                THEN j ELSE pa.nodes[j].best_descendant
    IN  CASE j = NoIndex -> [root |-> ZeroHash, error |-> "JustifiedNodeUnknown"]
          [] j # NoIndex /\ pa.nodes[j].execution_status = "Invalid" ->
                [root |-> ZeroHash, error |-> "InvalidJustifiedCheckpoint"]
          [] OTHER -> IF node_is_viable_for_head(pa, best, slot)
                      THEN [root |-> pa.nodes[best].root, error |-> "None"]
                      ELSE [root |-> ZeroHash, error |-> "InvalidBestNode"]

-----------------------------------------------------------------------------
(***************************************************************************)
(* Payload statuses                                                        *)
(***************************************************************************)

SetStatus(nodes, S, status) ==
    AsVec([i \in DOMAIN nodes |->
        IF i \in S THEN [nodes[i] EXCEPT !.execution_status = status] ELSE nodes[i]])

\* A mutant: only the given node becomes valid.
OptimisticRun_One(nodes, i) == {j \in {i} : nodes[j].execution_status = "Optimistic"}

\* The optimistic nodes met on the way back from i before any other.
OptimisticRun(nodes, i) ==
    LET other == {j \in iter_nodes(nodes, i) : nodes[j].execution_status # "Optimistic"}
    IN  {j \in iter_nodes(nodes, i) : \A k \in other : k < j}

\* The error of an invalid ancestor is raised after the nodes before it were set.
propagate_execution_payload_validation_by_index(pa, i) ==
    [pa EXCEPT !.nodes = SetStatus(pa.nodes, OptimisticRun(pa.nodes, i), "Valid")]

\* S and every node behind one of S, from index `first` on; a valid or irrelevant one is
\* an error that leaves the nodes before it invalidated.
InvalidateDescendants(nodes, first, S) ==
    LET n == Len(nodes)
        step(acc, i) ==
            IF ~acc.ok \/ i < first \/ nodes[i].parent \notin acc.invalid THEN acc
            ELSE IF nodes[i].execution_status \in {"Valid", "Irrelevant"}
                 THEN [acc EXCEPT !.ok = FALSE]
                 ELSE [acc EXCEPT !.invalid = @ \cup {i}]
        after[k \in 0..n] ==
            IF k = 0 THEN [invalid |-> S, ok |-> TRUE] ELSE step(after[k - 1], k)
    IN  after[n].invalid

\* Step 1 of propagate_execution_payload_invalidation: the optimistic nodes (`hit`) from
\* `head` back to the latest valid ancestor, or `head` alone if that is not on the way.  A
\* valid node on the way ends the call with an error.
InvalidateBack(nodes, head, lva, lvaIsAncestor) ==
    LET way == iter_nodes(nodes, head)
        With(status) == {j \in way : nodes[j].execution_status = status}
        end == Max({NoIndex} \cup With("Irrelevant")
                   \cup {j \in way : j = lva \/ (j # head /\ ~lvaIsAncestor)})
        illegal == Max({NoIndex} \cup With("Valid"))
    IN  [hit |-> {j \in With("Optimistic") : j > end /\ j > illegal}, error |-> illegal > end]

\* op = [root, always, lva]: the struct InvalidateMany, with the latest valid ancestor
\* named by the block that holds its payload; InvalidateOne has lva = ZeroHash and
\* always = TRUE.  The links of the invalidated nodes are cleared, and those of the latest
\* valid ancestor that lead to one invalidated in step 1; step 2 only sets statuses.
propagate_execution_payload_invalidation(pa, op) ==
    LET nodes == pa.nodes
        head == IndexOf(nodes, op.root)
        lva == Max({i \in DOMAIN nodes : /\ nodes[i].root = op.lva
                                         /\ nodes[i].execution_status # "Irrelevant"}
                   \cup {NoIndex})
        first(isAncestor) == (IF isAncestor THEN lva ELSE head) + 1
        unlinked(walk, isAncestor, i, link) ==
            \/ i \in walk.hit
            \/ ~walk.error /\ isAncestor /\ i = lva /\ link \in walk.hit
        back(walk, isAncestor) == [i \in DOMAIN nodes |-> [nodes[i] EXCEPT
            !.best_child = IF unlinked(walk, isAncestor, i, @) THEN NoIndex ELSE @,
            !.best_descendant = IF unlinked(walk, isAncestor, i, @) THEN NoIndex ELSE @]]
        invalid(walk, isAncestor) ==
            IF walk.error THEN walk.hit
            ELSE InvalidateDescendants(nodes, first(isAncestor), walk.hit)
        invalidated(walk, isAncestor) ==
            [pa EXCEPT !.nodes = SetStatus(back(walk, isAncestor),
                                           invalid(walk, isAncestor), "Invalid")]
        applied(isAncestor) ==
            IF head = NoIndex \/ ~(op.always \/ isAncestor) THEN pa
            ELSE invalidated(InvalidateBack(nodes, head, lva, isAncestor),
                             isAncestor)
    IN  applied(/\ lva # NoIndex
                /\ is_descendant(pa, op.lva, op.root)
                /\ is_finalized_checkpoint_or_descendant(pa, op.lva))

-----------------------------------------------------------------------------
(***************************************************************************)
(* Adding and removing nodes                                               *)
(***************************************************************************)

\* on_block refuses a block whose parent is invalid.
ParentIsInvalid(pa, root) ==
    LET p == IndexOf(pa.nodes, Block[root].parent)
    IN  p # NoIndex /\ pa.nodes[p].execution_status = "Invalid"

on_block(pa, root, status, slot) ==
    LET p == IndexOf(pa.nodes, Block[root].parent)
        n == Len(pa.nodes) + 1
        pushed == [pa EXCEPT !.nodes = Append(@,
                    [root |-> root, parent |-> p, weight |-> 0, best_child |-> NoIndex,
                     best_descendant |-> NoIndex, execution_status |-> status])]
        linked == maybe_update_best_child_and_descendant(pushed, p, n, slot)
    IN  IF p = NoIndex THEN pushed
        ELSE IF status = "Valid"
             THEN propagate_execution_payload_validation_by_index(linked, p)
             ELSE linked

\* A mutant: the links of the kept nodes are not moved.
Rebased_Stale(i, f) == i

\* A mutant: the links move by one too many.
Rebased_OffByOne(i, f) == IF i <= f THEN NoIndex ELSE i - f

\* An index after the nodes before f are dropped; an index before f becomes None.
Rebased(i, f) == IF i < f THEN NoIndex ELSE i - (f - 1)

maybe_prune(pa, finalized_root) ==
    LET f == IndexOf(pa.nodes, finalized_root)
    IN  IF f = NoIndex \/ f - 1 < PruneThreshold THEN pa
        ELSE [pa EXCEPT !.nodes = AsVec([i \in 1..(Len(@) - (f - 1)) |->
                [pa.nodes[i + (f - 1)] EXCEPT !.parent = Rebased(@, f),
                                              !.best_child = Rebased(@, f),
                                              !.best_descendant = Rebased(@, f)]])]

contains_invalid_payloads(pa) ==
    \E i \in DOMAIN pa.nodes : pa.nodes[i].execution_status = "Invalid"

\* A mutant: the weights stay at zero.
set_all_blocks_to_optimistic_NoWeight(pa, votes, balances) ==
    [pa EXCEPT !.nodes = SetStatus(@, {i \in DOMAIN @ : @[i].execution_status # "Irrelevant"},
                                   "Optimistic")]

\* A mutant: the statuses stay.
set_all_blocks_to_optimistic_NoStatus(pa, votes, balances) == pa

\* The votes of a node that was invalid, and the boost it would have had, are added to
\* it and to its ancestors.
set_all_blocks_to_optimistic(pa, votes, balances) ==
    LET nodes == pa.nodes
        invalid == {i \in DOMAIN nodes : nodes[i].execution_status = "Invalid"}
        boosted(i) == pa.previous_boost.root = nodes[i].root
        score == calculate_committee_fraction(balances, ProposerScoreBoost)
        restored(i) ==
            SumTo([v \in Validators |-> IF votes[v].current = nodes[i].root
                                        THEN BalanceOf(balances, v) ELSE 0], NumValidators)
              + (IF boosted(i) THEN score ELSE 0)
        below(i) == [j \in DOMAIN nodes |->
                        IF j \in invalid /\ i \in iter_nodes(nodes, j) THEN restored(j) ELSE 0]
    IN  [pa EXCEPT
            !.nodes = AsVec([i \in DOMAIN nodes |->
                [nodes[i] EXCEPT
                    !.weight = @ + SumTo(below(i), Len(nodes)),
                    !.execution_status = IF @ = "Irrelevant" THEN @ ELSE "Optimistic"]]),
            !.previous_boost.score =
                IF \E i \in invalid : boosted(i) THEN score ELSE @]
=============================================================================
