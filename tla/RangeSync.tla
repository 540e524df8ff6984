------------------------------ MODULE RangeSync ------------------------------
(***************************************************************************)
(* The chains of range sync and which of them are syncing: `RangeSync`     *)
(* (range.rs) over its `ChainCollection` (chain_collection.rs).            *)
(*                                                                         *)
(* A chain is named by its target, which no two chains of a collection     *)
(* share.  What a chain does with its batches is module SyncingChain; here *)
(* each of its methods returns Ok or asks for the chain's removal.  The    *)
(* collection is one record, its methods map a record to the set of        *)
(* records they may leave.                                                 *)
(***************************************************************************)
EXTENDS Integers, FiniteSets

CONSTANTS
    FinalizedTargets,       \* targets of finalized chains
    HeadTargets,            \* targets of head chains
    Peers,
    NoTarget,
    PARALLEL_HEAD_CHAINS

ASSUME TargetsAssumption ==
    /\ FinalizedTargets \cap HeadTargets = {}
    /\ NoTarget \notin HeadTargets
    /\ IsFiniteSet(FinalizedTargets) /\ IsFiniteSet(HeadTargets)
    /\ PARALLEL_HEAD_CHAINS \in Nat

VARIABLES
    chains,                 \* the ChainCollection, and awaiting_head_peers
    failed_chains,          \* targets not to be retried for a while
    pending                 \* what the handler that is running has left to do

vars == <<chains, failed_chains, pending>>

Targets == FinalizedTargets \cup HeadTargets

Idle == [kind |-> "Idle", ids |-> {}]
HeadState(ids) == IF ids = {} THEN Idle ELSE [kind |-> "Head", ids |-> ids]
FinalizedState(id) == [kind |-> "Finalized", ids |-> {id}]

Collections ==
    [finalized : SUBSET FinalizedTargets, head : SUBSET HeadTargets,
     peers : [Targets -> SUBSET Peers], syncing : SUBSET Targets,
     state : [kind : {"Idle", "Head", "Finalized"}, ids : SUBSET Targets],
     awaiting : [Peers -> HeadTargets \cup {NoTarget}],
     asserted : BOOLEAN]

Done == [reports |-> 0, peer |-> {}, target |-> NoTarget]

Chains(c) == c.finalized \cup c.head

-----------------------------------------------------------------------------
(***************************************************************************)
(* on_chain_removed for each of `gone`, finalized chains first.  The field *)
(* `asserted` records whether every debug_assert of that function held.    *)
(***************************************************************************)
StateWithout_ForgetsHeads(c, gone) ==
    IF c.state.kind = "Finalized"
    THEN IF c.state.ids \cap gone = {} THEN c.state ELSE Idle
    ELSE HeadState(c.state.ids \ gone)

StateWithout(c, gone) ==
    IF c.state.kind = "Finalized"
    THEN IF c.state.ids \cap gone = {} THEN c.state
         ELSE HeadState((c.syncing \cap c.head) \ gone)
    ELSE HeadState(c.state.ids \ gone)

AssertsHold(c, gone) ==
    IF c.state.kind = "Finalized"
    THEN gone \cap c.finalized \cap c.syncing = gone \cap c.state.ids
    ELSE gone \cap c.syncing = gone \cap c.state.ids

RemoveChains(c, gone) ==
    [c EXCEPT !.finalized = @ \ gone,
              !.head = @ \ gone,
              !.peers = [t \in Targets |-> IF t \in gone THEN {} ELSE c.peers[t]],
              !.syncing = @ \ gone,
              !.state = StateWithout(c, gone),
              !.asserted = @ /\ AssertsHold(c, gone)]

(* Chains and waiting head peers whose target is known or behind the local *)
(* finality, and chains without peers, are dropped.                        *)
purge_outdated_chains(c, outdated) ==
    RemoveChains([c EXCEPT !.awaiting = [p \in Peers |-> IF c.awaiting[p] \in outdated
                                                         THEN NoTarget ELSE c.awaiting[p]]],
                 {t \in Chains(c) : t \in outdated \/ c.peers[t] = {}})

(***************************************************************************)
(* SyncingChain::add_peer can fail only while the chain is syncing.        *)
(***************************************************************************)
add_peer_or_create_chain(c, peer, target) ==
    LET added == [c EXCEPT !.finalized = @ \cup ({target} \cap FinalizedTargets),
                           !.head = @ \cup ({target} \cap HeadTargets),
                           !.peers[target] = @ \cup {peer}]
    IN  {added} \cup (IF target \in c.syncing THEN {RemoveChains(added, {target})} ELSE {})

-----------------------------------------------------------------------------
(***************************************************************************)
(* The finalized chain to sync: one with most peers, unless the one that   *)
(* is syncing has as many or has not processed enough epochs to be left.   *)
(***************************************************************************)
MostPeers(c) == {t \in c.finalized : \A u \in c.finalized :
                    Cardinality(c.peers[u]) <= Cardinality(c.peers[t])}

Switches(c, best) ==
    {t \in c.finalized \cap c.state.ids : Cardinality(c.peers[best]) > Cardinality(c.peers[t])}

StartFinalized(c, id) ==
    LET started == [c EXCEPT !.state = FinalizedState(id), !.syncing = @ \cup {id}]
    IN  {started, RemoveChains(started, {id})}

(* Go on with the chain that is syncing, or leave it for a better one. *)
GoOn(c) == UNION {StartFinalized(c, id) : id \in c.state.ids}

StopSyncing_Forgotten(c) == c

StopSyncing(c) == [c EXCEPT !.syncing = @ \ c.state.ids]

SwitchTo(c, best) ==
    IF Switches(c, best) = {} THEN {} ELSE StartFinalized(StopSyncing(c), best)

StartBest(c, best) ==
    IF c.state.kind # "Finalized" \/ c.state.ids \cap c.finalized = {}
    THEN StartFinalized(c, best)
    ELSE GoOn(c) \cup SwitchTo(c, best)

update_finalized_chains(c) ==
    IF c.finalized = {} THEN {c} ELSE UNION {StartBest(c, best) : best \in MostPeers(c)}

-----------------------------------------------------------------------------
(* The awaiting head peers join their head chains.  `broken` are syncing   *)
(* chains that failed when a peer joined; the peers after that start anew. *)
WaitingFor(c, target) == {p \in Peers : c.awaiting[p] = target}

Drain(c, broken, lost) ==
    LET d == RemoveChains(c, broken)
        joining(t) == WaitingFor(c, t) \ (IF t \in broken THEN lost ELSE {})
    IN  [d EXCEPT !.head = @ \cup {t \in HeadTargets : joining(t) # {}},
                  !.peers = [t \in Targets |-> IF t \in HeadTargets
                                               THEN d.peers[t] \cup joining(t) ELSE d.peers[t]],
                  !.awaiting = [p \in Peers |-> NoTarget]]

DrainAwaiting(c) ==
    UNION {{Drain(c, broken, lost) :
               lost \in {l \in SUBSET Peers : \A t \in broken : WaitingFor(c, t) \cap l # {}}} :
           broken \in SUBSET {t \in c.head \cap c.syncing : WaitingFor(c, t) # {}}}

(***************************************************************************)
(* The order in which head chains are started: more peers first, and among *)
(* chains with as many, those that are not syncing first.                  *)
(***************************************************************************)
Preferred(c, t, u) ==
    LET n == Cardinality(c.peers[t])
        m == Cardinality(c.peers[u])
    IN  n > m \/ (n = m /\ t \notin c.syncing /\ u \in c.syncing)

(* Chains are started in that order until PARALLEL_HEAD_CHAINS of them     *)
(* run; one that fails to start is removed and the next is tried.          *)
StartsInOrder(c, started, failed) ==
    LET tried == started \cup failed
        full == Cardinality(started) = PARALLEL_HEAD_CHAINS
    IN  /\ Cardinality(started) <= PARALLEL_HEAD_CHAINS
        /\ started \cap failed = {}
        /\ ~full => tried = c.head
        /\ \A t \in tried, u \in c.head \ tried : ~Preferred(c, u, t)
        /\ full /\ failed # {} => \E t \in started : \A u \in failed : ~Preferred(c, t, u)

StartHeads(c, started, failed) ==
    [c EXCEPT !.head = @ \ failed,
              !.peers = [t \in Targets |-> IF t \in failed THEN {} ELSE c.peers[t]],
              !.syncing = (@ \ c.head) \cup started,
              !.state = HeadState(started)]

StartSomeHeads(c) ==
    UNION {{StartHeads(c, started, failed) :
               failed \in {f \in SUBSET c.head : StartsInOrder(c, started, f)}} :
           started \in SUBSET c.head}

update_head_chains_NothingToStart(c) ==
    IF c.head = {} THEN {c} ELSE UNION {StartSomeHeads(d) : d \in DrainAwaiting(c)}

update_head_chains(c) == UNION {StartSomeHeads(d) : d \in DrainAwaiting(c)}

update(c, outdated) ==
    UNION {IF d.state.kind = "Finalized" THEN {d} ELSE update_head_chains(d) :
           d \in update_finalized_chains(purge_outdated_chains(c, outdated))}

-----------------------------------------------------------------------------
(***************************************************************************)
(* The handlers of RangeSync.  A handler that removes several chains       *)
(* updates the collection once for each of them, and AddPeer only then     *)
(* adds the peer to its new chain: `pending` holds what is left of the     *)
(* handler, and no other handler runs before it is done.                   *)
(***************************************************************************)
Init ==
    /\ chains = [finalized |-> {}, head |-> {}, peers |-> [t \in Targets |-> {}],
                 syncing |-> {}, state |-> Idle,
                 awaiting |-> [p \in Peers |-> NoTarget], asserted |-> TRUE]
    /\ failed_chains = {}
    /\ pending = Done

NextHandler == pending = Done

(* A peer with a finalized checkpoint ahead of ours. *)
AddFinalizedPeer(peer, target, outdated) ==
    /\ NextHandler
    /\ target \notin failed_chains
    /\ target \notin outdated
    /\ LET ready == [chains EXCEPT !.awaiting[peer] = NoTarget]
       IN  \E c \in add_peer_or_create_chain(ready, peer, target) :
              chains' \in update(c, outdated)
    /\ UNCHANGED <<failed_chains, pending>>

(* remove_peer: the chains left without a peer are removed. *)
RemovePeer(c, peer) ==
    LET left == [c EXCEPT !.peers = [t \in Targets |-> c.peers[t] \ {peer}]]
    IN  RemoveChains(left, {t \in Chains(c) : left.peers[t] = {}})

RemovedBy(c, d) == Cardinality(Chains(c) \ Chains(d))

(* A peer ahead of our head: it waits while there is a finalized chain,    *)
(* else it leaves its chains for the one of its head.                      *)
AddWaitingPeer(peer, target) ==
    /\ NextHandler
    /\ chains.finalized # {}
    /\ chains' = [chains EXCEPT !.awaiting[peer] = target]
    /\ UNCHANGED <<failed_chains, pending>>

AddHeadPeer(peer, target) ==
    /\ NextHandler
    /\ chains.finalized = {}
    /\ chains' = RemovePeer(chains, peer)
    /\ pending' = [reports |-> RemovedBy(chains, RemovePeer(chains, peer)),
                   peer |-> {peer}, target |-> target]
    /\ UNCHANGED failed_chains

FinishAddHeadPeer(outdated) ==
    /\ pending.reports = 0
    /\ \E peer \in pending.peer :
          \E c \in add_peer_or_create_chain([chains EXCEPT !.awaiting[peer] = NoTarget],
                                             peer, pending.target) :
              chains' \in update(c, outdated)
    /\ pending' = Done
    /\ UNCHANGED failed_chains

(* RangeSync::on_chain_removed, for the next chain that was removed. *)
OnChainRemoved(outdated) ==
    /\ pending.reports > 0
    /\ chains' \in update(chains, outdated)
    /\ pending' = [pending EXCEPT !.reports = @ - 1]
    /\ UNCHANGED failed_chains

PeerDisconnect(peer) ==
    /\ NextHandler
    /\ chains' = RemovePeer([chains EXCEPT !.awaiting[peer] = NoTarget], peer)
    /\ pending' = [Done EXCEPT !.reports = RemovedBy(chains, RemovePeer(chains, peer))]
    /\ UNCHANGED failed_chains

(* A block response, an RPC error or a processing result ends the chain it *)
(* belongs to; the target of a chain that failed by its blocks is not      *)
(* retried for a while.                                                    *)
ChainEnds(id, blacklisted, outdated) ==
    /\ NextHandler
    /\ id \in Chains(chains)
    /\ failed_chains' = failed_chains \cup blacklisted
    /\ chains' \in update(RemoveChains(chains, {id}), outdated)
    /\ UNCHANGED pending

(* Every chain resumes; those that fail are removed. *)
Resume(failing) ==
    /\ NextHandler
    /\ failing \subseteq Chains(chains)
    /\ chains' = RemoveChains(chains, failing)
    /\ pending' = [Done EXCEPT !.reports = Cardinality(failing)]
    /\ UNCHANGED failed_chains

(* FAILED_CHAINS_EXPIRY_SECONDS after the failure. *)
FailedChainExpires(target) ==
    /\ NextHandler
    /\ target \in failed_chains
    /\ failed_chains' = failed_chains \ {target}
    /\ UNCHANGED <<chains, pending>>

(* The targets whose being outdated can make a difference. *)
InUse == (Chains(chains) \cup {chains.awaiting[p] : p \in Peers} \cup {pending.target}) \ {NoTarget}

Next ==
    \/ \E peer \in Peers :
          \/ \E target \in FinalizedTargets, outdated \in SUBSET InUse :
                AddFinalizedPeer(peer, target, outdated)
          \/ \E target \in HeadTargets : AddWaitingPeer(peer, target) \/ AddHeadPeer(peer, target)
          \/ PeerDisconnect(peer)
    \/ \E outdated \in SUBSET InUse :
          \/ FinishAddHeadPeer(outdated)
          \/ OnChainRemoved(outdated)
          \/ \E id \in Targets : \E blacklisted \in SUBSET ({id} \cap FinalizedTargets) :
                ChainEnds(id, blacklisted, outdated)
    \/ \E failing \in SUBSET Targets : Resume(failing)
    \/ \E target \in FinalizedTargets : FailedChainExpires(target)

Spec == Init /\ [][Next]_vars

-----------------------------------------------------------------------------
(* The collection, the blacklist and the running handler have their types. *)
TypeOK ==
    /\ chains \in Collections
    /\ failed_chains \subseteq FinalizedTargets
    /\ pending \in [reports : Nat, peer : SUBSET Peers, target : HeadTargets \cup {NoTarget}]
    /\ pending.peer # {} => pending.target \in HeadTargets

Matching(c) ==
    /\ c.syncing \subseteq Chains(c)
    /\ IF c.state.kind = "Finalized"
       THEN \E id \in c.finalized : c.state.ids = {id} /\ c.syncing \cap c.finalized = {id}
       ELSE /\ c.state.ids = c.syncing
            /\ c.syncing \subseteq c.head
            /\ (c.state.kind = "Idle") <=> (c.syncing = {})

(***************************************************************************)
(* The state of the collection tells the truth about its chains, whatever  *)
(* order they fail, complete or lose their peers in: Finalized names the   *)
(* one finalized chain that is syncing, Head exactly the head chains that  *)
(* are, and in Idle none is; so `state` never meets a chain it cannot find. *)
(***************************************************************************)
StateMatchesChains == Matching(chains)

(* Every debug_assert of ChainCollection::on_chain_removed holds. *)
DebugAssertsHold == chains.asserted

Peered(c) == \A t \in Targets : (t \in Chains(c)) <=> (c.peers[t] # {})

(***************************************************************************)
(* A chain of the collection has a peer to download from, so a request is  *)
(* never without one ("the chain is dropped when removing the last peer"). *)
(***************************************************************************)
ChainsHavePeers == Peered(chains)

(***************************************************************************)
(* A head peer waits only for a finalized chain: when the last of them is  *)
(* gone, however it went, no peer is left waiting.                         *)
(***************************************************************************)
NoForgottenHeadPeers ==
    pending = Done /\ (\E p \in Peers : chains.awaiting[p] # NoTarget) => chains.finalized # {}

Bounded(c) == Cardinality(c.syncing \cap c.head) <= PARALLEL_HEAD_CHAINS

(* At most PARALLEL_HEAD_CHAINS head chains are syncing. *)
HeadChainsAreBounded == Bounded(chains)

=============================================================================
