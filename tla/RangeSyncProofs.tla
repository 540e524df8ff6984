--------------------------- MODULE RangeSyncProofs ---------------------------
(***************************************************************************)
(* Proofs about RangeSync, for every number of chains and peers and every  *)
(* PARALLEL_HEAD_CHAINS.                                                   *)
(***************************************************************************)
EXTENDS RangeSync, FiniteSetTheorems, TLAPS

(* What every method of ChainCollection keeps, but for chains that lost    *)
(* their last peer and are about to be removed.                            *)
Sound(c) == c \in Collections /\ Matching(c) /\ c.asserted /\ Bounded(c)

(* Fewer syncing head chains stay within the bound. *)
LEMMA FewerStayBounded ==
    ASSUME NEW c \in Collections, NEW S, S \subseteq c.syncing \cap c.head, Bounded(c)
    PROVE  IsFiniteSet(S) /\ Cardinality(S) \in Nat /\ Cardinality(S) <= PARALLEL_HEAD_CHAINS
<1>1. IsFiniteSet(c.syncing \cap c.head)
  <2>1. c.syncing \cap c.head \in SUBSET HeadTargets
    BY DEF Collections
  <2> QED
    BY <2>1, FS_Subset, TargetsAssumption
<1>2. IsFiniteSet(S) /\ Cardinality(S) <= Cardinality(c.syncing \cap c.head)
  BY <1>1, FS_Subset, Zenon
<1>3. Cardinality(S) \in Nat /\ Cardinality(c.syncing \cap c.head) \in Nat
  BY <1>1, <1>2, FS_CardinalityType, SMTT(30)
<1> QED
  BY <1>2, <1>3, TargetsAssumption DEF Bounded

(* The fields RemoveChains leaves. *)
LEMMA RemoveChainsFields ==
    ASSUME NEW c \in Collections, NEW gone \in SUBSET Targets
    PROVE  /\ RemoveChains(c, gone) \in Collections
           /\ RemoveChains(c, gone).finalized = c.finalized \ gone
           /\ RemoveChains(c, gone).head = c.head \ gone
           /\ RemoveChains(c, gone).peers = [t \in Targets |-> IF t \in gone THEN {} ELSE c.peers[t]]
           /\ RemoveChains(c, gone).syncing = c.syncing \ gone
           /\ RemoveChains(c, gone).state = StateWithout(c, gone)
           /\ RemoveChains(c, gone).awaiting = c.awaiting
           /\ (c.asserted /\ AssertsHold(c, gone) => RemoveChains(c, gone).asserted)
<1>1. StateWithout(c, gone) \in [kind : {"Idle", "Head", "Finalized"}, ids : SUBSET Targets]
  BY DEF Collections, StateWithout, HeadState, Idle
<1>2. (c.asserted /\ AssertsHold(c, gone)) \in BOOLEAN
  BY DEF AssertsHold
<1>3. [t \in Targets |-> IF t \in gone THEN {} ELSE c.peers[t]] \in [Targets -> SUBSET Peers]
  BY DEF Collections
<1> QED
  BY <1>1, <1>2, <1>3 DEF RemoveChains, Collections

(* Whichever chains on_chain_removed takes out, the state follows and its  *)
(* debug_asserts hold.                                                     *)
LEMMA RemoveChainsSound ==
    ASSUME NEW c, Sound(c), NEW gone \in SUBSET Targets,
           NEW d, d = RemoveChains(c, gone)
    PROVE  Sound(d)
<1>0. c \in Collections /\ Matching(c) /\ c.asserted /\ Bounded(c)
  BY DEF Sound
<1>1. /\ d \in Collections
      /\ d.finalized = c.finalized \ gone
      /\ d.head = c.head \ gone
      /\ d.syncing = c.syncing \ gone
      /\ d.state = StateWithout(c, gone)
  BY <1>0, RemoveChainsFields
<1>a. c.asserted /\ AssertsHold(c, gone) => d.asserted
  BY <1>0, RemoveChainsFields
<1>2. c.finalized \cap c.head = {}
  BY <1>0, TargetsAssumption DEF Collections
<1>3. AssertsHold(c, gone)
  <2>1. CASE c.state.kind = "Finalized"
    BY <1>0, <2>1 DEF AssertsHold, Matching
  <2>2. CASE c.state.kind # "Finalized"
    BY <1>0, <2>2 DEF AssertsHold, Matching
  <2> QED BY <2>1, <2>2
<1>4. Matching(d)
  <2>1. CASE c.state.kind = "Finalized" /\ c.state.ids \cap gone = {}
    BY <1>0, <1>1, <2>1 DEF Matching, StateWithout, Chains
  <2>2. CASE c.state.kind = "Finalized" /\ c.state.ids \cap gone # {}
    BY <1>0, <1>1, <1>2, <2>2 DEF Matching, StateWithout, Chains, HeadState, Idle
  <2>3. CASE c.state.kind # "Finalized"
    BY <1>0, <1>1, <2>3 DEF Matching, StateWithout, Chains, HeadState, Idle
  <2> QED BY <2>1, <2>2, <2>3
<1>5. Bounded(d)
  BY <1>0, <1>1, FewerStayBounded DEF Bounded
<1> QED
  BY <1>0, <1>1, <1>a, <1>3, <1>4, <1>5 DEF Sound

(* Removing the chains without peers leaves chains with peers. *)
LEMMA RemoveChainsPeered ==
    ASSUME NEW c \in Collections, NEW gone \in SUBSET Targets,
           \A t \in Targets \ gone : (t \in Chains(c)) <=> (c.peers[t] # {})
    PROVE  Peered(RemoveChains(c, gone))
<1>1. /\ RemoveChains(c, gone).finalized = c.finalized \ gone
      /\ RemoveChains(c, gone).head = c.head \ gone
      /\ RemoveChains(c, gone).peers = [t \in Targets |-> IF t \in gone THEN {} ELSE c.peers[t]]
  BY RemoveChainsFields
<1> QED
  BY <1>1 DEF Peered, Chains

(* Purging keeps the collection sound. *)
LEMMA PurgeSound ==
    ASSUME NEW c, Sound(c), Peered(c), NEW outdated,
           NEW d, d = purge_outdated_chains(c, outdated)
    PROVE  Sound(d) /\ Peered(d)
<1> DEFINE w == [c EXCEPT !.awaiting = [p \in Peers |-> IF c.awaiting[p] \in outdated
                                                        THEN NoTarget ELSE c.awaiting[p]]]
           gone == {t \in Chains(c) : t \in outdated \/ c.peers[t] = {}}
<1>0. c \in Collections
  BY DEF Sound
<1>1. [p \in Peers |-> IF c.awaiting[p] \in outdated THEN NoTarget ELSE c.awaiting[p]]
        \in [Peers -> HeadTargets \cup {NoTarget}]
  BY <1>0 DEF Collections
<1>2. /\ w \in Collections /\ w.finalized = c.finalized /\ w.head = c.head
      /\ w.peers = c.peers /\ w.syncing = c.syncing /\ w.state = c.state
      /\ w.asserted = c.asserted
  BY <1>0, <1>1 DEF Collections
<1>3. gone \in SUBSET Targets
  BY <1>0 DEF Collections, Chains, Targets
<1>4. purge_outdated_chains(c, outdated) = RemoveChains(w, gone)
  BY DEF purge_outdated_chains
<1> HIDE DEF w, gone
<1>5. Sound(w) /\ Peered(w)
  BY <1>2 DEF Sound, Matching, Bounded, Chains, Peered
<1> QED
  BY <1>2, <1>3, <1>4, <1>5, RemoveChainsSound, RemoveChainsPeered DEF Peered

(* Adding a peer to a chain, new or not, keeps the collection sound. *)
LEMMA AddPeerSound ==
    ASSUME NEW c, Sound(c), Peered(c), NEW peer \in Peers, NEW target \in Targets,
           NEW d \in add_peer_or_create_chain(c, peer, target)
    PROVE  Sound(d) /\ Peered(d)
<1> DEFINE added == [c EXCEPT !.finalized = @ \cup ({target} \cap FinalizedTargets),
                              !.head = @ \cup ({target} \cap HeadTargets),
                              !.peers[target] = @ \cup {peer}]
<1>0. c \in Collections /\ Matching(c) /\ c.asserted /\ Bounded(c)
  BY DEF Sound
<1>1. /\ added \in Collections
      /\ added.finalized = c.finalized \cup ({target} \cap FinalizedTargets)
      /\ added.head = c.head \cup ({target} \cap HeadTargets)
      /\ added.peers = [c.peers EXCEPT ![target] = @ \cup {peer}]
      /\ added.syncing = c.syncing /\ added.state = c.state
  <2>1. [c.peers EXCEPT ![target] = @ \cup {peer}] \in [Targets -> SUBSET Peers]
    BY <1>0 DEF Collections
  <2> QED
    BY <1>0, <2>1 DEF Collections
<1>2. added.asserted
  BY <1>0 DEF Collections
<1>3. d = added \/ d = RemoveChains(added, {target})
  BY DEF add_peer_or_create_chain
<1> HIDE DEF added
<1>4. added.syncing \cap added.head = c.syncing \cap c.head
      /\ added.syncing \cap added.finalized = c.syncing \cap c.finalized
  BY <1>0, <1>1, TargetsAssumption DEF Matching, Collections, Chains
<1>5. Sound(added)
  <2>1. Matching(added)
    BY <1>0, <1>1, <1>4 DEF Matching, Chains
  <2> QED
    BY <1>0, <1>1, <1>2, <1>4, <2>1 DEF Sound, Bounded
<1>6. Peered(added)
  BY <1>0, <1>1 DEF Peered, Chains, Collections, Targets
<1>7. Sound(RemoveChains(added, {target}))
  BY <1>5, RemoveChainsSound
<1>8. Peered(RemoveChains(added, {target}))
  <2>1. added \in Collections /\ {target} \in SUBSET Targets
    BY <1>1
  <2>2. \A t \in Targets \ {target} : (t \in Chains(added)) <=> (added.peers[t] # {})
    BY <1>6 DEF Peered
  <2> QED
    BY <2>1, <2>2, RemoveChainsPeered
<1> QED
  BY <1>3, <1>5, <1>6, <1>7, <1>8

(* Removing a peer, and the chains it leaves without one, keeps the        *)
(* collection sound.                                                       *)
LEMMA RemovePeerSound ==
    ASSUME NEW c, Sound(c), Peered(c), NEW peer \in Peers
    PROVE  /\ Sound(RemovePeer(c, peer)) /\ Peered(RemovePeer(c, peer))
           /\ RemovePeer(c, peer).finalized \subseteq c.finalized
           /\ RemovePeer(c, peer).awaiting = c.awaiting
           /\ RemovedBy(c, RemovePeer(c, peer)) \in Nat
           /\ RemovedBy(c, RemovePeer(c, peer)) = 0 =>
                  RemovePeer(c, peer).finalized = c.finalized
<1> DEFINE left == [c EXCEPT !.peers = [t \in Targets |-> c.peers[t] \ {peer}]]
           gone == {t \in Chains(c) : left.peers[t] = {}}
           d == RemoveChains(left, gone)
<1>0. c \in Collections
  BY DEF Sound
<1>1. /\ left \in Collections /\ left.finalized = c.finalized /\ left.head = c.head
      /\ left.peers = [t \in Targets |-> c.peers[t] \ {peer}]
      /\ left.syncing = c.syncing /\ left.state = c.state /\ left.awaiting = c.awaiting
      /\ left.asserted = c.asserted
  <2>1. [t \in Targets |-> c.peers[t] \ {peer}] \in [Targets -> SUBSET Peers]
    BY <1>0 DEF Collections
  <2> QED
    BY <1>0, <2>1 DEF Collections
<1>2. RemovePeer(c, peer) = d
  BY DEF RemovePeer
<1> HIDE DEF left
<1>3. gone \in SUBSET Targets
  BY <1>0 DEF Collections, Chains, Targets
<1>4. Sound(left)
  BY <1>1 DEF Sound, Matching, Bounded, Chains
<1>5. \A t \in Targets \ gone : (t \in Chains(left)) <=> (left.peers[t] # {})
  BY <1>1 DEF Peered, Chains
<1> HIDE DEF gone
<1>6. Sound(d) /\ Peered(d)
  BY <1>1, <1>3, <1>4, <1>5, RemoveChainsSound, RemoveChainsPeered
<1>7. /\ d.finalized = c.finalized \ gone /\ d.head = c.head \ gone
      /\ d.awaiting = c.awaiting
  <2>1. /\ d.finalized = left.finalized \ gone /\ d.head = left.head \ gone
        /\ d.awaiting = left.awaiting
    <3>1. left \in Collections
      BY <1>1
    <3> QED
      BY <3>1, <1>3, RemoveChainsFields, ZenonT(60)
  <2> QED
    BY <1>1, <2>1
<1> HIDE DEF d
<1>8. IsFiniteSet(Chains(c) \ Chains(d))
  <2>1. IsFiniteSet(Targets)
    BY FS_Union, TargetsAssumption DEF Targets
  <2>2. Chains(c) \ Chains(d) \in SUBSET Targets
    BY <1>0 DEF Collections, Chains, Targets
  <2> QED
    BY <2>1, <2>2, FS_Subset
<1>9. RemovedBy(c, d) \in Nat /\ (RemovedBy(c, d) = 0 => Chains(c) \ Chains(d) = {})
  BY <1>8, FS_CardinalityType, FS_EmptySet DEF RemovedBy
<1>10. Chains(c) \ Chains(d) = {} => d.finalized = c.finalized
  <2>1. c.finalized \cap c.head = {}
    BY <1>0, TargetsAssumption DEF Collections
  <2> QED
    BY <1>7, <2>1 DEF Chains
<1> QED
  BY <1>2, <1>6, <1>7, <1>9, <1>10

(* Starting a finalized chain when no other finalized chain is syncing. *)
LEMMA StartFinalizedSound ==
    ASSUME NEW c \in Collections, c.asserted, Bounded(c), Peered(c),
           c.syncing \subseteq Chains(c),
           NEW id \in c.finalized, c.syncing \cap c.finalized \subseteq {id},
           NEW d \in StartFinalized(c, id)
    PROVE  Sound(d) /\ Peered(d)
<1> DEFINE started == [c EXCEPT !.state = FinalizedState(id), !.syncing = @ \cup {id}]
<1>0. id \in Targets /\ c.finalized \cap c.head = {}
  BY TargetsAssumption DEF Collections, Targets
<1>1. /\ started \in Collections
      /\ started.finalized = c.finalized /\ started.head = c.head
      /\ started.peers = c.peers /\ started.syncing = c.syncing \cup {id}
      /\ started.state = [kind |-> "Finalized", ids |-> {id}]
  BY <1>0 DEF Collections, FinalizedState
<1>2. started.asserted
  BY DEF Collections
<1>3. d = started \/ d = RemoveChains(started, {id})
  BY DEF StartFinalized
<1> HIDE DEF started
<1>4. Matching(started)
  <2>1. started.state.kind = "Finalized" /\ started.state.ids = {id}
    BY <1>1
  <2>2. started.syncing \subseteq Chains(started)
    BY <1>1 DEF Chains
  <2>3. id \in started.finalized /\ started.syncing \cap started.finalized = {id}
    BY <1>1
  <2> QED
    BY <2>1, <2>2, <2>3 DEF Matching
<1>5. Bounded(started)
  <2>1. started.syncing \cap started.head = c.syncing \cap c.head
    BY <1>0, <1>1
  <2> QED
    BY <2>1 DEF Bounded
<1>6. Sound(started) /\ Peered(started)
  BY <1>1, <1>2, <1>4, <1>5 DEF Sound, Peered, Chains
<1>7. Sound(RemoveChains(started, {id}))
  BY <1>0, <1>6, RemoveChainsSound
<1>8. Peered(RemoveChains(started, {id}))
  <2>1. started \in Collections /\ {id} \in SUBSET Targets
    BY <1>0, <1>1
  <2>2. \A t \in Targets \ {id} : (t \in Chains(started)) <=> (started.peers[t] # {})
    BY <1>6 DEF Peered
  <2> QED
    BY <2>1, <2>2, RemoveChainsPeered
<1> QED
  BY <1>3, <1>6, <1>7, <1>8

(* Choosing the finalized chain to sync keeps the collection sound. *)
LEMMA UpdateFinalizedSound ==
    ASSUME NEW c, Sound(c), Peered(c), NEW d \in update_finalized_chains(c)
    PROVE  Sound(d) /\ Peered(d)
<1>0. c \in Collections /\ Matching(c) /\ c.asserted /\ Bounded(c)
  BY DEF Sound
<1>1. CASE c.finalized = {}
  BY <1>1 DEF update_finalized_chains
<1>2. CASE c.finalized # {}
  <2>1. PICK best \in MostPeers(c) : d \in StartBest(c, best)
    BY <1>2 DEF update_finalized_chains
  <2>2. best \in c.finalized
    BY DEF MostPeers
  <2>3. c.syncing \subseteq Chains(c)
    BY <1>0 DEF Matching
  <2>4. CASE c.state.kind # "Finalized"
    <3>1. c.syncing \cap c.finalized \subseteq {best}
      BY <1>0, <2>4, TargetsAssumption DEF Matching, Collections
    <3>2. d \in StartFinalized(c, best)
      BY <2>1, <2>4 DEF StartBest
    <3> QED
      BY <1>0, <2>2, <2>3, <3>1, <3>2, StartFinalizedSound
  <2>5. CASE c.state.kind = "Finalized"
    <3>1. PICK id \in c.finalized : c.state.ids = {id} /\ c.syncing \cap c.finalized = {id}
      BY <1>0, <2>5 DEF Matching
    <3> DEFINE s == StopSyncing(c)
    <3>2. d \in StartFinalized(c, id) \/ d \in StartFinalized(s, best)
      <4>1. d \in GoOn(c) \/ d \in SwitchTo(c, best)
        BY <2>1, <2>5, <3>1 DEF StartBest
      <4>2. d \in GoOn(c) => d \in StartFinalized(c, id)
        BY <3>1 DEF GoOn
      <4>3. d \in SwitchTo(c, best) => d \in StartFinalized(s, best)
        BY DEF SwitchTo
      <4> QED
        BY <4>1, <4>2, <4>3
    <3>3. CASE d \in StartFinalized(c, id)
      BY <1>0, <2>3, <3>1, <3>3, StartFinalizedSound
    <3>4. CASE d \in StartFinalized(s, best)
      <4>1. /\ s \in Collections /\ s.finalized = c.finalized /\ s.head = c.head
            /\ s.peers = c.peers /\ s.syncing = c.syncing \ {id}
        BY <1>0, <3>1 DEF Collections, StopSyncing
      <4>2. s.asserted
        BY <1>0 DEF Collections, StopSyncing
      <4> HIDE DEF s
      <4>3. Bounded(s)
        <5>1. s.syncing \cap s.head \subseteq c.syncing \cap c.head
          BY <4>1
        <5> QED
          BY <1>0, <5>1, FewerStayBounded DEF Bounded
      <4>4. Peered(s) /\ s.syncing \subseteq Chains(s)
        BY <2>3, <4>1 DEF Peered, Chains
      <4>5. best \in s.finalized /\ s.syncing \cap s.finalized \subseteq {best}
        BY <2>2, <3>1, <4>1
      <4> QED
        BY <3>4, <4>1, <4>2, <4>3, <4>4, <4>5, StartFinalizedSound
    <3> QED
      BY <3>2, <3>3, <3>4
  <2> QED
    BY <2>4, <2>5
<1> QED
  BY <1>1, <1>2

(* Draining the waiting head peers into their chains. *)
LEMMA DrainSound ==
    ASSUME NEW c, Sound(c), Peered(c), c.state.kind # "Finalized",
           NEW d \in DrainAwaiting(c)
    PROVE  /\ Sound(d) /\ Peered(d) /\ d.state.kind # "Finalized"
           /\ d.awaiting = [p \in Peers |-> NoTarget]
<1>0. c \in Collections
  BY DEF Sound
<1>1. PICK broken \in SUBSET {t \in c.head \cap c.syncing : WaitingFor(c, t) # {}},
           lost \in SUBSET Peers : d = Drain(c, broken, lost)
  BY DEF DrainAwaiting
<1> DEFINE r == RemoveChains(c, broken)
           joining(t) == WaitingFor(c, t) \ (IF t \in broken THEN lost ELSE {})
           peers == [t \in Targets |-> IF t \in HeadTargets
                                       THEN r.peers[t] \cup joining(t) ELSE r.peers[t]]
<1>2. broken \in SUBSET Targets
  BY <1>0 DEF Collections, Targets
<1>3. Sound(r)
  BY <1>2, RemoveChainsSound
<1>4. Peered(r)
  <2>1. \A t \in Targets \ broken : (t \in Chains(c)) <=> (c.peers[t] # {})
    BY DEF Peered
  <2> QED
    BY <1>0, <1>2, <2>1, RemoveChainsPeered
<1>5. r.state.kind # "Finalized"
  <2>1. r.state = StateWithout(c, broken)
    BY <1>0, <1>2, RemoveChainsFields
  <2> QED
    BY <2>1 DEF StateWithout, HeadState, Idle
<1>6. d = [r EXCEPT !.head = @ \cup {t \in HeadTargets : joining(t) # {}},
                    !.peers = peers,
                    !.awaiting = [p \in Peers |-> NoTarget]]
  BY <1>1 DEF Drain
<1> HIDE DEF r
<1>7. r \in Collections /\ Matching(r) /\ r.asserted /\ Bounded(r)
  BY <1>3 DEF Sound
<1>8. peers \in [Targets -> SUBSET Peers]
  BY <1>7 DEF Collections, WaitingFor
<1> HIDE DEF peers
<1>9. /\ d \in Collections /\ d.finalized = r.finalized
      /\ d.head = r.head \cup {t \in HeadTargets : joining(t) # {}}
      /\ d.peers = peers /\ d.syncing = r.syncing /\ d.state = r.state
      /\ d.awaiting = [p \in Peers |-> NoTarget]
  <2> HIDE DEF joining
  <2>1. [p \in Peers |-> NoTarget] \in [Peers -> HeadTargets \cup {NoTarget}]
    OBVIOUS
  <2> QED
    BY <1>6, <1>7, <1>8, <2>1 DEF Collections
<1>10. d.asserted
  BY <1>6, <1>7 DEF Collections
<1>11. d.syncing \cap d.head = r.syncing \cap r.head /\ d.syncing \subseteq d.head
  BY <1>5, <1>7, <1>9 DEF Matching
<1>12. Matching(d) /\ Bounded(d)
  BY <1>5, <1>7, <1>9, <1>11 DEF Matching, Bounded, Chains
<1>13. Peered(d)
  <2>1. r.finalized \cap HeadTargets = {}
    BY <1>7, TargetsAssumption DEF Collections
  <2>2. \A t \in Targets : d.peers[t] = IF t \in HeadTargets THEN r.peers[t] \cup joining(t)
                                         ELSE r.peers[t]
    <3> HIDE DEF joining
    <3> QED BY <1>9 DEF peers
  <2> HIDE DEF joining
  <2>3. \A t \in Targets \ HeadTargets : (t \in Chains(d)) <=> (d.peers[t] # {})
    BY <1>4, <1>7, <1>9, <2>2 DEF Peered, Chains, Collections
  <2>4. \A t \in HeadTargets : (t \in Chains(d)) <=> (d.peers[t] # {})
    BY <1>4, <1>9, <2>1, <2>2 DEF Peered, Chains, Targets
  <2> QED
    BY <2>3, <2>4 DEF Peered
<1> QED
  BY <1>5, <1>9, <1>10, <1>12, <1>13 DEF Sound

(* Starting head chains once no finalized chain is syncing. *)
LEMMA StartHeadsSound ==
    ASSUME NEW c, Sound(c), Peered(c), c.state.kind # "Finalized",
           NEW d \in StartSomeHeads(c)
    PROVE  Sound(d) /\ Peered(d) /\ d.awaiting = c.awaiting
<1>0. c \in Collections /\ Matching(c) /\ c.asserted
  BY DEF Sound
<1>1. PICK started \in SUBSET c.head, failed \in SUBSET c.head :
          StartsInOrder(c, started, failed) /\ d = StartHeads(c, started, failed)
  BY DEF StartSomeHeads
<1>2. started \cap failed = {} /\ Cardinality(started) <= PARALLEL_HEAD_CHAINS
  BY <1>1 DEF StartsInOrder
<1> DEFINE peers == [t \in Targets |-> IF t \in failed THEN {} ELSE c.peers[t]]
<1>3. peers \in [Targets -> SUBSET Peers]
  BY <1>0 DEF Collections
<1>4. d = [c EXCEPT !.head = @ \ failed, !.peers = peers,
                    !.syncing = (@ \ c.head) \cup started, !.state = HeadState(started)]
  BY <1>1 DEF StartHeads
<1>5. HeadState(started) \in [kind : {"Idle", "Head", "Finalized"}, ids : SUBSET Targets]
  BY <1>0 DEF HeadState, Idle, Collections, Targets
<1> HIDE DEF peers
<1>6. (c.syncing \ c.head) \cup started = started
  BY <1>0 DEF Matching
<1>7. /\ d \in Collections /\ d.finalized = c.finalized /\ d.head = c.head \ failed
      /\ d.peers = peers /\ d.syncing = started /\ d.state = HeadState(started)
      /\ d.awaiting = c.awaiting
  BY <1>0, <1>3, <1>4, <1>5, <1>6 DEF Collections, Targets
<1>8. d.asserted
  BY <1>0, <1>4 DEF Collections
<1>9. Matching(d)
  BY <1>2, <1>7 DEF Matching, HeadState, Idle, Chains
<1>10. Bounded(d)
  <2>1. d.syncing \cap d.head = started
    BY <1>2, <1>7
  <2> QED
    BY <1>2, <2>1 DEF Bounded
<1>11. Peered(d)
  <2>1. c.finalized \cap c.head = {}
    BY <1>0, TargetsAssumption DEF Collections
  <2> QED
    BY <1>0, <1>7, <2>1 DEF Peered, Chains, peers, Collections
<1> QED
  BY <1>7, <1>8, <1>9, <1>10, <1>11 DEF Sound

(* A peer waits for its head chain only while there is a finalized chain. *)
Settled(c) == (\E p \in Peers : c.awaiting[p] # NoTarget) => c.finalized # {}

(* ChainCollection::update keeps the collection sound and settles it. *)
LEMMA UpdateSound ==
    ASSUME NEW c, Sound(c), Peered(c), NEW outdated, NEW d \in update(c, outdated)
    PROVE  Sound(d) /\ Peered(d) /\ Settled(d)
<1> DEFINE p == purge_outdated_chains(c, outdated)
<1>1. Sound(p) /\ Peered(p)
  BY PurgeSound
<1>2. PICK f \in update_finalized_chains(p) :
          d \in (IF f.state.kind = "Finalized" THEN {f} ELSE update_head_chains(f))
  BY DEF update
<1> HIDE DEF p
<1>3. Sound(f) /\ Peered(f)
  BY <1>1, <1>2, UpdateFinalizedSound
<1>4. CASE f.state.kind = "Finalized"
  <2>1. d = f
    BY <1>2, <1>4
  <2>2. d.finalized # {}
    BY <1>3, <1>4, <2>1 DEF Sound, Matching
  <2> QED
    BY <1>3, <2>1, <2>2 DEF Settled
<1>5. CASE f.state.kind # "Finalized"
  <2>1. PICK g \in DrainAwaiting(f) : d \in StartSomeHeads(g)
    BY <1>2, <1>5 DEF update_head_chains
  <2>2. /\ Sound(g) /\ Peered(g) /\ g.state.kind # "Finalized"
        /\ g.awaiting = [q \in Peers |-> NoTarget]
    BY <1>3, <1>5, DrainSound
  <2>3. Sound(d) /\ Peered(d) /\ d.awaiting = g.awaiting
    BY <2>1, <2>2, StartHeadsSound
  <2> QED
    BY <2>2, <2>3 DEF Settled
<1> QED
  BY <1>4, <1>5

-----------------------------------------------------------------------------
(***************************************************************************)
(* The invariants of the module are inductive together.                    *)
(***************************************************************************)
Inv == /\ TypeOK
       /\ StateMatchesChains /\ DebugAssertsHold
       /\ ChainsHavePeers /\ HeadChainsAreBounded /\ NoForgottenHeadPeers

(* Init establishes the invariant. *)
LEMMA InvInit == Init => Inv
<1> SUFFICES ASSUME Init PROVE Inv
  OBVIOUS
<1>1. /\ chains \in Collections
      /\ chains.finalized = {} /\ chains.head = {} /\ chains.syncing = {}
      /\ chains.peers = [t \in Targets |-> {}]
      /\ chains.state = [kind |-> "Idle", ids |-> {}]
      /\ chains.awaiting = [p \in Peers |-> NoTarget]
  BY DEF Init, Collections, Idle
<1>2. chains.asserted
  BY DEF Init
<1>3. TypeOK
  BY <1>1 DEF Init, TypeOK, Done
<1>4. StateMatchesChains
  BY <1>1 DEF StateMatchesChains, Matching, Chains
<1>5. ChainsHavePeers
  BY <1>1 DEF ChainsHavePeers, Peered, Chains
<1>6. HeadChainsAreBounded
  <2>1. chains.syncing \cap chains.head = {}
    BY <1>1
  <2> QED
    BY <2>1, FS_EmptySet, TargetsAssumption DEF HeadChainsAreBounded, Bounded
<1>7. NoForgottenHeadPeers
  BY <1>1 DEF NoForgottenHeadPeers
<1> QED
  BY <1>2, <1>3, <1>4, <1>5, <1>6, <1>7 DEF Inv, DebugAssertsHold

(* Every step keeps the invariant. *)
LEMMA InvStep == Inv /\ [Next]_vars => Inv'
<1> SUFFICES ASSUME Inv, [Next]_vars PROVE Inv'
  OBVIOUS
<1>1. Sound(chains) /\ Peered(chains) /\ chains \in Collections
  BY DEF Inv, TypeOK, Sound, StateMatchesChains, DebugAssertsHold, ChainsHavePeers,
         HeadChainsAreBounded
<1>2. /\ failed_chains \subseteq FinalizedTargets
      /\ pending \in [reports : Nat, peer : SUBSET Peers, target : HeadTargets \cup {NoTarget}]
      /\ (pending.peer # {} => pending.target \in HeadTargets)
  BY DEF Inv, TypeOK
<1>3. pending = Done => Settled(chains)
  BY DEF Inv, NoForgottenHeadPeers, Settled
<1>4. Done \in [reports : Nat, peer : SUBSET Peers, target : HeadTargets \cup {NoTarget}]
      /\ Done.peer = {}
  BY DEF Done
<1> DEFINE Kept == /\ Sound(chains') /\ Peered(chains')
                   /\ failed_chains' \subseteq FinalizedTargets
                   /\ pending' \in [reports : Nat, peer : SUBSET Peers,
                                    target : HeadTargets \cup {NoTarget}]
                   /\ (pending'.peer # {} => pending'.target \in HeadTargets)
                   /\ (pending' = Done => Settled(chains'))
<1>5. SUFFICES Kept
  BY DEF Inv, TypeOK, Sound, StateMatchesChains, DebugAssertsHold, ChainsHavePeers,
         HeadChainsAreBounded, NoForgottenHeadPeers, Settled
(* Clearing the entry of a waiting peer changes nothing else. *)
<1>6. ASSUME NEW peer \in Peers
      PROVE  LET w == [chains EXCEPT !.awaiting[peer] = NoTarget]
             IN  /\ Sound(w) /\ Peered(w) /\ w.finalized = chains.finalized
                 /\ Settled(chains) => Settled(w)
  <2> DEFINE w == [chains EXCEPT !.awaiting[peer] = NoTarget]
  <2>1. [chains.awaiting EXCEPT ![peer] = NoTarget] \in [Peers -> HeadTargets \cup {NoTarget}]
    BY <1>1 DEF Collections
  <2>2. /\ w \in Collections /\ w.finalized = chains.finalized /\ w.head = chains.head
        /\ w.peers = chains.peers /\ w.syncing = chains.syncing /\ w.state = chains.state
        /\ w.asserted = chains.asserted
        /\ w.awaiting = [chains.awaiting EXCEPT ![peer] = NoTarget]
    BY <1>1, <2>1 DEF Collections
  <2> HIDE DEF w
  <2>3. Sound(w) /\ Peered(w)
    BY <1>1, <2>2 DEF Sound, Matching, Bounded, Chains, Peered
  <2>4. Settled(chains) => Settled(w)
    BY <1>1, <2>2 DEF Settled, Collections
  <2> QED
    BY <2>2, <2>3, <2>4 DEF w
<1>7. ASSUME NEW peer \in Peers, NEW target \in FinalizedTargets, NEW outdated,
             AddFinalizedPeer(peer, target, outdated)
      PROVE  Kept
  <2>1. PICK c \in add_peer_or_create_chain([chains EXCEPT !.awaiting[peer] = NoTarget],
                                            peer, target) :
            chains' \in update(c, outdated)
    BY <1>7 DEF AddFinalizedPeer
  <2>2. Sound(c) /\ Peered(c)
    BY <1>6, AddPeerSound DEF Targets
  <2>3. Sound(chains') /\ Peered(chains') /\ Settled(chains')
    BY <2>1, <2>2, UpdateSound
  <2> QED
    BY <1>2, <1>7, <2>3 DEF AddFinalizedPeer
<1>8. ASSUME NEW peer \in Peers, NEW target \in HeadTargets, AddWaitingPeer(peer, target)
      PROVE  Kept
  <2>1. [chains.awaiting EXCEPT ![peer] = target] \in [Peers -> HeadTargets \cup {NoTarget}]
    BY <1>1 DEF Collections
  <2>2. /\ chains' \in Collections /\ chains'.finalized = chains.finalized
        /\ chains'.head = chains.head /\ chains'.peers = chains.peers
        /\ chains'.syncing = chains.syncing /\ chains'.state = chains.state
        /\ chains'.asserted = chains.asserted
    BY <1>1, <1>8, <2>1 DEF Collections, AddWaitingPeer
  <2>3. Sound(chains') /\ Peered(chains')
    BY <1>1, <2>2 DEF Sound, Matching, Bounded, Chains, Peered
  <2>4. Settled(chains')
    BY <1>8, <2>2 DEF AddWaitingPeer, Settled
  <2> QED
    BY <1>2, <1>8, <2>3, <2>4 DEF AddWaitingPeer
<1>9. ASSUME NEW peer \in Peers, NEW target \in HeadTargets, AddHeadPeer(peer, target)
      PROVE  Kept
  <2>1. /\ chains' = RemovePeer(chains, peer)
        /\ pending' = [reports |-> RemovedBy(chains, chains'), peer |-> {peer}, target |-> target]
        /\ failed_chains' = failed_chains
    BY <1>9 DEF AddHeadPeer
  <2>2. Sound(chains') /\ Peered(chains') /\ RemovedBy(chains, chains') \in Nat
    BY <1>1, <2>1, RemovePeerSound
  <2>3. pending' # Done
    BY <2>1 DEF Done
  <2> QED
    BY <1>2, <2>1, <2>2, <2>3
<1>10. ASSUME NEW peer \in Peers, PeerDisconnect(peer)
       PROVE  Kept
  <2> DEFINE w == [chains EXCEPT !.awaiting[peer] = NoTarget]
  <2>1. /\ chains' = RemovePeer(w, peer)
        /\ pending' = [Done EXCEPT !.reports = RemovedBy(chains, RemovePeer(chains, peer))]
        /\ failed_chains' = failed_chains /\ pending = Done
    BY <1>10 DEF PeerDisconnect, NextHandler
  <2>2. Sound(w) /\ Peered(w) /\ w.finalized = chains.finalized /\ Settled(w)
    BY <1>3, <1>6, <2>1
  <2>3. w \in Collections
    BY <2>2 DEF Sound
  <2>4. RemovePeer(w, peer).finalized = RemovePeer(chains, peer).finalized
    BY <1>1 DEF Collections, RemovePeer, RemoveChains, Chains
  <2> HIDE DEF w
  <2>5. /\ Sound(chains') /\ Peered(chains') /\ chains'.awaiting = w.awaiting
    BY <2>1, <2>2, RemovePeerSound
  <2>6. /\ RemovedBy(chains, RemovePeer(chains, peer)) \in Nat
        /\ RemovedBy(chains, RemovePeer(chains, peer)) = 0 =>
               RemovePeer(chains, peer).finalized = chains.finalized
    BY <1>1, RemovePeerSound
  <2>7. pending' = Done => RemovedBy(chains, RemovePeer(chains, peer)) = 0
    BY <2>1 DEF Done
  <2>8. pending' = Done => Settled(chains')
    BY <2>1, <2>2, <2>4, <2>5, <2>6, <2>7 DEF Settled
  <2>9. pending' \in [reports : Nat, peer : SUBSET Peers, target : HeadTargets \cup {NoTarget}]
        /\ pending'.peer = {}
    BY <2>1, <2>6 DEF Done
  <2> QED
    BY <1>2, <2>1, <2>5, <2>8, <2>9
<1>11. ASSUME NEW outdated, FinishAddHeadPeer(outdated)
       PROVE  Kept
  <2>1. PICK peer \in pending.peer :
            \E c \in add_peer_or_create_chain([chains EXCEPT !.awaiting[peer] = NoTarget],
                                              peer, pending.target) :
                chains' \in update(c, outdated)
    BY <1>11 DEF FinishAddHeadPeer
  <2>2. PICK c \in add_peer_or_create_chain([chains EXCEPT !.awaiting[peer] = NoTarget],
                                            peer, pending.target) :
            chains' \in update(c, outdated)
    BY <2>1
  <2>3. peer \in Peers /\ pending.target \in Targets
    BY <1>2, <2>1 DEF Targets
  <2>4. Sound(c) /\ Peered(c)
    BY <1>6, <2>2, <2>3, AddPeerSound
  <2>5. Sound(chains') /\ Peered(chains') /\ Settled(chains')
    BY <2>2, <2>4, UpdateSound
  <2> QED
    BY <1>2, <1>4, <1>11, <2>5 DEF FinishAddHeadPeer
<1>12. ASSUME NEW outdated, OnChainRemoved(outdated)
       PROVE  Kept
  <2>1. Sound(chains') /\ Peered(chains') /\ Settled(chains')
    BY <1>1, <1>12, UpdateSound DEF OnChainRemoved
  <2>2. /\ pending' \in [reports : Nat, peer : SUBSET Peers, target : HeadTargets \cup {NoTarget}]
        /\ pending'.peer = pending.peer /\ pending'.target = pending.target
    BY <1>2, <1>12 DEF OnChainRemoved
  <2> QED
    BY <1>2, <1>12, <2>1, <2>2 DEF OnChainRemoved
<1>13. ASSUME NEW id \in Targets, NEW blacklisted \in SUBSET ({id} \cap FinalizedTargets),
              NEW outdated, ChainEnds(id, blacklisted, outdated)
       PROVE  Kept
  <2>1. Sound(RemoveChains(chains, {id}))
    BY <1>1, RemoveChainsSound
  <2>2. Peered(RemoveChains(chains, {id}))
    <3>1. \A t \in Targets \ {id} : (t \in Chains(chains)) <=> (chains.peers[t] # {})
      BY <1>1 DEF Peered
    <3>2. {id} \in SUBSET Targets
      OBVIOUS
    <3> QED
      BY <1>1, <3>1, <3>2, RemoveChainsPeered
  <2>3. Sound(chains') /\ Peered(chains') /\ Settled(chains')
    BY <1>13, <2>1, <2>2, UpdateSound DEF ChainEnds
  <2> QED
    BY <1>2, <1>13, <2>3 DEF ChainEnds
<1>14. ASSUME NEW failing \in SUBSET Targets, Resume(failing)
       PROVE  Kept
  <2>1. /\ chains' = RemoveChains(chains, failing)
        /\ pending' = [Done EXCEPT !.reports = Cardinality(failing)]
        /\ failed_chains' = failed_chains /\ pending = Done
    BY <1>14 DEF Resume, NextHandler
  <2>2. Sound(chains')
    BY <1>1, <2>1, RemoveChainsSound
  <2>3. Peered(chains')
    <3>1. \A t \in Targets \ failing : (t \in Chains(chains)) <=> (chains.peers[t] # {})
      BY <1>1 DEF Peered
    <3> QED
      BY <1>1, <2>1, <3>1, RemoveChainsPeered
  <2>4. chains'.finalized = chains.finalized \ failing /\ chains'.awaiting = chains.awaiting
    BY <1>1, <2>1, RemoveChainsFields
  <2>5. IsFiniteSet(failing)
    BY FS_Union, FS_Subset, TargetsAssumption DEF Targets
  <2>6. Cardinality(failing) \in Nat /\ (Cardinality(failing) = 0 => failing = {})
    BY <2>5, FS_CardinalityType, FS_EmptySet
  <2>7. pending' = Done => Settled(chains')
    <3>1. pending' = Done => Cardinality(failing) = 0
      BY <2>1 DEF Done
    <3> QED
      BY <1>3, <2>1, <2>4, <2>6, <3>1 DEF Settled
  <2>8. pending' \in [reports : Nat, peer : SUBSET Peers, target : HeadTargets \cup {NoTarget}]
        /\ pending'.peer = {}
    BY <2>1, <2>6 DEF Done
  <2> QED
    BY <1>2, <2>1, <2>2, <2>3, <2>7, <2>8
<1>15. ASSUME NEW target \in FinalizedTargets, FailedChainExpires(target)
       PROVE  Kept
  BY <1>1, <1>2, <1>3, <1>15 DEF FailedChainExpires
<1>16. ASSUME UNCHANGED vars
       PROVE  Kept
  BY <1>1, <1>2, <1>3, <1>16 DEF vars
<1> QED
  BY <1>7, <1>8, <1>9, <1>10, <1>11, <1>12, <1>13, <1>14, <1>15, <1>16 DEF Next

(* The invariant holds in every reachable state. *)
LEMMA InvHolds == Spec => []Inv
BY InvInit, InvStep, PTL DEF Spec

(***************************************************************************)
(* The state of the collection and the chains that sync agree: whatever    *)
(* the handlers of RangeSync do, for any number of chains and peers.       *)
(***************************************************************************)
THEOREM StateIsConsistent == Spec => []StateMatchesChains
<1>1. Inv => StateMatchesChains
  BY DEF Inv
<1> QED
  BY <1>1, InvHolds, PTL

(* The debug_asserts of ChainCollection::on_chain_removed never fail. *)
THEOREM AssertsNeverFail == Spec => []DebugAssertsHold
<1>1. Inv => DebugAssertsHold
  BY DEF Inv
<1> QED
  BY <1>1, InvHolds, PTL

(* A chain of the collection always has a peer to download from. *)
THEOREM NoEmptyChain == Spec => []ChainsHavePeers
<1>1. Inv => ChainsHavePeers
  BY DEF Inv
<1> QED
  BY <1>1, InvHolds, PTL

(* Never more than PARALLEL_HEAD_CHAINS head chains are syncing. *)
THEOREM BoundedHeadChains == Spec => []HeadChainsAreBounded
<1>1. Inv => HeadChainsAreBounded
  BY DEF Inv
<1> QED
  BY <1>1, InvHolds, PTL

(* Between handlers, no head peer waits for a finalized chain that is gone. *)
THEOREM HeadPeersAreServed == Spec => []NoForgottenHeadPeers
<1>1. Inv => NoForgottenHeadPeers
  BY DEF Inv
<1> QED
  BY <1>1, InvHolds, PTL

=============================================================================
