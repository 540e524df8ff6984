-------------------------- MODULE ForkChoiceProofs --------------------------
(***************************************************************************)
(* The invariants of ForkChoice, for every block tree, every number of     *)
(* validators and every sequence of calls.                                 *)
(***************************************************************************)
EXTENDS ForkChoice, ProtoArrayProofs

(***************************************************************************)
(* The inductive invariant                                                 *)
(***************************************************************************)

\* What every call leaves of the tree.
TreeOK(pa) ==
    /\ pa \in ProtoArrays
    /\ IsTree(pa.nodes)
    /\ LinksOK(pa.nodes)
    /\ StatusesOK(pa.nodes, ValidPayloads)

VoteTrackers ==
    [Validators -> [current : Roots \cup {ZeroHash}, next : Roots \cup {ZeroHash},
                    next_epoch : Nat]]

ProtoOK(proto) ==
    /\ proto \in [pa : ProtoArrays, votes : VoteTrackers, balances : Seq(Nat)]
    /\ TreeOK(proto.pa)

Stores ==
    [time : 0..MaxSlot, justified : JustifiedCheckpoints, finalized : FinalizedCheckpoints,
     unrealized_justified : JustifiedCheckpoints, unrealized_finalized : FinalizedCheckpoints,
     proposer_boost_root : Roots \cup {ZeroHash}, equivocating : SUBSET Validators]

InTree(nodes, root) == \E i \in DOMAIN nodes : nodes[i].root = root

\* A checkpoint that is not older than the finalized one is of a block in the tree.
CheckpointOK(nodes, st, c) == c.epoch >= st.finalized.epoch => InTree(nodes, c.root)

\* A node behind the finalized block has a parent in the tree: pruning cuts at the finalized
\* block, and only blocks with a known parent come in.
Rooted(nodes, root) ==
    \A i \in DOMAIN nodes :
        root \in Chain(nodes[i].root) /\ nodes[i].root # root => nodes[i].parent # NoIndex

StoreOK(nodes, st) ==
    /\ st \in Stores
    /\ st.finalized.epoch <= st.justified.epoch
    /\ st.unrealized_finalized.epoch <= st.unrealized_justified.epoch
    /\ InTree(nodes, st.finalized.root)
    /\ CheckpointOK(nodes, st, st.justified)
    /\ CheckpointOK(nodes, st, st.unrealized_justified)
    /\ CheckpointOK(nodes, st, st.unrealized_finalized)
    /\ Rooted(nodes, st.finalized.root)

QueueOK(queue) == queue \in Seq(Attestations) /\ Len(queue) <= MaxQueue

IInv == ProtoOK(proto_array) /\ StoreOK(Nodes, store) /\ QueueOK(queued_attestations)

-----------------------------------------------------------------------------
(***************************************************************************)
(* Chains of blocks                                                        *)
(***************************************************************************)

\* S holds the parents of its blocks.
HasParents(S) == \A r \in S : Block[r].parent \in S \cup {ZeroHash}

LEMMA BlockFacts ==
    ASSUME NEW r \in Roots
    PROVE  /\ r # ZeroHash
           /\ Block[r].slot \in Nat
           /\ Block[r].parent \in Roots \cup {ZeroHash}
           /\ Block[r].parent # ZeroHash => /\ Block[r].parent \in Roots
                                            /\ Block[Block[r].parent].slot < Block[r].slot
           /\ {Block[r].justified, Block[r].finalized, Block[r].unrealized_justified,
               Block[r].unrealized_finalized} \subseteq Checkpoints
BY BlockAssumption

\* Chain(root) is the smallest set with root that holds the parents of its blocks.
LEMMA ChainIsLeast ==
    ASSUME NEW root \in Roots, NEW S \in SUBSET Roots, root \in S, HasParents(S)
    PROVE  Chain(root) \subseteq S
BY DEF Chain, HasParents

LEMMA ChainFacts ==
    ASSUME NEW root \in Roots
    PROVE  Chain(root) \in SUBSET Roots /\ root \in Chain(root) /\ HasParents(Chain(root))
<1>1. Chain(root) \in SUBSET Roots /\ root \in Chain(root)
  BY DEF Chain
<1>2. ASSUME NEW r \in Chain(root), Block[r].parent # ZeroHash
      PROVE  Block[r].parent \in Chain(root)
  <2>1. Block[r].parent \in Roots
    BY <1>1, <1>2, BlockFacts
  <2>2. ASSUME NEW S \in SUBSET Roots, root \in S, HasParents(S)
        PROVE  Block[r].parent \in S
    <3>1. r \in S
      BY <2>2, ChainIsLeast
    <3> QED BY <1>2, <2>2, <3>1 DEF HasParents
  <2> QED BY <2>1, <2>2 DEF Chain, HasParents
<1> QED
  BY <1>1, <1>2 DEF HasParents

LEMMA ChainGoesOn ==
    ASSUME NEW root \in Roots, NEW a \in Chain(root)
    PROVE  a \in Roots /\ Chain(a) \subseteq Chain(root)
BY ChainFacts, ChainIsLeast

\* What is before a block is itself or before its parent.
LEMMA ChainSteps ==
    ASSUME NEW root \in Roots, NEW a \in Chain(root), a # root
    PROVE  /\ Block[root].parent \in Roots
           /\ a \in Chain(Block[root].parent)
<1> DEFINE p == Block[root].parent
           S == {root} \cup (IF p = ZeroHash THEN {} ELSE Chain(p))
<1>1. p \in Roots \cup {ZeroHash}
  BY BlockFacts
<1>2. p \in Roots => Chain(p) \in SUBSET Roots /\ p \in Chain(p) /\ HasParents(Chain(p))
  BY ChainFacts
<1>3. S \in SUBSET Roots /\ root \in S
  BY <1>1, <1>2
<1>4. HasParents(S)
  BY <1>1, <1>2 DEF HasParents
<1> HIDE DEF S
<1>5. a \in S
  BY <1>3, <1>4, ChainIsLeast
<1> QED
  BY <1>1, <1>5 DEF S

LEMMA ChainOfParent ==
    ASSUME NEW root \in Roots, Block[root].parent # ZeroHash
    PROVE  Chain(Block[root].parent) \subseteq Chain(root)
<1>1. root \in Chain(root) /\ HasParents(Chain(root))
  BY ChainFacts
<1>2. Block[root].parent \in Chain(root)
  BY <1>1 DEF HasParents
<1> QED
  BY <1>2, ChainGoesOn

\* The slots rise along a chain, so two blocks are not before each other.
LEMMA ChainSlots ==
    ASSUME NEW root \in Roots, NEW a \in Chain(root), a # root
    PROVE  Block[a].slot < Block[root].slot
<1> DEFINE S == {r \in Roots : r = root \/ Block[r].slot < Block[root].slot}
<1>1. ASSUME NEW r \in S PROVE Block[r].parent \in S \cup {ZeroHash}
  <2>1. /\ Block[r].slot \in Nat /\ Block[root].slot \in Nat
        /\ Block[r].parent # ZeroHash => /\ Block[r].parent \in Roots
                                         /\ Block[Block[r].parent].slot < Block[r].slot
    BY BlockFacts
  <2>2. CASE Block[r].parent = ZeroHash
    BY <2>2
  <2>3. CASE Block[r].parent # ZeroHash
    <3>1. Block[Block[r].parent].slot \in Nat
      BY <2>1, <2>3, BlockFacts
    <3>2. Block[r].slot <= Block[root].slot
      BY <2>1
    <3>3. Block[Block[r].parent].slot < Block[root].slot
      BY <2>1, <2>3, <3>1, <3>2
    <3> QED BY <2>1, <2>3, <3>3
  <2> QED BY <2>2, <2>3
<1>2. S \in SUBSET Roots /\ root \in S
  OBVIOUS
<1>3. HasParents(S)
  BY <1>1 DEF HasParents
<1> HIDE DEF S
<1>4. a \in S
  BY <1>2, <1>3, ChainIsLeast
<1> QED
  BY <1>4 DEF S

LEMMA ChainsDoNotLoop ==
    ASSUME NEW a \in Roots, NEW b \in Roots, a \in Chain(b), b \in Chain(a)
    PROVE  a = b
<1> SUFFICES ASSUME a # b PROVE FALSE
  OBVIOUS
<1>1. Block[a].slot < Block[b].slot /\ Block[b].slot < Block[a].slot
  BY ChainSlots
<1> QED
  BY <1>1, BlockFacts

\* The walk through the tree meets blocks of the chain.
LEMMA WalkIsOnChain ==
    ASSUME NEW nodes, IsTree(nodes), NEW i \in DOMAIN nodes, NEW j \in iter_nodes(nodes, i)
    PROVE  nodes[j].root \in Chain(nodes[i].root)
<1> DEFINE S == {k \in DOMAIN nodes :
                    \A x \in iter_nodes(nodes, k) : nodes[x].root \in Chain(nodes[k].root)}
<1>1. ASSUME NEW k \in DOMAIN nodes, nodes[k].parent # NoIndex => nodes[k].parent \in S
      PROVE  k \in S
  <2> DEFINE p == nodes[k].parent
  <2>1. iter_nodes(nodes, k) = {k} \cup iter_nodes(nodes, p) /\ iter_nodes(nodes, NoIndex) = {}
    BY Walk
  <2>2. nodes[k].root \in Roots /\ nodes[k].root \in Chain(nodes[k].root)
    BY TreeFacts, ChainFacts
  <2>3. CASE p = NoIndex
    BY <2>1, <2>2, <2>3
  <2>4. CASE p # NoIndex
    <3>1. p \in DOMAIN nodes /\ nodes[p].root \in Roots
      BY <2>4, TreeFacts
    <3>2. nodes[p].root = Block[nodes[k].root].parent
      BY <2>4 DEF IsTree
    <3>3. Chain(nodes[p].root) \subseteq Chain(nodes[k].root)
      BY <2>2, <3>1, <3>2, BlockFacts, ChainOfParent
    <3>4. \A x \in iter_nodes(nodes, p) : nodes[x].root \in Chain(nodes[p].root)
      BY <1>1, <2>4
    <3> QED BY <2>1, <2>2, <3>3, <3>4
  <2> QED BY <2>3, <2>4
<1> HIDE DEF S
<1>2. i \in S
  BY <1>1, TreeInduct
<1> QED
  BY <1>2 DEF S

\* Along a walk the slots fall.
LEMMA WalkSlots ==
    ASSUME NEW nodes, IsTree(nodes), NEW i \in DOMAIN nodes, NEW j \in iter_nodes(nodes, i), j # i
    PROVE  Block[nodes[j].root].slot < Block[nodes[i].root].slot
<1>1. j \in DOMAIN nodes
  BY WalkIsBack
<1>2. nodes[j].root # nodes[i].root /\ nodes[i].root \in Roots
  BY <1>1, TreeFacts DEF IsTree
<1> QED
  BY <1>2, WalkIsOnChain, ChainSlots

\* From a node behind the finalized block the walk meets every block between the two.
LEMMA WalkMeets ==
    ASSUME NEW nodes, IsTree(nodes), NEW f \in Roots, Rooted(nodes, f),
           NEW i \in DOMAIN nodes, NEW a \in Chain(nodes[i].root), f \in Chain(a)
    PROVE  \E x \in iter_nodes(nodes, i) : nodes[x].root = a
<1> DEFINE S == {k \in DOMAIN nodes : \A c \in Chain(nodes[k].root) :
                    f \in Chain(c) => \E x \in iter_nodes(nodes, k) : nodes[x].root = c}
<1>1. ASSUME NEW k \in DOMAIN nodes, nodes[k].parent # NoIndex => nodes[k].parent \in S
      PROVE  k \in S
  <2> DEFINE p == nodes[k].parent
             r == nodes[k].root
  <2>1. iter_nodes(nodes, k) = {k} \cup iter_nodes(nodes, p) /\ r \in Roots
    BY Walk, TreeFacts
  <2>2. ASSUME NEW c \in Chain(r), f \in Chain(c)
        PROVE  \E x \in iter_nodes(nodes, k) : nodes[x].root = c
    <3>1. CASE c = r
      BY <2>1, <3>1
    <3>2. CASE c # r
      <4>1. f \in Chain(r) /\ c \in Roots
        BY <2>1, <2>2, ChainGoesOn
      <4>2. r # f
        BY <2>1, <2>2, <3>2, <4>1, ChainsDoNotLoop
      <4>3. p # NoIndex
        BY <4>1, <4>2 DEF Rooted
      <4>4. nodes[p].root = Block[r].parent
        BY <4>3 DEF IsTree
      <4>5. c \in Chain(nodes[p].root)
        BY <2>1, <2>2, <3>2, <4>4, ChainSteps
      <4>6. PICK x \in iter_nodes(nodes, p) : nodes[x].root = c
        BY <1>1, <2>2, <4>3, <4>5
      <4> QED BY <2>1, <4>6
    <3> QED BY <3>1, <3>2
  <2> QED BY <2>2
<1> HIDE DEF S
<1>2. i \in S
  BY <1>1, TreeInduct
<1> QED
  BY <1>2 DEF S

\* is_descendant finds the finalized block from a node behind it.
LEMMA FinalizedIsFound ==
    ASSUME NEW pa, IsTree(pa.nodes), NEW f \in Roots, Rooted(pa.nodes, f),
           NEW c \in Roots, InTree(pa.nodes, c), f \in Chain(c)
    PROVE  is_descendant(pa, f, c) /\ InTree(pa.nodes, f)
<1> DEFINE nodes == pa.nodes
           i == IndexOf(nodes, c)
           slot == Block[f].slot
           at == {j \in iter_nodes(nodes, i) : Block[nodes[j].root].slot <= slot}
           m == Max(at)
<1>1. nodes \in Seq(Node) /\ Len(nodes) \in Nat /\ DOMAIN nodes = 1..Len(nodes)
  BY TreeFacts
<1>2. i \in DOMAIN nodes /\ nodes[i].root = c
  BY <1>1, IndexFacts DEF InTree
<1> HIDE DEF i
<1>3. PICK x \in iter_nodes(nodes, i) : nodes[x].root = f
  BY <1>2, ChainFacts, WalkMeets
<1>4. iter_nodes(nodes, i) \subseteq DOMAIN nodes
  BY <1>2, WalkIsBack
<1>5. x \in at /\ at \in SUBSET (0..Len(nodes)) /\ slot \in Nat
  BY <1>1, <1>3, <1>4, BlockFacts
<1>6. m \in at /\ x <= m
  <2> HIDE DEF at
  <2> QED BY <1>1, <1>5, MaxOfSet
<1> HIDE DEF m
<1>7. m = x
  <2> SUFFICES ASSUME m # x PROVE FALSE
    OBVIOUS
  <2>1. m \in DOMAIN nodes /\ x \in iter_nodes(nodes, m)
    BY <1>2, <1>4, <1>6, WalkIsChain
  <2>2. Block[f].slot < Block[nodes[m].root].slot
    BY <1>3, <2>1, WalkSlots
  <2>3. Block[nodes[m].root].slot \in Nat /\ Block[nodes[m].root].slot <= slot
    BY <1>6, <2>1, TreeFacts, BlockFacts
  <2> QED BY <1>5, <2>2, <2>3
<1>8. AncestorAt(nodes, i, slot) = f
  BY <1>3, <1>5, <1>7 DEF AncestorAt, m
<1>9. InTree(nodes, f) /\ IndexOf(nodes, f) # NoIndex
  BY <1>1, <1>3, <1>4, IndexFacts DEF InTree
<1> QED
  BY <1>8, <1>9 DEF is_descendant, i

-----------------------------------------------------------------------------
(***************************************************************************)
(* The store                                                               *)
(***************************************************************************)

LEMMA CheckpointFacts ==
    /\ JustifiedCheckpoints \subseteq Checkpoints
    /\ FinalizedCheckpoints \subseteq Checkpoints
    /\ \A c \in Checkpoints : c.epoch \in Nat /\ c.root \in Roots
<1>1. AnchorCheckpoint \in Checkpoints
  <2>1. Anchor \in Roots /\ Block[Anchor].slot \in Nat
    BY InputsAssumption, BlockFacts
  <2>2. SlotsPerEpoch \in Nat \ {0}
    BY ParametersAssumption
  <2>3. EpochOf(Block[Anchor].slot) \in Nat
    BY <2>1, <2>2 DEF EpochOf
  <2> QED BY <2>1, <2>3 DEF AnchorCheckpoint, Checkpoints
<1>2. \A r \in Roots : /\ Block[r].justified \in Checkpoints
                       /\ Block[r].finalized \in Checkpoints
                       /\ Block[r].unrealized_justified \in Checkpoints
                       /\ Block[r].unrealized_finalized \in Checkpoints
  BY BlockFacts
<1>3. \A c \in Checkpoints : c.epoch \in Nat /\ c.root \in Roots
  BY DEF Checkpoints
<1> QED
  BY <1>1, <1>2, <1>3 DEF JustifiedCheckpoints, FinalizedCheckpoints

LEMMA StoreFacts ==
    ASSUME NEW st \in Stores
    PROVE  /\ st.time \in Nat /\ st.time <= MaxSlot
           /\ st.justified \in JustifiedCheckpoints
           /\ st.finalized \in FinalizedCheckpoints
           /\ st.unrealized_justified \in JustifiedCheckpoints
           /\ st.unrealized_finalized \in FinalizedCheckpoints
           /\ {st.justified, st.finalized, st.unrealized_justified, st.unrealized_finalized}
                    \subseteq Checkpoints
           /\ st.proposer_boost_root \in Roots \cup {ZeroHash}
           /\ st.equivocating \subseteq Validators
<1>1. /\ st.time \in 0..MaxSlot
      /\ st.justified \in JustifiedCheckpoints
      /\ st.finalized \in FinalizedCheckpoints
      /\ st.unrealized_justified \in JustifiedCheckpoints
      /\ st.unrealized_finalized \in FinalizedCheckpoints
      /\ st.proposer_boost_root \in Roots \cup {ZeroHash}
      /\ st.equivocating \subseteq Validators
  BY DEF Stores
<1> QED
  BY <1>1, CheckpointFacts, InputsAssumption

\* Nodes behind a later finalized block are behind the earlier one.
LEMMA RootedLater ==
    ASSUME NEW nodes, IsTree(nodes), NEW f \in Roots, NEW g \in Roots, Rooted(nodes, f),
           f \in Chain(g)
    PROVE  Rooted(nodes, g)
<1> SUFFICES ASSUME NEW i \in DOMAIN nodes, g \in Chain(nodes[i].root), nodes[i].root # g
             PROVE  nodes[i].parent # NoIndex
  BY DEF Rooted
<1>1. nodes[i].root \in Roots
  BY TreeFacts
<1>2. f \in Chain(nodes[i].root)
  BY <1>1, ChainGoesOn
<1>3. nodes[i].root # f
  BY <1>1, ChainsDoNotLoop
<1> QED
  BY <1>2, <1>3 DEF Rooted

\* Newer is the checkpoint that replaces c when d is of a later epoch.
Newer(c, d) == IF d.epoch > c.epoch THEN d ELSE c

LEMMA UpdateIs ==
    ASSUME NEW st \in Stores, NEW j \in JustifiedCheckpoints, NEW f \in FinalizedCheckpoints
    PROVE  LET u == update_checkpoints(st, j, f)
           IN  /\ u.justified = Newer(st.justified, j)
               /\ u.finalized = Newer(st.finalized, f)
               /\ u.unrealized_justified = st.unrealized_justified
               /\ u.unrealized_finalized = st.unrealized_finalized
               /\ u.time = st.time
               /\ u \in Stores
<1> DEFINE x == Newer(st.justified, j)
           y == Newer(st.finalized, f)
           u == [st EXCEPT !.justified = x, !.finalized = y]
<1>1. x \in JustifiedCheckpoints /\ y \in FinalizedCheckpoints
  BY StoreFacts DEF Newer
<1>2. update_checkpoints(st, j, f) = u
  BY DEF update_checkpoints, Newer
<1> HIDE DEF x, y
<1>3. /\ u.justified = x /\ u.finalized = y /\ u.time = st.time
      /\ u.unrealized_justified = st.unrealized_justified
      /\ u.unrealized_finalized = st.unrealized_finalized
      /\ u \in Stores
  BY <1>1 DEF Stores
<1> QED
  BY <1>2, <1>3 DEF x, y

\* How far a call may move the store: the epochs never fall.
Advances(st, u) ==
    /\ u.time >= st.time
    /\ u.justified.epoch >= st.justified.epoch
    /\ u.finalized.epoch >= st.finalized.epoch

\* update_checkpoints with checkpoints whose blocks, if they matter, are in the tree.
LEMMA UpdateKeeps ==
    ASSUME NEW nodes, IsTree(nodes), NEW st, StoreOK(nodes, st),
           NEW j \in JustifiedCheckpoints, NEW f \in FinalizedCheckpoints, f.epoch <= j.epoch,
           CheckpointOK(nodes, st, j), CheckpointOK(nodes, st, f)
    PROVE  LET u == update_checkpoints(st, j, f)
           IN  StoreOK(nodes, u) /\ Advances(st, u)
<1> DEFINE u == update_checkpoints(st, j, f)
<1>1. st \in Stores
  BY DEF StoreOK
<1>2. /\ u.justified = Newer(st.justified, j)
      /\ u.finalized = Newer(st.finalized, f)
      /\ u.unrealized_justified = st.unrealized_justified
      /\ u.unrealized_finalized = st.unrealized_finalized
      /\ u.time = st.time
      /\ u \in Stores
  BY <1>1, UpdateIs
<1> HIDE DEF u
<1>3. /\ st.justified \in JustifiedCheckpoints /\ st.finalized \in FinalizedCheckpoints
      /\ st.unrealized_justified \in JustifiedCheckpoints
      /\ st.unrealized_finalized \in FinalizedCheckpoints
      /\ st.time \in Nat
  BY <1>1, StoreFacts
<1>4. /\ st.justified.epoch \in Nat /\ st.finalized.epoch \in Nat /\ j.epoch \in Nat
      /\ f.epoch \in Nat /\ st.finalized.root \in Roots /\ f.root \in Roots
      /\ st.unrealized_justified.epoch \in Nat /\ st.unrealized_finalized.epoch \in Nat
  BY <1>3, CheckpointFacts
<1>7. /\ u.justified.epoch \in Nat /\ u.finalized.epoch \in Nat
      /\ u.justified.epoch >= st.justified.epoch
      /\ u.finalized.epoch >= st.finalized.epoch
      /\ u.finalized.epoch <= u.justified.epoch
  BY <1>2, <1>4 DEF Newer, StoreOK
<1>8. InTree(nodes, u.finalized.root)
  BY <1>2, <1>4 DEF Newer, StoreOK, CheckpointOK
<1>9. \A c \in {st.justified, j, st.unrealized_justified, st.unrealized_finalized} :
        CheckpointOK(nodes, u, c)
  <2>1. \A c \in {st.justified, j, st.unrealized_justified, st.unrealized_finalized} :
            c.epoch \in Nat /\ CheckpointOK(nodes, st, c)
    BY <1>4 DEF StoreOK
  <2> QED BY <1>4, <1>7, <2>1 DEF CheckpointOK
<1>10. Rooted(nodes, u.finalized.root)
  <2>1. CASE u.finalized = st.finalized
    BY <2>1 DEF StoreOK
  <2>2. CASE u.finalized = f /\ f.epoch > st.finalized.epoch
    <3>1. st.finalized.root \in Chain(f.root)
      BY <1>3, <1>4, <2>2, AccountableSafety
    <3> QED BY <1>4, <2>2, <3>1, RootedLater DEF StoreOK
  <2> QED BY <1>2, <2>1, <2>2 DEF Newer
<1>11. CheckpointOK(nodes, u, u.justified)
  BY <1>2, <1>9 DEF Newer
<1>12. StoreOK(nodes, u)
  BY <1>2, <1>7, <1>8, <1>9, <1>10, <1>11 DEF StoreOK
<1>13. Advances(st, u)
  BY <1>2, <1>3, <1>7 DEF Advances
<1> QED
  BY <1>12, <1>13 DEF u

LEMMA AdvancesTwice ==
    ASSUME NEW a \in Stores, NEW b \in Stores, NEW c \in Stores, Advances(a, b), Advances(b, c)
    PROVE  Advances(a, c)
<1>1. \A s \in Stores : s.time \in Nat /\ s.justified.epoch \in Nat /\ s.finalized.epoch \in Nat
  BY StoreFacts, CheckpointFacts
<1> QED
  BY <1>1 DEF Advances

\* What the store says of the tree depends on the checkpoints only.
SameCheckpoints(st, u) ==
    /\ u.justified = st.justified
    /\ u.finalized = st.finalized
    /\ u.unrealized_justified = st.unrealized_justified
    /\ u.unrealized_finalized = st.unrealized_finalized

LEMMA SameStoreOK ==
    ASSUME NEW nodes, NEW st, StoreOK(nodes, st), NEW u \in Stores, SameCheckpoints(st, u)
    PROVE  StoreOK(nodes, u)
BY DEF StoreOK, SameCheckpoints, CheckpointOK

\* on_tick for the slots up to now, with the pull-up of an epoch's start.
LEMMA TicksKeep ==
    ASSUME NEW nodes, IsTree(nodes), NEW st, StoreOK(nodes, st), NEW now \in Nat, now <= MaxSlot
    PROVE  LET u == on_ticks(st, now)
           IN  StoreOK(nodes, u) /\ Advances(st, u)
<1> DEFINE ticked == [st EXCEPT !.time = now, !.proposer_boost_root = ZeroHash]
           v == update_checkpoints(ticked, st.unrealized_justified, st.unrealized_finalized)
           u == on_ticks(st, now)
<1>1. u = IF now <= st.time THEN st
          ELSE IF EpochOf(now) > EpochOf(st.time) THEN v ELSE ticked
  BY DEF on_ticks
<1>2. st \in Stores /\ MaxSlot \in Nat
  BY InputsAssumption DEF StoreOK
<1>3. /\ st.time \in Nat
      /\ st.justified.epoch \in Nat /\ st.finalized.epoch \in Nat
      /\ st.unrealized_justified \in JustifiedCheckpoints
      /\ st.unrealized_finalized \in FinalizedCheckpoints
  BY <1>2, StoreFacts, CheckpointFacts
<1>4. /\ ticked \in Stores /\ SameCheckpoints(st, ticked)
      /\ ticked.time = now
  <2>1. now \in 0..MaxSlot /\ ZeroHash \in Roots \cup {ZeroHash}
    BY <1>2
  <2>2. ticked \in Stores
    BY <1>2, <2>1 DEF Stores
  <2>3. ticked.time = now /\ SameCheckpoints(st, ticked)
    BY <1>2 DEF Stores, SameCheckpoints
  <2> QED BY <2>2, <2>3
<1> HIDE DEF ticked, u
<1>5. StoreOK(nodes, ticked) /\ (now >= st.time => Advances(st, ticked))
  BY <1>3, <1>4, SameStoreOK DEF Advances, SameCheckpoints
<1>6. CASE now <= st.time
  <2>1. u = st
    BY <1>1, <1>6
  <2> QED BY <1>3, <2>1 DEF Advances, u
<1>7. CASE now > st.time /\ EpochOf(now) > EpochOf(st.time)
  <2>1. u = v
    BY <1>1, <1>3, <1>7
  <2>2. /\ st.unrealized_finalized.epoch <= st.unrealized_justified.epoch
        /\ CheckpointOK(nodes, ticked, st.unrealized_justified)
        /\ CheckpointOK(nodes, ticked, st.unrealized_finalized)
    BY <1>4, <1>5 DEF StoreOK, SameCheckpoints
  <2>3. StoreOK(nodes, v) /\ Advances(ticked, v)
    BY <1>3, <1>5, <2>2, UpdateKeeps
  <2> HIDE DEF v
  <2>4. v \in Stores /\ Advances(st, ticked)
    BY <1>3, <1>5, <1>7, <2>3 DEF StoreOK
  <2>5. Advances(st, v)
    BY <1>2, <1>4, <2>3, <2>4, AdvancesTwice
  <2> QED BY <2>1, <2>3, <2>5 DEF u
<1>8. CASE now > st.time /\ ~(EpochOf(now) > EpochOf(st.time))
  <2>1. u = ticked
    BY <1>1, <1>3, <1>8
  <2> QED BY <1>3, <1>5, <1>8, <2>1 DEF u
<1> QED
  BY <1>3, <1>6, <1>7, <1>8

\* The checkpoints of a block behind the finalized one are of blocks in the tree, unless they
\* are too old to matter.
LEMMA BlockCheckpoints ==
    ASSUME NEW nodes, IsTree(nodes), NEW st, StoreOK(nodes, st), NEW root \in Roots,
           NEW p \in DOMAIN nodes, nodes[p].root = Block[root].parent,
           st.finalized.root \in Chain(Block[root].parent)
    PROVE  LET b == Block[root]
           IN  /\ b.justified \in JustifiedCheckpoints
               /\ b.unrealized_justified \in JustifiedCheckpoints
               /\ b.finalized \in FinalizedCheckpoints
               /\ b.unrealized_finalized \in FinalizedCheckpoints
               /\ b.finalized.epoch <= b.justified.epoch
               /\ b.unrealized_finalized.epoch <= b.unrealized_justified.epoch
               /\ CheckpointOK(nodes, st, b.justified)
               /\ CheckpointOK(nodes, st, b.finalized)
               /\ CheckpointOK(nodes, st, b.unrealized_justified)
               /\ CheckpointOK(nodes, st, b.unrealized_finalized)
<1> DEFINE b == Block[root]
           f == st.finalized
<1>1. /\ b.justified \in JustifiedCheckpoints
      /\ b.unrealized_justified \in JustifiedCheckpoints
      /\ b.finalized \in FinalizedCheckpoints
      /\ b.unrealized_finalized \in FinalizedCheckpoints
  BY DEF JustifiedCheckpoints, FinalizedCheckpoints
<1>2. b.parent \in Roots /\ b.parent # ZeroHash
  BY TreeFacts, BlockFacts
<1>3. /\ b.finalized.epoch <= b.justified.epoch
      /\ b.unrealized_finalized.epoch <= b.unrealized_justified.epoch
      /\ {b.justified.root, b.finalized.root, b.unrealized_justified.root,
          b.unrealized_finalized.root} \subseteq Chain(b.parent)
  BY <1>2, CheckpointsAssumption
<1>4. f \in FinalizedCheckpoints /\ f.root \in Roots /\ Rooted(nodes, f.root)
  <2>1. st \in Stores /\ Rooted(nodes, f.root)
    BY DEF StoreOK
  <2> QED BY <2>1, StoreFacts, CheckpointFacts
<1> HIDE DEF b, f
<1>5. ASSUME NEW c \in FinalizedCheckpoints \cup JustifiedCheckpoints, c.root \in Chain(b.parent)
      PROVE  CheckpointOK(nodes, st, c)
  <2> SUFFICES ASSUME c.epoch >= f.epoch PROVE InTree(nodes, c.root)
    BY DEF CheckpointOK, f
  <2>1. f.root \in Chain(c.root)
    BY <1>4, AccountableSafety
  <2>2. c.root \in Chain(nodes[p].root)
    BY <1>5 DEF b
  <2>3. PICK x \in iter_nodes(nodes, p) : nodes[x].root = c.root
    BY <1>4, <2>1, <2>2, WalkMeets
  <2>4. x \in DOMAIN nodes
    BY <2>3, WalkIsBack
  <2> QED BY <2>3, <2>4 DEF InTree
<1> QED
  BY <1>1, <1>3, <1>5 DEF b

\* A store that takes newer unrealized checkpoints.
LEMMA UnrealizedKeeps ==
    ASSUME NEW nodes, NEW st, StoreOK(nodes, st),
           NEW j \in JustifiedCheckpoints, NEW f \in FinalizedCheckpoints, f.epoch <= j.epoch,
           CheckpointOK(nodes, st, j), CheckpointOK(nodes, st, f)
    PROVE  LET u == [st EXCEPT !.unrealized_justified = IF j.epoch > @.epoch THEN j ELSE @,
                               !.unrealized_finalized = IF f.epoch > @.epoch THEN f ELSE @]
           IN  /\ StoreOK(nodes, u) /\ Advances(st, u)
               /\ u.finalized = st.finalized /\ u.time = st.time
<1> DEFINE x == Newer(st.unrealized_justified, j)
           y == Newer(st.unrealized_finalized, f)
           u == [st EXCEPT !.unrealized_justified = x, !.unrealized_finalized = y]
<1>1. u = [st EXCEPT !.unrealized_justified = IF j.epoch > @.epoch THEN j ELSE @,
                     !.unrealized_finalized = IF f.epoch > @.epoch THEN f ELSE @]
  BY DEF Newer
<1>2. st \in Stores
  BY DEF StoreOK
<1>3. x \in JustifiedCheckpoints /\ y \in FinalizedCheckpoints
  BY <1>2, StoreFacts DEF Newer
<1>4. y.epoch <= x.epoch
  <2>1. /\ st.unrealized_justified.epoch \in Nat /\ st.unrealized_finalized.epoch \in Nat
        /\ j.epoch \in Nat /\ f.epoch \in Nat
        /\ st.unrealized_finalized.epoch <= st.unrealized_justified.epoch
    BY <1>2, StoreFacts, CheckpointFacts DEF StoreOK
  <2> QED BY <2>1 DEF Newer
<1>5. CheckpointOK(nodes, st, x) /\ CheckpointOK(nodes, st, y)
  BY DEF Newer, StoreOK
<1> HIDE DEF x, y
<1>6. /\ u \in Stores
      /\ u.time = st.time /\ u.justified = st.justified /\ u.finalized = st.finalized
      /\ u.unrealized_justified = x /\ u.unrealized_finalized = y
  BY <1>2, <1>3 DEF Stores
<1> HIDE DEF u
<1>7. StoreOK(nodes, u)
  BY <1>4, <1>5, <1>6 DEF StoreOK, CheckpointOK
<1>8. Advances(st, u)
  <2>1. st.time \in Nat /\ st.justified.epoch \in Nat /\ st.finalized.epoch \in Nat
    BY <1>2, StoreFacts, CheckpointFacts
  <2> QED BY <1>6, <2>1 DEF Advances
<1> QED
  BY <1>1, <1>6, <1>7, <1>8

LEMMA LaterCheckpointOK ==
    ASSUME NEW nodes, NEW st \in Stores, NEW u \in Stores, Advances(st, u),
           NEW c \in Checkpoints, CheckpointOK(nodes, st, c)
    PROVE  CheckpointOK(nodes, u, c)
<1>1. c.epoch \in Nat /\ st.finalized.epoch \in Nat /\ u.finalized.epoch \in Nat
  BY StoreFacts, CheckpointFacts
<1> QED
  BY <1>1 DEF CheckpointOK, Advances

\* What on_block makes of the store, before the tree changes.
LEMMA BlockKeepsStore ==
    ASSUME NEW nodes, IsTree(nodes), NEW st, StoreOK(nodes, st), NEW root \in Roots,
           NEW p \in DOMAIN nodes, nodes[p].root = Block[root].parent,
           st.finalized.root \in Chain(Block[root].parent), NEW timely
    PROVE  LET u == StoreAfterBlock(root, st, timely)
           IN  StoreOK(nodes, u) /\ Advances(st, u)
<1> DEFINE b == Block[root]
           boost == IF timely /\ b.slot = st.time /\ st.proposer_boost_root = ZeroHash
                    THEN root ELSE st.proposer_boost_root
           boosted == [st EXCEPT !.proposer_boost_root = boost]
           realized == update_checkpoints(boosted, b.justified, b.finalized)
           seen == [realized EXCEPT
                    !.unrealized_justified = IF b.unrealized_justified.epoch > @.epoch
                                             THEN b.unrealized_justified ELSE @,
                    !.unrealized_finalized = IF b.unrealized_finalized.epoch > @.epoch
                                             THEN b.unrealized_finalized ELSE @]
           pulled == update_checkpoints(seen, b.unrealized_justified, b.unrealized_finalized)
           u == StoreAfterBlock(root, st, timely)
<1>1. u = IF EpochOf(b.slot) < EpochOf(st.time) THEN pulled ELSE seen
  BY DEF StoreAfterBlock
<1>2. st \in Stores
  BY DEF StoreOK
<1>3. /\ b.justified \in JustifiedCheckpoints
      /\ b.unrealized_justified \in JustifiedCheckpoints
      /\ b.finalized \in FinalizedCheckpoints
      /\ b.unrealized_finalized \in FinalizedCheckpoints
      /\ b.finalized.epoch <= b.justified.epoch
      /\ b.unrealized_finalized.epoch <= b.unrealized_justified.epoch
      /\ CheckpointOK(nodes, st, b.justified)
      /\ CheckpointOK(nodes, st, b.finalized)
      /\ CheckpointOK(nodes, st, b.unrealized_justified)
      /\ CheckpointOK(nodes, st, b.unrealized_finalized)
  BY BlockCheckpoints
<1>4. /\ b.justified \in Checkpoints /\ b.finalized \in Checkpoints
      /\ b.unrealized_justified \in Checkpoints /\ b.unrealized_finalized \in Checkpoints
  BY BlockFacts
<1>5. boost \in Roots \cup {ZeroHash}
  BY <1>2, StoreFacts
<1> HIDE DEF b, u, boost
<1>6. boosted \in Stores /\ SameCheckpoints(st, boosted) /\ boosted.time = st.time
  BY <1>2, <1>5 DEF Stores, SameCheckpoints
<1> HIDE DEF boosted
<1>7. StoreOK(nodes, boosted) /\ Advances(st, boosted)
  <2>1. st.time \in Nat /\ st.justified.epoch \in Nat /\ st.finalized.epoch \in Nat
    BY <1>2, StoreFacts, CheckpointFacts
  <2> QED BY <1>6, <2>1, SameStoreOK DEF Advances, SameCheckpoints
<1>8. CheckpointOK(nodes, boosted, b.justified) /\ CheckpointOK(nodes, boosted, b.finalized)
  BY <1>2, <1>3, <1>4, <1>6, <1>7, LaterCheckpointOK
<1>9. StoreOK(nodes, realized) /\ Advances(boosted, realized)
  BY <1>3, <1>7, <1>8, UpdateKeeps
<1> HIDE DEF realized
<1>10. realized \in Stores
  BY <1>9 DEF StoreOK
<1>11. Advances(st, realized)
  BY <1>2, <1>6, <1>7, <1>9, <1>10, AdvancesTwice
<1>12. /\ CheckpointOK(nodes, realized, b.unrealized_justified)
       /\ CheckpointOK(nodes, realized, b.unrealized_finalized)
  BY <1>2, <1>3, <1>4, <1>10, <1>11, LaterCheckpointOK
<1>13. StoreOK(nodes, seen) /\ Advances(realized, seen)
  BY <1>3, <1>9, <1>12, UnrealizedKeeps
<1> HIDE DEF seen
<1>14. seen \in Stores
  BY <1>13 DEF StoreOK
<1>15. Advances(st, seen)
  BY <1>2, <1>10, <1>11, <1>13, <1>14, AdvancesTwice
<1>16. /\ CheckpointOK(nodes, seen, b.unrealized_justified)
       /\ CheckpointOK(nodes, seen, b.unrealized_finalized)
  BY <1>2, <1>3, <1>4, <1>14, <1>15, LaterCheckpointOK
<1>17. StoreOK(nodes, pulled) /\ Advances(seen, pulled)
  BY <1>3, <1>13, <1>16, UpdateKeeps
<1> HIDE DEF pulled
<1>18. pulled \in Stores
  BY <1>17 DEF StoreOK
<1>19. Advances(st, pulled)
  BY <1>2, <1>14, <1>15, <1>17, <1>18, AdvancesTwice
<1>20. StoreOK(nodes, u) /\ Advances(st, u)
  BY <1>1, <1>13, <1>15, <1>17, <1>19
<1> QED
  BY <1>20 DEF u

-----------------------------------------------------------------------------
(***************************************************************************)
(* The store and a tree that changes                                       *)
(***************************************************************************)

LEMMA SameTreeKeepsStore ==
    ASSUME NEW a, IsTree(a), NEW b, SameTree(a, b), NEW st, StoreOK(a, st)
    PROVE  StoreOK(b, st)
<1>1. DOMAIN b = DOMAIN a /\ \A i \in DOMAIN a : b[i].root = a[i].root /\ b[i].parent = a[i].parent
  BY SameWalk DEF SameTree
<1>2. \A root : InTree(a, root) => InTree(b, root)
  BY <1>1 DEF InTree
<1>3. Rooted(b, st.finalized.root)
  BY <1>1 DEF Rooted, StoreOK
<1> QED
  BY <1>2, <1>3 DEF StoreOK, CheckpointOK

\* A new block has a parent in the tree.
LEMMA GrownKeepsStore ==
    ASSUME NEW a, IsTree(a), NEW b, IsTree(b), NEW root, NEW p \in Nat \ {NoIndex},
           Grown(a, b, root, p), NEW st, StoreOK(a, st)
    PROVE  StoreOK(b, st)
<1>1. DOMAIN a = 1..Len(a) /\ DOMAIN b = 1..Len(b) /\ Len(a) \in Nat /\ Len(b) = Len(a) + 1
  BY TreeFacts DEF Grown
<1>2. \A i \in DOMAIN a : i \in DOMAIN b /\ b[i].root = a[i].root /\ b[i].parent = a[i].parent
  BY <1>1 DEF Grown
<1>3. \A i \in DOMAIN b : i \in DOMAIN a \/ b[i].parent = p
  <2>1. \A i \in DOMAIN b : i \in DOMAIN a \/ i = Len(b)
    BY <1>1
  <2> QED BY <2>1 DEF Grown
<1>4. \A r : InTree(a, r) => InTree(b, r)
  BY <1>2 DEF InTree
<1>5. Rooted(b, st.finalized.root)
  <2>1. Rooted(a, st.finalized.root)
    BY DEF StoreOK
  <2> QED BY <1>2, <1>3, <2>1 DEF Rooted
<1> QED
  BY <1>4, <1>5 DEF StoreOK, CheckpointOK

\* Pruning keeps the finalized block and all that is behind it.
LEMMA DroppedKeepsStore ==
    ASSUME NEW a, IsTree(a), NEW st, StoreOK(a, st), NEW d \in Nat,
           d = 0 \/ d + 1 = IndexOf(a, st.finalized.root),
           NEW b \in Seq(Node), Dropped(a, b, d)
    PROVE  StoreOK(b, st)
<1> DEFINE f == st.finalized.root
           x == IndexOf(a, f)
<1>1. /\ DOMAIN a = 1..Len(a) /\ Len(a) \in Nat /\ DOMAIN b = 1..Len(b) /\ Len(b) \in Nat
      /\ Len(b) = Len(a) - d /\ a \in Seq(Node)
  BY TreeFacts, NodeFacts DEF Dropped
<1>2. st \in Stores /\ InTree(a, f) /\ Rooted(a, f)
  BY DEF StoreOK
<1>3. st.finalized \in FinalizedCheckpoints /\ f \in Roots /\ st.finalized.epoch \in Nat
  BY <1>2, StoreFacts, CheckpointFacts
<1>4. x \in DOMAIN a /\ a[x].root = f
  BY <1>1, <1>2, IndexFacts DEF InTree
<1>5. d < x
  BY <1>1, <1>4
<1> HIDE DEF x
<1>6. ASSUME NEW i \in DOMAIN a, f \in Chain(a[i].root) PROVE i >= x
  <2>1. PICK y \in iter_nodes(a, i) : a[y].root = f
    BY <1>2, <1>3, <1>6, ChainFacts, WalkMeets
  <2>2. y \in DOMAIN a /\ y <= i
    BY <1>1, <2>1, WalkIsBack
  <2>3. y = x
    BY <1>4, <2>1, <2>2 DEF IsTree
  <2> QED BY <1>1, <1>4, <2>2, <2>3
<1>7. ASSUME NEW i \in DOMAIN a, i >= x PROVE InTree(b, a[i].root)
  <2>1. i - d \in DOMAIN b /\ (i - d) + d = i
    BY <1>1, <1>4, <1>5, <1>7
  <2>2. b[i - d].root = a[(i - d) + d].root
    BY <2>1 DEF Dropped
  <2> QED BY <2>1, <2>2 DEF InTree
<1>8. InTree(b, f)
  BY <1>1, <1>4, <1>7
<1>9. ASSUME NEW c \in FinalizedCheckpoints \cup JustifiedCheckpoints, CheckpointOK(a, st, c)
      PROVE  CheckpointOK(b, st, c)
  <2> SUFFICES ASSUME c.epoch >= st.finalized.epoch PROVE InTree(b, c.root)
    BY DEF CheckpointOK
  <2>1. f \in Chain(c.root)
    BY <1>3, AccountableSafety
  <2>2. PICK i \in DOMAIN a : a[i].root = c.root
    BY <1>9 DEF CheckpointOK, InTree
  <2> QED BY <1>6, <1>7, <2>1, <2>2
<1>10. Rooted(b, f)
  <2> SUFFICES ASSUME NEW i \in DOMAIN b, f \in Chain(b[i].root), b[i].root # f
               PROVE  b[i].parent # NoIndex
    BY DEF Rooted
  <2> DEFINE k == i + d
             p == a[k].parent
  <2>1. k \in DOMAIN a /\ b[i].root = a[k].root /\ b[i].parent = Rebased(p, d + 1)
    BY <1>1 DEF Dropped
  <2>2. p # NoIndex /\ p \in DOMAIN a /\ a[p].root = Block[a[k].root].parent
    <3>1. p # NoIndex
      BY <1>2, <2>1 DEF Rooted
    <3> QED BY <2>1, <3>1, TreeFacts DEF IsTree
  <2>3. a[k].root \in Roots
    BY <2>1, TreeFacts
  <2>4. f \in Chain(a[p].root)
    BY <2>1, <2>2, <2>3, ChainSteps
  <2> HIDE DEF p, k
  <2>5. p >= x /\ p \in Nat
    BY <1>1, <1>6, <2>2, <2>4
  <2>6. p > d
    BY <1>1, <1>4, <1>5, <2>5
  <2> QED BY <2>1, <2>5, <2>6, RebasedFacts
<1>11. /\ st.justified \in JustifiedCheckpoints
       /\ st.unrealized_justified \in JustifiedCheckpoints
       /\ st.unrealized_finalized \in FinalizedCheckpoints
  BY <1>2, StoreFacts
<1> QED
  BY <1>8, <1>9, <1>10, <1>11 DEF StoreOK

-----------------------------------------------------------------------------
(***************************************************************************)
(* Votes, the queue and the head                                           *)
(***************************************************************************)

LEMMA AttestationKeepsVotes ==
    ASSUME NEW votes \in VoteTrackers, NEW att \in Attestations
    PROVE  process_attestation(votes, att) \in VoteTrackers
<1> DEFINE Vote == [current : Roots \cup {ZeroHash}, next : Roots \cup {ZeroHash},
                    next_epoch : Nat]
<1>1. att.root \in Roots /\ att.target.epoch \in Nat
  <2>1. att.root \in Roots /\ att.target \in Checkpoints
    BY InputsAssumption
  <2> QED BY <2>1, CheckpointFacts
<1>2. \A v \in Validators : votes[v] \in Vote
  BY DEF VoteTrackers
<1>3. \A vote \in Vote :
        [vote EXCEPT !.next = att.root, !.next_epoch = att.target.epoch] \in Vote
  BY <1>1
<1> HIDE DEF Vote
<1>4. process_attestation(votes, att) \in [Validators -> Vote]
  BY <1>2, <1>3 DEF process_attestation
<1> QED
  BY <1>4 DEF VoteTrackers, Vote

LEMMA EligibleFacts ==
    ASSUME NEW queue \in Seq(Attestations), NEW time
    PROVE  Eligible(queue, time) \in 0..Len(queue)
<1> DEFINE late == {k \in DOMAIN queue : queue[k].slot >= time}
           n == Len(queue)
<1>1. n \in Nat /\ DOMAIN queue = 1..n
  OBVIOUS
<1>2. Eligible(queue, time) = IF late = {} THEN n ELSE Min(late) - 1
  BY DEF Eligible
<1>3. CASE late = {}
  BY <1>1, <1>2, <1>3
<1>4. CASE late # {}
  <2>1. late \in SUBSET Nat /\ late \subseteq 1..n
    BY <1>1
  <2> HIDE DEF late, n
  <2>2. PICK m \in late : \A k \in late : m <= k
    <3>1. PICK m \in late : \A y \in Nat : <<y, m>> \in OpToRel(<, Nat) => y \notin late
      BY <1>4, <2>1, WFMin, NatLessThanWellFounded, Zenon
    <3>2. \A k \in late : ~(k < m)
      BY <2>1, <3>1 DEF OpToRel
    <3>3. \A k \in late : m <= k
      BY <2>1, <3>2
    <3> QED BY <3>3
  <2>3. Min(late) \in late
    BY <2>2 DEF Min
  <2>4. Min(late) \in 1..n
    BY <2>1, <2>3
  <2> QED BY <1>1, <1>2, <1>4, <2>4
<1> QED
  BY <1>3, <1>4

\* The votes after the eligible attestations.
LEMMA AppliedFacts ==
    ASSUME NEW votes \in VoteTrackers, NEW queue \in Seq(Attestations), NEW n \in 0..Len(queue)
    PROVE  LET applied[k \in 0..n] == IF k = 0 THEN votes
                                      ELSE process_attestation(applied[k - 1], queue[k])
           IN  applied[n] \in VoteTrackers
<1> DEFINE T == VoteTrackers
           step == [x \in (1..n) \X T |-> process_attestation(x[2], queue[x[1]])]
           applied == CHOOSE applied : applied = [k \in 0..n |->
                        IF k = 0 THEN votes ELSE process_attestation(applied[k - 1], queue[k])]
<1>1. n \in Nat /\ \A k \in 1..n : queue[k] \in Attestations
  OBVIOUS
<1>2. \A k \in 1..n, x \in T : process_attestation(x, queue[k]) \in T
  BY <1>1, AttestationKeepsVotes
<1>3. step \in [(1..n) \X T -> T]
  <2> HIDE DEF T
  <2> QED BY <1>2
<1>4. \A k \in 1..n, x \in T : step[<<k, x>>] = process_attestation(x, queue[k])
  <2> HIDE DEF T
  <2> QED OBVIOUS
<1>t. votes \in T
  OBVIOUS
<1> HIDE DEF T, step
<1>5. PICK g : IsLoop(g, n, T, votes, step)
  BY <1>1, <1>3, <1>t, Loop
<1>6. g = [k \in 0..n |-> IF k = 0 THEN votes ELSE process_attestation(g[k - 1], queue[k])]
  <2>1. g \in [0..n -> T] /\ g[0] = votes
    BY <1>5 DEF IsLoop
  <2>2. \A k \in 1..n : g[k - 1] \in T
    BY <1>1, <2>1
  <2>3. \A k \in 1..n : g[k] = process_attestation(g[k - 1], queue[k])
    BY <1>4, <1>5, <2>2 DEF IsLoop
  <2> QED BY <1>1, <2>1, <2>3
<1>7. applied = [k \in 0..n |->
        IF k = 0 THEN votes ELSE process_attestation(applied[k - 1], queue[k])]
  BY <1>6
<1> HIDE DEF applied
<1>8. applied[0] \in T
  BY <1>1, <1>7, <1>t
<1>9. \A k \in 1..n : applied[k] = process_attestation(applied[k - 1], queue[k])
  BY <1>1, <1>7
<1>10. \A k \in 1..n : applied[k - 1] \in T => applied[k] \in T
  BY <1>2, <1>9
<1>11. \A k \in 0..n : applied[k] \in T
  BY <1>1, <1>8, <1>10, LoopInvariant
<1>12. applied[n] \in T
  BY <1>1, <1>11
<1> QED
  BY <1>12 DEF applied, T

\* update_time.
LEMMA UpdateTimeKeeps ==
    ASSUME IInv, NEW now \in Clock
    PROVE  LET t == update_time(now)
           IN  /\ StoreOK(Nodes, t.store)
               /\ Advances(store, t.store)
               /\ QueueOK(t.queue)
               /\ t.votes \in VoteTrackers
<1> DEFINE st == on_ticks(store, now)
           q == queued_attestations
           n == Eligible(q, st.time)
           applied == CHOOSE applied : applied = [k \in 0..n |->
                        IF k = 0 THEN proto_array.votes
                        ELSE process_attestation(applied[k - 1], q[k])]
           t == update_time(now)
<1>1. t = [store |-> st, queue |-> SubSeq(q, n + 1, Len(q)), votes |-> applied[n]]
  BY DEF update_time
<1>2. IsTree(Nodes) /\ StoreOK(Nodes, store) /\ store \in Stores
  BY DEF IInv, ProtoOK, TreeOK, Nodes, StoreOK
<1>3. now \in Nat /\ now <= MaxSlot
  BY <1>2, StoreFacts, InputsAssumption DEF Clock
<1>4. StoreOK(Nodes, st) /\ Advances(store, st)
  BY <1>2, <1>3, TicksKeep
<1>5. q \in Seq(Attestations) /\ Len(q) <= MaxQueue /\ proto_array.votes \in VoteTrackers
  BY DEF IInv, QueueOK, ProtoOK
<1> HIDE DEF st, q
<1>6. n \in 0..Len(q)
  BY <1>5, EligibleFacts
<1> HIDE DEF n
<1>7. applied[n] \in VoteTrackers
  BY <1>5, <1>6, AppliedFacts
<1> HIDE DEF applied
<1>8. QueueOK(SubSeq(q, n + 1, Len(q)))
  <2>1. SubSeq(q, n + 1, Len(q)) \in Seq(Attestations) /\ Len(SubSeq(q, n + 1, Len(q))) <= Len(q)
    BY <1>5, <1>6
  <2> QED BY <1>5, <2>1, InputsAssumption DEF QueueOK
<1> HIDE DEF t
<1>9. t.store = st /\ t.queue = SubSeq(q, n + 1, Len(q)) /\ t.votes = applied[n]
  BY <1>1
<1> QED
  BY <1>4, <1>7, <1>8, <1>9 DEF t

\* find_head of the struct: the votes are applied, the tree is scored.
LEMMA FindHeadKeeps ==
    ASSUME NEW proto, ProtoOK(proto), NEW st \in Stores
    PROVE  LET found == FindHead(proto, st)
           IN  /\ ProtoOK(found.proto)
               /\ SameTree(proto.pa.nodes, found.proto.pa.nodes)
<1> DEFINE new == BalancesAt[st.justified.root]
           deltas == compute_deltas(proto.pa.nodes, proto.votes, proto.balances, new,
                                    st.equivocating)
           scored == apply_score_changes(proto.pa, deltas, st.justified, st.finalized, new,
                                         st.proposer_boost_root, st.time)
           votes == VotesApplied(proto.votes, st.equivocating)
           balances == IF scored.ok THEN maybe_update_balances(proto.balances, new)
                       ELSE proto.balances
           found == FindHead(proto, st)
<1>1. found.proto = [pa |-> scored.pa, votes |-> votes, balances |-> balances]
  BY DEF FindHead
<1>2. /\ proto.pa \in ProtoArrays /\ proto.votes \in VoteTrackers /\ proto.balances \in Seq(Nat)
      /\ IsTree(proto.pa.nodes) /\ LinksOK(proto.pa.nodes)
      /\ StatusesOK(proto.pa.nodes, ValidPayloads)
  BY DEF ProtoOK, TreeOK
<1>3. /\ st.justified \in Checkpoints /\ st.finalized \in Checkpoints
      /\ st.justified.root \in Roots /\ st.proposer_boost_root \in Roots \cup {ZeroHash}
  BY StoreFacts, CheckpointFacts
<1>4. new \in Seq(Nat)
  BY <1>3, InputsAssumption
<1> HIDE DEF new
<1>5. deltas \in [0..Len(proto.pa.nodes) -> Int]
  <2>1. proto.pa.nodes \in Seq(Node)
    BY <1>2, TreeFacts
  <2> QED BY <1>2, <1>4, <2>1, DeltasAreInts
<1> HIDE DEF deltas
<1>6. /\ scored.pa \in ProtoArrays
      /\ SameTree(proto.pa.nodes, scored.pa.nodes)
      /\ SameStatus(proto.pa.nodes, scored.pa.nodes)
      /\ LinksOK(scored.pa.nodes)
  BY <1>2, <1>3, <1>4, <1>5, ScoreChangesKeep
<1> HIDE DEF scored
<1>7. TreeOK(scored.pa)
  <2>1. IsTree(scored.pa.nodes)
    BY <1>2, <1>6, SameWalk
  <2>2. StatusesOK(scored.pa.nodes, ValidPayloads)
    BY <1>2, <1>6, SameStatusesOK DEF StatusesOK
  <2> QED BY <1>6, <2>1, <2>2 DEF TreeOK
<1>8. votes \in VoteTrackers
  <2> DEFINE Vote == [current : Roots \cup {ZeroHash}, next : Roots \cup {ZeroHash},
                      next_epoch : Nat]
  <2>1. \A v \in Validators : proto.votes[v] \in Vote /\ proto.votes[v].next \in Roots \cup {ZeroHash}
    BY <1>2 DEF VoteTrackers
  <2>2. \A vote \in Vote, r \in Roots \cup {ZeroHash} : [vote EXCEPT !.current = r] \in Vote
    OBVIOUS
  <2> HIDE DEF Vote
  <2>3. votes \in [Validators -> Vote]
    BY <2>1, <2>2 DEF VotesApplied
  <2> QED BY <2>3 DEF VoteTrackers, Vote
<1>9. balances \in Seq(Nat)
  BY <1>2, <1>4 DEF maybe_update_balances
<1> HIDE DEF votes, balances, found
<1>10. ProtoOK(found.proto)
  BY <1>1, <1>6, <1>7, <1>8, <1>9 DEF ProtoOK
<1>11. found.proto.pa = scored.pa
  BY <1>1
<1> QED
  BY <1>6, <1>10, <1>11 DEF found

\* A proto with another tree, or other votes or balances.
LEMMA ProtoWith ==
    ASSUME NEW proto, ProtoOK(proto)
    PROVE  /\ \A pa : TreeOK(pa) => /\ ProtoOK([proto EXCEPT !.pa = pa])
                                    /\ [proto EXCEPT !.pa = pa].pa = pa
           /\ \A votes \in VoteTrackers :
                /\ ProtoOK([proto EXCEPT !.votes = votes])
                /\ [proto EXCEPT !.votes = votes].pa = proto.pa
           /\ \A balances \in Seq(Nat) :
                /\ ProtoOK([proto EXCEPT !.balances = balances])
                /\ [proto EXCEPT !.balances = balances].pa = proto.pa
<1>1. proto \in [pa : ProtoArrays, votes : VoteTrackers, balances : Seq(Nat)] /\ TreeOK(proto.pa)
  BY DEF ProtoOK
<1>2. ASSUME NEW pa, TreeOK(pa)
      PROVE  ProtoOK([proto EXCEPT !.pa = pa]) /\ [proto EXCEPT !.pa = pa].pa = pa
  <2>1. pa \in ProtoArrays
    BY <1>2 DEF TreeOK
  <2> QED BY <1>1, <1>2, <2>1 DEF ProtoOK
<1>3. ASSUME NEW votes \in VoteTrackers
      PROVE  /\ ProtoOK([proto EXCEPT !.votes = votes])
             /\ [proto EXCEPT !.votes = votes].pa = proto.pa
  BY <1>1 DEF ProtoOK
<1>4. ASSUME NEW balances \in Seq(Nat)
      PROVE  /\ ProtoOK([proto EXCEPT !.balances = balances])
             /\ [proto EXCEPT !.balances = balances].pa = proto.pa
  BY <1>1 DEF ProtoOK
<1> QED
  BY <1>2, <1>3, <1>4

\* The statuses reset.
LEMMA OptimisticKeeps ==
    ASSUME NEW proto, ProtoOK(proto)
    PROVE  LET r == [proto EXCEPT
                        !.pa = set_all_blocks_to_optimistic(@, proto.votes, proto.balances)]
           IN  ProtoOK(r) /\ SameTree(proto.pa.nodes, r.pa.nodes)
<1> DEFINE q == set_all_blocks_to_optimistic(proto.pa, proto.votes, proto.balances)
<1>1. /\ proto.pa \in ProtoArrays /\ proto.balances \in Seq(Nat)
      /\ IsTree(proto.pa.nodes) /\ LinksOK(proto.pa.nodes)
      /\ StatusesOK(proto.pa.nodes, ValidPayloads)
  BY DEF ProtoOK, TreeOK
<1>2. /\ q \in ProtoArrays
      /\ SameTree(proto.pa.nodes, q.nodes)
      /\ SameLinks(proto.pa.nodes, q.nodes)
      /\ StatusesOK(q.nodes, ValidPayloads)
  BY <1>1, ResetKeeps
<1> HIDE DEF q
<1>3. TreeOK(q)
  BY <1>1, <1>2, SameWalk, SameLinksOK DEF TreeOK
<1>4. ProtoOK([proto EXCEPT !.pa = q]) /\ [proto EXCEPT !.pa = q].pa = q
  BY <1>3, ProtoWith
<1> QED
  BY <1>2, <1>4 DEF q

LEMMA SameTreeTwice ==
    ASSUME NEW a, IsTree(a), NEW b, NEW c, SameTree(a, b), SameTree(b, c)
    PROVE  SameTree(a, c)
<1>1. DOMAIN b = DOMAIN a
  BY SameWalk
<1> QED
  BY <1>1 DEF SameTree

\* from_persisted, with its one retry.
LEMMA RestartKeeps ==
    ASSUME IInv, NEW reset
    PROVE  LET r == AfterRestart(reset)
           IN  ProtoOK(r.proto) /\ SameTree(Nodes, r.proto.pa.nodes)
<1> DEFINE balances == BalancesAt[store.justified.root]
           loaded == [proto_array EXCEPT !.balances = balances]
           cleared == [loaded EXCEPT
                        !.pa = set_all_blocks_to_optimistic(@, loaded.votes, loaded.balances)]
           from == FromPersisted(reset)
           one == FindHead(from, store)
           proto == one.proto
           again == [proto EXCEPT
                        !.pa = set_all_blocks_to_optimistic(@, proto.votes, proto.balances)]
           two == FindHead(again, store)
           r == AfterRestart(reset)
<1>1. r = IF one.head.error = "None" THEN one ELSE two
  BY DEF AfterRestart
<1>2. from = IF reset THEN cleared ELSE loaded
  BY DEF FromPersisted
<1>3. ProtoOK(proto_array) /\ store \in Stores /\ IsTree(Nodes) /\ Nodes \in Seq(Node)
  BY TreeFacts DEF IInv, StoreOK, ProtoOK, TreeOK, Nodes
<1>4. balances \in Seq(Nat)
  BY <1>3, StoreFacts, CheckpointFacts, InputsAssumption
<1> HIDE DEF balances
<1>5. ProtoOK(loaded) /\ SameTree(Nodes, loaded.pa.nodes)
  <2>1. ProtoOK(loaded) /\ loaded.pa = proto_array.pa
    BY <1>3, <1>4, ProtoWith
  <2> QED BY <1>3, <2>1 DEF SameTree, Nodes
<1> HIDE DEF loaded
<1>6. ProtoOK(cleared) /\ SameTree(loaded.pa.nodes, cleared.pa.nodes)
  BY <1>5, OptimisticKeeps
<1> HIDE DEF cleared
<1>7. ProtoOK(from) /\ SameTree(Nodes, from.pa.nodes)
  <2>1. SameTree(Nodes, cleared.pa.nodes)
    BY <1>3, <1>5, <1>6, SameTreeTwice
  <2> QED BY <1>2, <1>5, <1>6, <2>1
<1> HIDE DEF from
<1>8. ProtoOK(proto) /\ SameTree(Nodes, proto.pa.nodes)
  <2>1. ProtoOK(proto) /\ SameTree(from.pa.nodes, proto.pa.nodes)
    BY <1>3, <1>7, FindHeadKeeps
  <2> QED BY <1>3, <1>7, <2>1, SameTreeTwice
<1>9. one.proto = proto
  OBVIOUS
<1> HIDE DEF one, proto
<1>10. ProtoOK(again) /\ SameTree(proto.pa.nodes, again.pa.nodes)
  BY <1>8, OptimisticKeeps
<1> HIDE DEF again
<1>11. SameTree(Nodes, again.pa.nodes)
  BY <1>3, <1>8, <1>10, SameTreeTwice
<1>12. ProtoOK(two.proto) /\ SameTree(Nodes, two.proto.pa.nodes)
  <2>1. ProtoOK(two.proto) /\ SameTree(again.pa.nodes, two.proto.pa.nodes)
    BY <1>3, <1>10, FindHeadKeeps
  <2> QED BY <1>3, <1>11, <2>1, SameTreeTwice
<1> HIDE DEF two, r
<1>13. ProtoOK(r.proto) /\ SameTree(Nodes, r.proto.pa.nodes)
  BY <1>1, <1>8, <1>9, <1>12
<1> QED
  BY <1>13 DEF r

-----------------------------------------------------------------------------
(***************************************************************************)
(* The answers of the execution engine                                     *)
(***************************************************************************)

LEMMA ValidPayloadsAreClosed == IsClosed(ValidPayloads)
BY PayloadsAssumption, BlockAssumption DEF IsClosed

\* LatestValid is a valid block of the chain, and none after it on the chain is valid.
LEMMA LatestValidFacts ==
    ASSUME NEW r \in Roots, LatestValid(r) # UnknownHash
    PROVE  /\ LatestValid(r) \in Chain(r) \cap ValidPayloads
           /\ \A s \in Chain(r) \cap ValidPayloads : Block[s].slot <= Block[LatestValid(r)].slot
<1> DEFINE valid == Chain(r) \cap ValidPayloads
           slots == {Block[s].slot : s \in valid}
           n == Block[r].slot
<1>1. LatestValid(r) = IF valid = {} THEN UnknownHash
                       ELSE CHOOSE s \in valid : \A t \in valid : Block[t].slot <= Block[s].slot
  BY DEF LatestValid
<1>2. valid # {} /\ valid \subseteq Chain(r)
  BY <1>1
<1>3. n \in Nat
  BY BlockFacts
<1>4. \A s \in valid : Block[s].slot \in 0..n
  <2> TAKE s \in valid
  <2>1. s \in Roots /\ Block[s].slot \in Nat
    BY ChainFacts, BlockFacts
  <2>2. s = r \/ Block[s].slot < n
    BY ChainSlots
  <2> HIDE DEF n
  <2>3. s = r => Block[s].slot = n
    BY DEF n
  <2> QED BY <1>3, <2>1, <2>2, <2>3
<1> HIDE DEF valid, n
<1>5. slots \in SUBSET (0..n) /\ slots # {}
  BY <1>2, <1>4
<1>6. Max(slots) \in slots /\ \A x \in slots : x <= Max(slots)
  <2> HIDE DEF slots
  <2> QED BY <1>3, <1>5, MaxOfSet
<1>7. PICK s \in valid : Block[s].slot = Max(slots)
  BY <1>6
<1>8. \A t \in valid : Block[t].slot <= Block[s].slot
  BY <1>6, <1>7
<1>9. /\ LatestValid(r) \in valid
      /\ \A t \in valid : Block[t].slot <= Block[LatestValid(r)].slot
  BY <1>1, <1>2, <1>8
<1> QED
  BY <1>9 DEF valid

\* The operations of a consistent engine name only payloads that are not valid.
LEMMA OperationsAreRight ==
    ASSUME NEW nodes, IsTree(nodes), NEW op \in InvalidationOperations
    PROVE  OperationOK(nodes, ValidPayloads, op)
<1> DEFINE bad == Roots \ ValidPayloads
<1>1. ZeroHash \notin Roots /\ UnknownHash \notin Roots
  BY BlockAssumption, InputsAssumption
<1>2. \A i \in DOMAIN nodes : nodes[i].root \in Roots
  BY TreeFacts
<1>3. ASSUME NEW r \in bad, op.root \in {r, Block[r].parent}, op.lva = LatestValid(r),
             NEW h \in DOMAIN nodes, nodes[h].root = op.root,
             NEW l \in iter_nodes(nodes, h), NEW j \in iter_nodes(nodes, h),
             nodes[l].root = op.lva, j > l
      PROVE  nodes[j].root \notin ValidPayloads
  <2>1. l \in DOMAIN nodes /\ j \in DOMAIN nodes
    BY WalkIsBack
  <2>2. LatestValid(r) # UnknownHash
    BY <1>1, <1>2, <1>3, <2>1
  <2>3. Chain(op.root) \subseteq Chain(r)
    <3>1. CASE op.root = r
      BY <3>1
    <3>2. CASE op.root = Block[r].parent
      <4>1. Block[r].parent # ZeroHash
        BY <1>1, <1>2, <1>3, <3>2
      <4> QED BY <3>2, <4>1, ChainOfParent
    <3> QED BY <1>3, <3>1, <3>2
  <2>4. nodes[j].root \in Chain(r)
    BY <1>3, <2>3, WalkIsOnChain
  <2>5. l \in iter_nodes(nodes, j) /\ l # j
    <3>1. l \in Nat /\ j \in Nat
      BY <2>1, TreeFacts
    <3>2. l <= j /\ l # j
      BY <1>3, <3>1
    <3> QED BY <3>2, WalkIsChain
  <2>6. Block[nodes[l].root].slot < Block[nodes[j].root].slot
    BY <2>1, <2>5, WalkSlots
  <2>7. ~(Block[nodes[j].root].slot <= Block[nodes[l].root].slot)
    BY <1>2, <2>1, <2>6, BlockFacts
  <2> QED BY <1>3, <2>2, <2>4, <2>7, LatestValidFacts
<1>4. CASE op \in [root : bad, always : {TRUE}, lva : {ZeroHash, UnknownHash}]
  <2>1. op.root \notin ValidPayloads /\ op.lva \notin Roots
    BY <1>1, <1>4
  <2>2. \A h \in DOMAIN nodes : iter_nodes(nodes, h) \subseteq DOMAIN nodes
    BY WalkIsBack
  <2>3. \A h \in DOMAIN nodes : \A l \in iter_nodes(nodes, h) : nodes[l].root # op.lva
    BY <1>2, <2>1, <2>2
  <2> QED BY <2>1, <2>3 DEF OperationOK
<1>5. CASE op \in {[root |-> r, always |-> TRUE, lva |-> LatestValid(r)] : r \in bad}
  <2>1. PICK r \in bad : op = [root |-> r, always |-> TRUE, lva |-> LatestValid(r)]
    BY <1>5
  <2>2. op.root = r /\ op.lva = LatestValid(r)
    BY <2>1
  <2> QED BY <1>3, <2>2 DEF OperationOK
<1>6. CASE op \in {[root |-> Block[r].parent, always |-> FALSE, lva |-> LatestValid(r)] : r \in bad}
  <2>1. PICK r \in bad :
            op = [root |-> Block[r].parent, always |-> FALSE, lva |-> LatestValid(r)]
    BY <1>6
  <2>2. op.root = Block[r].parent /\ op.lva = LatestValid(r) /\ op.always = FALSE
    BY <2>1
  <2> QED BY <1>3, <2>2 DEF OperationOK
<1> QED
  BY <1>4, <1>5, <1>6 DEF InvalidationOperations

-----------------------------------------------------------------------------
(***************************************************************************)
(* The steps                                                               *)
(***************************************************************************)

\* from_anchor.
LEMMA InitKeeps == Init => IInv
<1> SUFFICES ASSUME Init PROVE IInv
  OBVIOUS
<1> DEFINE anchor == AnchorCheckpoint
           st == [time |-> Block[Anchor].slot,
                  justified |-> anchor, finalized |-> anchor,
                  unrealized_justified |-> anchor, unrealized_finalized |-> anchor,
                  proposer_boost_root |-> ZeroHash, equivocating |-> {}]
           empty == [nodes |-> <<>>, justified |-> anchor, finalized |-> anchor,
                     previous_boost |-> [root |-> ZeroHash, score |-> 0]]
           pa == on_block(empty, Anchor, AnchorStatus, st.time)
           votes == [v \in Validators |-> NoVote]
           proto == [pa |-> pa, votes |-> votes, balances |-> <<>>]
           found == FindHead(proto, st)
<1>1. store = st /\ proto_array = found.proto /\ queued_attestations = <<>>
  BY DEF Init
<1>2. /\ Anchor \in Roots /\ anchor \in Checkpoints /\ Anchor \in ValidPayloads
      /\ anchor \in JustifiedCheckpoints /\ anchor \in FinalizedCheckpoints
      /\ anchor.root = Anchor /\ anchor.epoch \in Nat
      /\ Block[Anchor].slot \in 0..MaxSlot
      /\ AnchorStatus \in {"Valid", "Optimistic", "Irrelevant"}
  <2>1. anchor \in JustifiedCheckpoints /\ anchor \in FinalizedCheckpoints
    BY DEF JustifiedCheckpoints, FinalizedCheckpoints
  <2>2. anchor \in Checkpoints /\ anchor.epoch \in Nat
    BY <2>1, CheckpointFacts
  <2>3. anchor.root = Anchor
    BY DEF AnchorCheckpoint
  <2> HIDE DEF anchor
  <2> QED BY <2>1, <2>2, <2>3, InputsAssumption, PayloadsAssumption, BlockFacts
<1> HIDE DEF anchor
<1>3. empty \in ProtoArrays /\ empty.nodes = <<>>
  BY <1>2 DEF ProtoArrays
<1> HIDE DEF empty
<1>4. /\ <<>> \in Seq(Node) /\ Len(<<>>) = 0 /\ DOMAIN <<>> = {}
      /\ IsTree(<<>>) /\ LinksOK(<<>>) /\ StatusesOK(<<>>, ValidPayloads)
  BY DEF IsTree, LinksOK, StatusesOK, StatusesBut
<1>5. \A r : IndexOf(<<>>, r) = NoIndex
  BY DEF IndexOf
<1>6. TreeOK(pa) /\ Grown(<<>>, pa.nodes, Anchor, NoIndex)
  <2>1. ~ParentIsInvalid(empty, Anchor)
    BY <1>3, <1>5 DEF ParentIsInvalid
  <2>2. /\ IsTree(empty.nodes) /\ LinksOK(empty.nodes) /\ StatusesOK(empty.nodes, ValidPayloads)
        /\ \A r : IndexOf(empty.nodes, r) = NoIndex
    BY <1>3, <1>4, <1>5
  <2>3. /\ pa \in ProtoArrays
        /\ Grown(empty.nodes, pa.nodes, Anchor, IndexOf(empty.nodes, Block[Anchor].parent))
        /\ IsTree(pa.nodes)
        /\ LinksOK(pa.nodes)
        /\ StatusesOK(pa.nodes, ValidPayloads)
    <3> DEFINE slot == st.time
    <3> HIDE DEF slot, st
    <3>1. IsClosed(ValidPayloads)
      BY ValidPayloadsAreClosed
    <3> QED BY <1>2, <1>3, <2>1, <2>2, <3>1, InsertionKeeps DEF slot
  <2> HIDE DEF pa
  <2> QED BY <1>3, <2>2, <2>3 DEF TreeOK
<1>7. st \in Stores /\ st.finalized = anchor /\ st.justified = anchor
      /\ st.unrealized_justified = anchor /\ st.unrealized_finalized = anchor
  BY <1>2 DEF Stores
<1> HIDE DEF pa, st
<1>8. ProtoOK(proto) /\ proto.pa = pa
  <2>1. votes \in VoteTrackers
    BY DEF VoteTrackers, NoVote
  <2>2. pa \in ProtoArrays /\ <<>> \in Seq(Nat)
    BY <1>6 DEF TreeOK
  <2> HIDE DEF votes
  <2> QED BY <1>6, <2>1, <2>2 DEF ProtoOK
<1> HIDE DEF proto
<1>9. ProtoOK(found.proto) /\ SameTree(pa.nodes, found.proto.pa.nodes)
  BY <1>7, <1>8, FindHeadKeeps
<1>10. StoreOK(pa.nodes, st)
  <2>1. IsTree(pa.nodes) /\ Len(pa.nodes) = 1 /\ pa.nodes[1].root = Anchor
    BY <1>4, <1>6 DEF TreeOK, Grown
  <2>2. DOMAIN pa.nodes = {1}
    BY <2>1, TreeFacts
  <2>3. InTree(pa.nodes, Anchor)
    BY <2>1, <2>2 DEF InTree
  <2>4. Rooted(pa.nodes, Anchor)
    BY <2>1, <2>2 DEF Rooted
  <2> QED BY <1>2, <1>7, <2>3, <2>4 DEF StoreOK, CheckpointOK
<1>11. StoreOK(found.proto.pa.nodes, st)
  BY <1>6, <1>9, <1>10, SameTreeKeepsStore DEF TreeOK
<1> HIDE DEF found
<1>12. QueueOK(<<>>)
  BY InputsAssumption DEF QueueOK
<1> QED
  BY <1>1, <1>9, <1>11, <1>12 DEF IInv, Nodes

\* What a call does to the store, seen from the tree before it.
StoreStep == StoreOK(Nodes, store') /\ Advances(store, store')

LEMMA InvFacts ==
    ASSUME IInv
    PROVE  /\ ProtoOK(proto_array) /\ StoreOK(Nodes, store) /\ QueueOK(queued_attestations)
           /\ TreeOK(proto_array.pa) /\ proto_array.pa \in ProtoArrays
           /\ IsTree(Nodes) /\ LinksOK(Nodes) /\ StatusesOK(Nodes, ValidPayloads)
           /\ Nodes = proto_array.pa.nodes /\ Nodes \in Seq(Node)
           /\ store \in Stores /\ Advances(store, store)
<1>1. /\ ProtoOK(proto_array) /\ StoreOK(Nodes, store) /\ QueueOK(queued_attestations)
      /\ TreeOK(proto_array.pa) /\ proto_array.pa \in ProtoArrays
      /\ IsTree(Nodes) /\ LinksOK(Nodes) /\ StatusesOK(Nodes, ValidPayloads)
      /\ Nodes = proto_array.pa.nodes
  BY DEF IInv, ProtoOK, TreeOK, Nodes
<1>2. store \in Stores /\ Nodes \in Seq(Node)
  BY <1>1, TreeFacts DEF StoreOK
<1>3. Advances(store, store)
  BY <1>2, StoreFacts, CheckpointFacts DEF Advances
<1> QED
  BY <1>1, <1>2, <1>3

LEMMA GetHeadKeeps ==
    ASSUME IInv, NEW now \in Clock, get_head(now)
    PROVE  IInv' /\ StoreStep
<1> DEFINE t == update_time(now)
           proto == [proto_array EXCEPT !.votes = t.votes]
           found == FindHead(proto, t.store)
<1>1. /\ StoreOK(Nodes, t.store) /\ Advances(store, t.store) /\ QueueOK(t.queue)
      /\ t.votes \in VoteTrackers
  BY UpdateTimeKeeps
<1>2. store' = t.store /\ queued_attestations' = t.queue /\ proto_array' = found.proto
  BY DEF get_head, HeadFound
<1> HIDE DEF t
<1>3. ProtoOK(proto) /\ proto.pa = proto_array.pa /\ IsTree(Nodes) /\ t.store \in Stores
  BY <1>1, InvFacts, ProtoWith DEF StoreOK
<1> HIDE DEF proto
<1>4. ProtoOK(found.proto) /\ SameTree(Nodes, found.proto.pa.nodes)
  BY <1>3, FindHeadKeeps DEF Nodes
<1>5. StoreOK(found.proto.pa.nodes, t.store)
  BY <1>1, <1>3, <1>4, SameTreeKeepsStore
<1> HIDE DEF found
<1> QED
  BY <1>1, <1>2, <1>4, <1>5 DEF IInv, StoreStep, Nodes

LEMMA OnBlockKeeps ==
    ASSUME IInv, NEW root \in Roots, NEW now \in Clock, NEW timely \in BOOLEAN,
           NEW status \in ImportStatuses, OnBlock(root, now, timely, status)
    PROVE  IInv' /\ StoreStep
<1> DEFINE t == update_time(now)
           accepted == BlockIsAcceptable(root, t.store)
           after == StoreAfterBlock(root, t.store, timely)
           pa == proto_array.pa
           q == on_block(pa, root, status, t.store.time)
           new == IF accepted /\ ~ParentIsInvalid(pa, root) THEN q ELSE pa
           p == IndexOf(Nodes, Block[root].parent)
<1>1. /\ StoreOK(Nodes, t.store) /\ Advances(store, t.store) /\ QueueOK(t.queue)
      /\ t.votes \in VoteTrackers
  BY UpdateTimeKeeps
<1>2. /\ ~Known(root) /\ (status = "Valid" => root \in ValidPayloads)
      /\ store' = IF accepted THEN after ELSE t.store
      /\ queued_attestations' = t.queue
      /\ proto_array' = [proto_array EXCEPT !.votes = t.votes, !.pa = new]
  BY DEF OnBlock
<1>3. /\ ProtoOK(proto_array) /\ TreeOK(pa) /\ IsTree(Nodes) /\ Nodes = pa.nodes
      /\ Nodes \in Seq(Node) /\ store \in Stores /\ t.store \in Stores
  BY <1>1, InvFacts DEF StoreOK
<1> HIDE DEF t
<1>4. accepted => /\ p \in DOMAIN Nodes /\ p # NoIndex
                  /\ Nodes[p].root = Block[root].parent
                  /\ t.store.finalized.root \in Chain(Block[root].parent)
  <2> SUFFICES ASSUME accepted
               PROVE  /\ p \in DOMAIN Nodes /\ p # NoIndex
                      /\ Nodes[p].root = Block[root].parent
                      /\ t.store.finalized.root \in Chain(Block[root].parent)
    OBVIOUS
  <2> DEFINE slot == StartSlot(t.store.finalized.epoch)
  <2>1. p # NoIndex /\ AncestorAt(Nodes, p, slot) = t.store.finalized.root
    BY DEF BlockIsAcceptable, Known
  <2>2. p \in DOMAIN Nodes /\ Nodes[p].root = Block[root].parent
    BY <1>3, <2>1, IndexFacts
  <2>3. t.store.finalized.root # ZeroHash
    BY <1>3, StoreFacts, CheckpointFacts, BlockFacts
  <2> HIDE DEF accepted, after, pa, q, new, p, slot
  <2>4. AncestorAt(Nodes, p, slot) # ZeroHash
    BY <2>1, <2>3
  <2>5. PICK x \in iter_nodes(Nodes, p) : Nodes[x].root = AncestorAt(Nodes, p, slot)
    BY <1>3, <2>2, <2>4, AncestorFacts
  <2>6. Nodes[x].root \in Chain(Nodes[p].root)
    BY <1>3, <2>2, WalkIsOnChain
  <2> QED BY <2>1, <2>2, <2>5, <2>6
<1>5. accepted => StoreOK(Nodes, after) /\ Advances(t.store, after)
  <2> HIDE DEF accepted, p, after
  <2> QED BY <1>1, <1>3, <1>4, BlockKeepsStore DEF after
<1>6. StoreOK(Nodes, store') /\ Advances(store, store')
  <2>1. accepted => after \in Stores /\ StoreOK(Nodes, after) /\ Advances(t.store, after)
    BY <1>5 DEF StoreOK
  <2> HIDE DEF accepted, after
  <2>2. accepted => Advances(store, after)
    BY <1>1, <1>3, <2>1, AdvancesTwice
  <2> QED BY <1>1, <1>2, <2>1, <2>2
<1>7. accepted /\ ~ParentIsInvalid(pa, root) => TreeOK(q) /\ Grown(Nodes, q.nodes, root, p)
  <2> SUFFICES ASSUME accepted, ~ParentIsInvalid(pa, root)
               PROVE  TreeOK(q) /\ Grown(Nodes, q.nodes, root, p)
    OBVIOUS
  <2>1. /\ pa \in ProtoArrays /\ IsTree(pa.nodes) /\ LinksOK(pa.nodes)
        /\ StatusesOK(pa.nodes, ValidPayloads)
    BY <1>3 DEF TreeOK
  <2>2. /\ IndexOf(pa.nodes, root) = NoIndex
        /\ status \in {"Valid", "Optimistic", "Irrelevant"} /\ status # "Irrelevant"
        /\ status = "Valid" => root \in ValidPayloads
    BY <1>2, <1>3, InputsAssumption DEF Known
  <2>3. IsClosed(ValidPayloads)
    BY ValidPayloadsAreClosed
  <2>4. ~ParentIsInvalid(pa, root)
    OBVIOUS
  <2>5. /\ q \in ProtoArrays
        /\ Grown(pa.nodes, q.nodes, root, IndexOf(pa.nodes, Block[root].parent))
        /\ IsTree(q.nodes)
        /\ LinksOK(q.nodes)
        /\ StatusesOK(q.nodes, ValidPayloads)
    <3> DEFINE slot == t.store.time
    <3> HIDE DEF slot, accepted, pa
    <3> QED BY <2>1, <2>2, <2>3, <2>4, InsertionKeeps DEF slot
  <2> HIDE DEF q
  <2> QED BY <1>3, <2>5 DEF TreeOK
<1> HIDE DEF q
<1>8. TreeOK(new) /\ StoreOK(new.nodes, store')
  <2>1. CASE accepted /\ ~ParentIsInvalid(pa, root)
    <3>1. new = q
      BY <2>1
    <3>2. IsTree(q.nodes)
      BY <1>7, <2>1 DEF TreeOK
    <3> HIDE DEF p, accepted, after, pa, new
    <3>3. p \in DOMAIN Nodes /\ p # NoIndex
      BY <1>4, <2>1
    <3>4. p \in Nat \ {NoIndex}
      BY <1>3, <3>3, TreeFacts
    <3>5. StoreOK(q.nodes, store')
      BY <1>3, <1>6, <1>7, <2>1, <3>2, <3>4, GrownKeepsStore
    <3> QED BY <1>7, <2>1, <3>1, <3>5
  <2>2. CASE ~(accepted /\ ~ParentIsInvalid(pa, root))
    BY <1>3, <1>6, <2>2
  <2> QED BY <2>1, <2>2
<1> HIDE DEF new, accepted, after, p
<1>9. ProtoOK(proto_array') /\ proto_array'.pa = new
  <2> DEFINE voted == [proto_array EXCEPT !.votes = t.votes]
  <2>1. ProtoOK(voted)
    BY <1>1, <1>3, ProtoWith
  <2>2. proto_array' = [voted EXCEPT !.pa = new]
    BY <1>2
  <2> HIDE DEF voted
  <2> QED BY <1>8, <2>1, <2>2, ProtoWith
<1> QED
  BY <1>1, <1>2, <1>6, <1>8, <1>9 DEF IInv, StoreStep, Nodes

LEMMA OnAttestationKeeps ==
    ASSUME IInv, NEW att \in Attestations, NEW now \in Clock, NEW fromBlock \in BOOLEAN,
           OnAttestation(att, now, fromBlock)
    PROVE  IInv' /\ StoreStep
<1> DEFINE t == update_time(now)
           valid == AttestationIsValid(att, t.store.time, fromBlock)
           past == att.slot < t.store.time
           votes == IF valid /\ past THEN process_attestation(t.votes, att) ELSE t.votes
<1>1. /\ StoreOK(Nodes, t.store) /\ Advances(store, t.store) /\ QueueOK(t.queue)
      /\ t.votes \in VoteTrackers
  BY UpdateTimeKeeps
<1>2. /\ store' = t.store
      /\ queued_attestations' = IF valid /\ ~past THEN Append(t.queue, att) ELSE t.queue
      /\ Len(queued_attestations') <= MaxQueue
      /\ proto_array' = [proto_array EXCEPT !.votes = votes]
  BY DEF OnAttestation
<1> HIDE DEF t, valid, past
<1>3. votes \in VoteTrackers
  BY <1>1, AttestationKeepsVotes
<1> HIDE DEF votes
<1>4. ProtoOK(proto_array') /\ proto_array'.pa = proto_array.pa
  BY <1>2, <1>3, InvFacts, ProtoWith
<1>5. QueueOK(queued_attestations')
  <2>1. t.queue \in Seq(Attestations)
    BY <1>1 DEF QueueOK
  <2> QED BY <1>2, <2>1 DEF QueueOK
<1> QED
  BY <1>1, <1>2, <1>4, <1>5 DEF IInv, StoreStep, Nodes

LEMMA OnAttesterSlashingKeeps ==
    ASSUME IInv, NEW v \in Slashable, OnAttesterSlashing(v)
    PROVE  IInv' /\ StoreStep
<1> DEFINE u == [store EXCEPT !.equivocating = @ \cup {v}]
<1>1. store' = u /\ proto_array' = proto_array /\ queued_attestations' = queued_attestations
  BY DEF OnAttesterSlashing
<1>2. StoreOK(Nodes, store) /\ store \in Stores
  BY InvFacts
<1>3. v \in Validators
  BY InputsAssumption
<1>4. u \in Stores /\ SameCheckpoints(store, u) /\ u.time = store.time
  BY <1>2, <1>3 DEF Stores, SameCheckpoints
<1> HIDE DEF u
<1>5. StoreOK(Nodes, u)
  BY <1>2, <1>4, SameStoreOK
<1>6. Advances(store, u)
  BY <1>4, InvFacts DEF Advances, SameCheckpoints
<1> QED
  BY <1>1, <1>5, <1>6 DEF IInv, StoreStep, Nodes

\* The calls that leave the store and the queue, and give a tree that keeps the store.
LEMMA TreeStepKeeps ==
    ASSUME IInv, NEW pa, TreeOK(pa), StoreOK(pa.nodes, store),
           proto_array' = [proto_array EXCEPT !.pa = pa],
           UNCHANGED <<store, queued_attestations>>
    PROVE  IInv' /\ StoreStep
<1>1. ProtoOK(proto_array') /\ proto_array'.pa = pa
  BY InvFacts, ProtoWith
<1>2. StoreOK(Nodes', store') /\ QueueOK(queued_attestations')
  BY <1>1 DEF IInv, Nodes
<1>3. StoreStep
  BY InvFacts DEF StoreStep
<1> QED
  BY <1>1, <1>2, <1>3 DEF IInv

LEMMA OnValidExecutionPayloadKeeps ==
    ASSUME IInv, NEW root \in Roots, OnValidExecutionPayload(root)
    PROVE  IInv' /\ StoreStep
<1> DEFINE pa == proto_array.pa
           i == IndexOf(Nodes, root)
           q == propagate_execution_payload_validation_by_index(pa, i)
<1>1. /\ i # NoIndex /\ root \in ValidPayloads
      /\ proto_array' = [proto_array EXCEPT !.pa = q]
      /\ UNCHANGED <<store, queued_attestations>>
  BY DEF OnValidExecutionPayload, Known
<1>2. /\ pa \in ProtoArrays /\ IsTree(pa.nodes) /\ LinksOK(pa.nodes)
      /\ StatusesOK(pa.nodes, ValidPayloads) /\ StoreOK(pa.nodes, store)
      /\ Nodes = pa.nodes /\ Nodes \in Seq(Node)
  BY InvFacts
<1>3. i \in DOMAIN pa.nodes /\ pa.nodes[i].root \in ValidPayloads
  BY <1>1, <1>2, IndexFacts
<1>4. StatusesBut(pa.nodes, ValidPayloads, i)
  BY <1>2 DEF StatusesOK, StatusesBut
<1>5. IsClosed(ValidPayloads)
  BY ValidPayloadsAreClosed
<1> HIDE DEF i, pa
<1>6. /\ q \in ProtoArrays
      /\ SameTree(pa.nodes, q.nodes)
      /\ SameLinks(pa.nodes, q.nodes)
      /\ StatusesOK(q.nodes, ValidPayloads)
  BY <1>2, <1>3, <1>4, <1>5, ValidationKeeps
<1> HIDE DEF q
<1>7. TreeOK(q) /\ StoreOK(q.nodes, store)
  BY <1>2, <1>6, SameWalk, SameLinksOK, SameTreeKeepsStore DEF TreeOK
<1> QED
  BY <1>1, <1>7, TreeStepKeeps

LEMMA OnInvalidExecutionPayloadKeeps ==
    ASSUME IInv, NEW op \in InvalidationOperations, OnInvalidExecutionPayload(op)
    PROVE  IInv' /\ StoreStep
<1> DEFINE pa == proto_array.pa
           q == propagate_execution_payload_invalidation(pa, op)
<1>1. /\ proto_array' = [proto_array EXCEPT !.pa = q]
      /\ UNCHANGED <<store, queued_attestations>>
  BY DEF OnInvalidExecutionPayload
<1>2. /\ pa \in ProtoArrays /\ IsTree(pa.nodes) /\ LinksOK(pa.nodes)
      /\ StatusesOK(pa.nodes, ValidPayloads) /\ StoreOK(pa.nodes, store)
  BY InvFacts
<1> HIDE DEF pa
<1>3. OperationOK(pa.nodes, ValidPayloads, op) /\ IsClosed(ValidPayloads)
  BY <1>2, OperationsAreRight, ValidPayloadsAreClosed
<1>4. /\ q \in ProtoArrays
      /\ SameTree(pa.nodes, q.nodes)
      /\ LinksOK(q.nodes)
      /\ StatusesOK(q.nodes, ValidPayloads)
  BY <1>2, <1>3, InvalidationKeeps
<1> HIDE DEF q
<1>5. TreeOK(q) /\ StoreOK(q.nodes, store)
  BY <1>2, <1>4, SameWalk, SameTreeKeepsStore DEF TreeOK
<1> QED
  BY <1>1, <1>5, TreeStepKeeps

LEMMA PruneKeeps ==
    ASSUME IInv, prune
    PROVE  IInv' /\ StoreStep
<1> DEFINE pa == proto_array.pa
           q == maybe_prune(pa, store.finalized.root)
<1>1. /\ proto_array' = [proto_array EXCEPT !.pa = q]
      /\ UNCHANGED <<store, queued_attestations>>
  BY DEF prune
<1>2. /\ pa \in ProtoArrays /\ IsTree(pa.nodes) /\ LinksOK(pa.nodes)
      /\ StatusesOK(pa.nodes, ValidPayloads) /\ StoreOK(pa.nodes, store)
  BY InvFacts
<1> HIDE DEF pa
<1>3. q \in ProtoArrays
  BY <1>2, PruneFacts
<1>4. PICK d \in Nat : /\ d = 0 \/ d + 1 = IndexOf(pa.nodes, store.finalized.root)
                       /\ Dropped(pa.nodes, q.nodes, d)
  BY <1>2, PruneFacts
<1> HIDE DEF q
<1>5. q.nodes \in Seq(Node)
  BY <1>3 DEF ProtoArrays
<1>6. TreeOK(q)
  BY <1>2, <1>3, <1>4, <1>5, DroppedWalk, DroppedKeeps DEF TreeOK
<1>7. StoreOK(q.nodes, store)
  BY <1>2, <1>4, <1>5, DroppedKeepsStore
<1> QED
  BY <1>1, <1>6, <1>7, TreeStepKeeps

LEMMA RestartStepKeeps ==
    ASSUME IInv, NEW reset \in Resets, Restart(reset)
    PROVE  IInv' /\ StoreStep
<1> DEFINE r == AfterRestart(reset)
<1>1. /\ proto_array' = r.proto /\ store' = store
      /\ queued_attestations' = queued_attestations
  BY DEF Restart, HeadFound
<1>2. ProtoOK(r.proto) /\ SameTree(Nodes, r.proto.pa.nodes)
  BY RestartKeeps
<1> HIDE DEF r
<1>3. StoreOK(r.proto.pa.nodes, store)
  BY <1>2, InvFacts, SameTreeKeepsStore
<1>4. StoreStep
  BY <1>1, InvFacts DEF StoreStep
<1> QED
  BY <1>1, <1>2, <1>3, <1>4 DEF IInv, Nodes

LEMMA StepKeeps == IInv /\ [Next]_vars => IInv' /\ StoreStep
<1> SUFFICES ASSUME IInv, [Next]_vars PROVE IInv' /\ StoreStep
  OBVIOUS
<1>1. CASE \E now \in Clock : get_head(now)
  BY <1>1, GetHeadKeeps
<1>2. CASE \E root \in Roots, now \in Clock, timely \in BOOLEAN, status \in ImportStatuses :
                OnBlock(root, now, timely, status)
  BY <1>2, OnBlockKeeps
<1>3. CASE \E att \in Attestations, now \in Clock, fromBlock \in BOOLEAN :
                OnAttestation(att, now, fromBlock)
  BY <1>3, OnAttestationKeeps
<1>4. CASE \E v \in Slashable : OnAttesterSlashing(v)
  BY <1>4, OnAttesterSlashingKeeps
<1>5. CASE \E root \in Roots : OnValidExecutionPayload(root)
  BY <1>5, OnValidExecutionPayloadKeeps
<1>6. CASE \E op \in InvalidationOperations : OnInvalidExecutionPayload(op)
  BY <1>6, OnInvalidExecutionPayloadKeeps
<1>7. CASE prune
  BY <1>7, PruneKeeps
<1>8. CASE \E reset \in Resets : Restart(reset)
  BY <1>8, RestartStepKeeps
<1>9. CASE UNCHANGED vars
  <2>1. IInv'
    BY <1>9 DEF IInv, Nodes, vars
  <2>2. StoreStep
    BY <1>9, InvFacts DEF StoreStep, vars
  <2> QED BY <2>1, <2>2
<1> QED
  BY <1>1, <1>2, <1>3, <1>4, <1>5, <1>6, <1>7, <1>8, <1>9 DEF Next

-----------------------------------------------------------------------------
(***************************************************************************)
(* The results                                                             *)
(***************************************************************************)

\* The inductive invariant: after any calls the vector of nodes is a tree with links inside
\* it and statuses that are true and agree, and the blocks of the store's checkpoints are in
\* it.
THEOREM InvariantHolds == Spec => []IInv
<1>1. Init => IInv
  BY InitKeeps
<1>2. IInv /\ [Next]_vars => IInv'
  BY StepKeeps
<1> QED
  BY <1>1, <1>2, PTL DEF Spec

\* Only a restart counts, and it keeps to the bound.
LEMMA StaleRestartsCounted == Spec => [](stale_restarts \in 0..MaxStaleRestarts)
<1> DEFINE Within == stale_restarts \in 0..MaxStaleRestarts
<1>1. Init => Within
  <2>1. Init => stale_restarts = 0
    BY Zenon DEF Init
  <2>2. MaxStaleRestarts \in Nat
    BY Zenon, InputsAssumption
  <2> QED BY <2>1, <2>2
<1>2. Within /\ [Next]_vars => Within'
  <2> SUFFICES ASSUME Within, [Next]_vars PROVE Within'
    OBVIOUS
  <2>1. CASE \E reset \in Resets : Restart(reset)
    BY <2>1, InputsAssumption DEF Restart
  <2>2. CASE UNCHANGED stale_restarts
    BY <2>2
  <2>3. UNCHANGED stale_restarts \/ \E reset \in Resets : Restart(reset)
    BY DEF Next, vars, get_head, OnBlock, OnAttestation, OnAttesterSlashing,
           OnValidExecutionPayload, OnInvalidExecutionPayload, prune
  <2> QED BY <2>1, <2>2, <2>3
<1> QED
  BY <1>1, <1>2, PTL DEF Spec

\* The types of the fork choice's state: no weight of a node ever falls below zero, whether
\* apply_score_changes succeeds or stops half way, and no call leaves a vote or a checkpoint
\* without a block.
THEOREM TypeCorrect == Spec => []TypeOK
<1>1. IInv /\ stale_restarts \in 0..MaxStaleRestarts => TypeOK
  <2> SUFFICES ASSUME IInv, stale_restarts \in 0..MaxStaleRestarts PROVE TypeOK
    OBVIOUS
  <2>1. /\ IsTree(Nodes) /\ LinksOK(Nodes) /\ Nodes \in Seq(Node) /\ store \in Stores
        /\ ProtoOK(proto_array) /\ QueueOK(queued_attestations)
    BY InvFacts
  <2>2. ASSUME NEW i \in DOMAIN Nodes
        PROVE  /\ Nodes[i].root \in Roots
               /\ {Nodes[i].parent, Nodes[i].best_child, Nodes[i].best_descendant}
                        \subseteq 0..Len(Nodes)
               /\ Nodes[i].weight \in Nat
               /\ Nodes[i].execution_status \in Statuses
    <3>1. /\ DOMAIN Nodes = 1..Len(Nodes) /\ Len(Nodes) \in Nat
          /\ Nodes[i].root \in Roots /\ Nodes[i].weight \in Nat
          /\ Nodes[i].execution_status \in Statuses
      BY <2>1, NodeFacts
    <3>2. LinkOK(Nodes, i, Nodes[i].best_child, Nodes[i].best_descendant)
      BY <2>1 DEF LinksOK
    <3>3. Nodes[i].parent \in DOMAIN Nodes \cup {NoIndex}
      BY <2>1, TreeFacts
    <3>4. {Nodes[i].best_child, Nodes[i].best_descendant} \subseteq DOMAIN Nodes \cup {NoIndex}
      BY <3>2 DEF LinkOK
    <3>5. DOMAIN Nodes \cup {NoIndex} = 0..Len(Nodes)
      BY <3>1 DEF NoIndex
    <3> QED BY <3>1, <3>3, <3>4, <3>5
  <2>3. \A v \in Validators : {proto_array.votes[v].current, proto_array.votes[v].next}
                                    \subseteq Roots \cup {ZeroHash}
    BY <2>1 DEF ProtoOK, VoteTrackers
  <2>4. store.time \in 0..MaxSlot
    BY <2>1 DEF Stores
  <2> QED BY <2>1, <2>2, <2>3, <2>4, StoreFacts DEF TypeOK, QueueOK
<1> QED
  BY <1>1, InvariantHolds, StaleRestartsCounted, PTL

\* The vector of nodes is a tree in topological order, and the best child and the best
\* descendant of a node are a child and a descendant of it, through insertion, scoring,
\* invalidation that stops half way, pruning (maybe_prune moves every index) and restarts.
THEOREM TreeStaysWellFormed == Spec => []TreeWellFormed
<1>1. IInv => TreeWellFormed
  <2> SUFFICES ASSUME IInv, NEW i \in DOMAIN Nodes
               PROVE  LET n == Nodes[i]
                      IN  /\ n.parent < i
                          /\ n.parent # NoIndex => Nodes[n.parent].root = Block[n.root].parent
                          /\ n.best_child # NoIndex => /\ n.best_child \in Children(i)
                                                       /\ n.best_descendant # NoIndex
                          /\ n.best_descendant # NoIndex => n.best_descendant \in Subtree(i) \ {i}
    BY DEF TreeWellFormed
  <2>1. IsTree(Nodes) /\ LinksOK(Nodes)
    BY InvFacts
  <2>2. LinkOK(Nodes, i, Nodes[i].best_child, Nodes[i].best_descendant)
    BY <2>1 DEF LinksOK
  <2>3. /\ Nodes[i].parent < i
        /\ Nodes[i].parent # NoIndex => Nodes[Nodes[i].parent].root = Block[Nodes[i].root].parent
    BY <2>1 DEF IsTree
  <2> QED BY <2>2, <2>3 DEF LinkOK, Children, Subtree
<1> QED
  BY <1>1, InvariantHolds, PTL

\* While the execution engine answers consistently, everything behind an invalid payload is
\* invalid and nothing before a valid one is in doubt, although invalidation walks back from
\* the head it is given and validation stops at the first payload that is not optimistic.
THEOREM StatusesAgree == Spec => []StatusesPropagate
<1>1. IInv => StatusesPropagate
  <2>1. IInv => StatusesOK(Nodes, ValidPayloads)
    BY InvFacts
  <2> QED BY <2>1 DEF StatusesOK, StatusesBut, StatusesPropagate, IsInvalid
<1> QED
  BY <1>1, InvariantHolds, PTL

\* get_head always has its starting point: the justified block is in the tree, and
\* is_descendant finds the finalized block from it.
THEOREM CheckpointsStay == Spec => []CheckpointsInTree
<1>1. IInv => CheckpointsInTree
  <2> SUFFICES ASSUME IInv PROVE CheckpointsInTree
    OBVIOUS
  <2> DEFINE f == store.finalized
             j == store.justified
  <2>1. IsTree(proto_array.pa.nodes) /\ StoreOK(proto_array.pa.nodes, store) /\ store \in Stores
    BY InvFacts
  <2>2. /\ f \in FinalizedCheckpoints /\ j \in JustifiedCheckpoints
        /\ f.root \in Roots /\ j.root \in Roots /\ f.epoch \in Nat /\ j.epoch \in Nat
    BY <2>1, StoreFacts, CheckpointFacts
  <2>3. /\ f.epoch <= j.epoch /\ CheckpointOK(proto_array.pa.nodes, store, j)
        /\ Rooted(proto_array.pa.nodes, f.root)
    BY <2>1 DEF StoreOK
  <2> HIDE DEF f, j
  <2>4. j.epoch >= f.epoch
    BY <2>2, <2>3
  <2>5. f.root \in Chain(j.root)
    BY <2>2, <2>4, AccountableSafety
  <2>6. InTree(proto_array.pa.nodes, j.root)
    BY <2>3, <2>4 DEF CheckpointOK, f
  <2> QED BY <2>1, <2>2, <2>3, <2>5, <2>6, FinalizedIsFound DEF CheckpointsInTree, f, j
<1> QED
  BY <1>1, InvariantHolds, PTL

\* The clock and the checkpoints of the store never go back, and a newly finalized block is
\* in the tree behind the one finalized before it: through ticks, late blocks, the pull-ups
\* of unrealized checkpoints, pruning and restarts.
THEOREM FinalityOnlyAdvances == Spec => FinalityAdvances
<1>1. IInv /\ StoreStep =>
        /\ store'.time >= store.time
        /\ store'.justified.epoch >= store.justified.epoch
        /\ store'.finalized.epoch >= store.finalized.epoch
        /\ store'.finalized # store.finalized =>
            is_descendant(proto_array.pa, store.finalized.root, store'.finalized.root)
  <2> SUFFICES ASSUME IInv, StoreStep
               PROVE  /\ Advances(store, store')
                      /\ is_descendant(proto_array.pa, store.finalized.root,
                                       store'.finalized.root)
    BY DEF Advances
  <2> DEFINE nodes == proto_array.pa.nodes
             f == store.finalized
             g == store'.finalized
  <2>1. /\ IsTree(nodes) /\ StoreOK(nodes, store) /\ store \in Stores
        /\ StoreOK(nodes, store') /\ store' \in Stores /\ Advances(store, store')
    BY InvFacts DEF StoreStep, StoreOK, Nodes
  <2>2. f \in FinalizedCheckpoints /\ g \in FinalizedCheckpoints /\ f.root \in Roots /\ g.root \in Roots
    BY <2>1, StoreFacts, CheckpointFacts
  <2>3. g.epoch >= f.epoch /\ Rooted(nodes, f.root) /\ InTree(nodes, g.root)
    BY <2>1 DEF Advances, StoreOK
  <2> HIDE DEF f, g
  <2>4. f.root \in Chain(g.root)
    BY <2>2, <2>3, AccountableSafety
  <2>5. is_descendant(proto_array.pa, f.root, g.root)
    BY <2>1, <2>2, <2>3, <2>4, FinalizedIsFound
  <2> QED BY <2>1, <2>5 DEF f, g
<1>2. IInv /\ [Next]_vars => StoreStep
  BY StepKeeps
<1>3. IInv /\ [Next]_vars =>
        [/\ store'.time >= store.time
         /\ store'.justified.epoch >= store.justified.epoch
         /\ store'.finalized.epoch >= store.finalized.epoch
         /\ store'.finalized # store.finalized =>
              is_descendant(proto_array.pa, store.finalized.root, store'.finalized.root)]_vars
  BY <1>1, <1>2
<1> QED
  BY <1>3, InvariantHolds, PTL DEF Spec, FinalityAdvances

=============================================================================
