----------------------- MODULE SyncingChainInvariant ------------------------
(***************************************************************************)
(* The invariants of a syncing chain, and that the methods which request   *)
(* and process batches keep them: for chains of every length, every number *)
(* of peers, every BATCH_BUFFER_SIZE and every limit of attempts.          *)
(***************************************************************************)
EXTENDS SyncingChain, FiniteSetTheorems, WellFoundedInduction, TLAPS

(***************************************************************************)
(* What every method keeps of a chain it does not remove.  A request is in *)
(* flight exactly for the batches that are Downloading, and for batches    *)
(* that were dropped behind the start of the chain: so the ids of one      *)
(* epoch never add up, and each request of a live batch is the first.      *)
(***************************************************************************)
InFlight(c) ==
    /\ c.requests \subseteq Epochs \X {1}
    /\ \A e \in Epochs :
          /\ c.batches[e].state = "Downloading" => c.batches[e].id = 1 /\ <<e, 1>> \in c.requests
          /\ c.batches[e].state # "Downloading" => c.batches[e].id = None
          /\ <<e, 1>> \in c.requests => e < c.start_epoch \/ c.batches[e].state = "Downloading"

Current(c) ==
    /\ \A e \in Epochs : (c.batches[e].state = "Processing") <=> (c.current_processing_batch = e)
    /\ c.current_processing_batch # None => c.current_processing_batch \in c.segments

Bounds(c) ==
    /\ \A e \in Epochs : e < c.start_epoch => c.batches[e] = NoBatch
    /\ c.start_epoch <= c.processing_target
    /\ c.start_epoch <= c.to_be_downloaded
    /\ c.optimistic_start # None => c.start_epoch < c.optimistic_start

Sound(c) == c \in Chains /\ InFlight(c) /\ Current(c) /\ Bounds(c)

(***************************************************************************)
(* The order of the batches.  What has been processed lies before the      *)
(* target, or was an optimistic start before; what lies outside the        *)
(* download buffer is the optimistic batch; and only the optimistic batch  *)
(* and the target are ever processed.                                      *)
(***************************************************************************)
Prefix(c) == \A e \in Epochs : c.start_epoch <= e /\ e < c.processing_target =>
                                   c.batches[e].state = "AwaitingValidation"

Buffer(c) ==
    /\ c.processing_target <= c.to_be_downloaded
    /\ \A e \in Epochs : HasBatch(c, e) /\ c.to_be_downloaded <= e => e = c.optimistic_start
    /\ \A e \in Epochs : c.start_epoch <= e /\ e < c.to_be_downloaded /\ e < Target => HasBatch(c, e)

TurnsBut(c, X) ==
    /\ c.optimistic_start # None => c.processing_target <= c.optimistic_start
    /\ c.optimistic_start \notin c.attempted_optimistic_starts
    /\ c.current_processing_batch \in {None, c.optimistic_start, c.processing_target}
    /\ \A e \in Epochs : c.processing_target <= e /\ c.batches[e].state = "AwaitingValidation" =>
                             e \in c.attempted_optimistic_starts \cup X

Turns(c) == TurnsBut(c, {})

(* In order, but for batches of X that have just been processed. *)
OrderlyBut(c, X) == Prefix(c) /\ Buffer(c) /\ TurnsBut(c, X)

Orderly(c) == Prefix(c) /\ Buffer(c) /\ Turns(c)

WrongStates == {"WrongBatchState", "WrongChainState"}

(* How a method leaves the chain, in general and if it found it in order. *)
Kept1(c) == Sound(c) \/ c.result \in Removals
Kept2(c) == (c.result = "keep" /\ Orderly(c)) \/ c.result \in Removals \ WrongStates

-----------------------------------------------------------------------------
(* A set of naturals that is not empty has a least element. *)
LEMMA HasMinimum ==
    ASSUME NEW T \in SUBSET Nat, T # {}
    PROVE  \E x \in T : \A y \in T : x <= y
<1>1. PICK x \in T : \A y \in T : ~(<<y, x>> \in OpToRel(<, Nat))
  BY WFMin, NatLessThanWellFounded
<1>2. \A y \in T : ~(y < x)
  BY <1>1, Zenon DEF OpToRel
<1> QED
  BY <1>2

LEMMA EpochsFinite == IsFiniteSet(Epochs) /\ IsFiniteSet(Epochs \X {1})
<1>1. IsFiniteSet(Epochs)
  BY FS_Interval, ConstantsAssumption DEF Epochs
<1>2. IsFiniteSet({1})
  BY FS_Singleton
<1> QED
  BY <1>1, <1>2, FS_Product

(* The first request for an epoch that has none in flight carries id 1. *)
LEMMA FirstId ==
    ASSUME NEW c, c.requests \subseteq Epochs \X {1}, NEW e \in Epochs, <<e, 1>> \notin c.requests
    PROVE  NextId(c, e) = 1
<1>1. Cardinality(c.requests) \in Nat
  BY EpochsFinite, FS_Subset, FS_CardinalityType
<1>2. \A n \in 1..(Cardinality(c.requests) + 1) :
          /\ <<e, n>> \notin c.requests
          /\ \A m \in 1..(n - 1) : <<e, m>> \in c.requests
          => n = 1
  BY <1>1
<1>3. 1 \in 1..(Cardinality(c.requests) + 1) /\ \A m \in 1..(1 - 1) : <<e, m>> \in c.requests
  BY <1>1
<1> QED
  BY <1>2, <1>3 DEF NextId

LEMMA NoBatchFacts == NoBatch.state = "vacant" /\ NoBatch.id = None /\ NoBatch.blocks = FALSE
  BY DEF NoBatch

LEMMA NewBatchFacts == /\ NewBatch \in BatchType
                       /\ NewBatch.state = "AwaitingDownload" /\ NewBatch.id = None
<1>1. NoBatch \in [state : {"vacant"}, id : {None}, blocks : BOOLEAN,
                   downloads : 0..(MAX_BATCH_DOWNLOAD_ATTEMPTS - 1),
                   attempts : 0..(MAX_BATCH_PROCESSING_ATTEMPTS - 1)]
  BY ConstantsAssumption DEF NoBatch
<1> QED
  BY <1>1 DEF NewBatch, BatchType, BatchStates

(* A batch of the map is in one of the states but Failed. *)
LEMMA BatchFacts ==
    ASSUME NEW c \in Chains
    PROVE  \A e \in Epochs :
              /\ HasBatch(c, e) <=> c.batches[e] \in BatchType
              /\ HasBatch(c, e) <=> c.batches[e].state # "vacant"
              /\ c.batches[e] \in BatchType \cup {NoBatch}
              /\ c.batches[e].state # "Failed"
<1>1. \A b \in BatchType : b.state \in BatchStates \ {"Failed"} /\ b.state # "vacant"
  BY DEF BatchType, BatchStates
<1>2. NoBatch.state = "vacant"
  BY NoBatchFacts
<1>3. \A e \in Epochs : c.batches[e] \in BatchType \cup {NoBatch}
  BY DEF Chains
<1> QED
  BY <1>1, <1>2, <1>3 DEF HasBatch, BatchStates

(***************************************************************************)
(* What sending batches may change: batches that await their download are  *)
(* Downloading, and their requests in flight.                              *)
(***************************************************************************)
Sends(c, d, S) ==
    d = [c EXCEPT !.requests = @ \cup (S \X {1}),
                  !.batches = [e \in Epochs |-> IF e \in S THEN start_downloading(c.batches[e], 1)
                                                ELSE c.batches[e]]]

LEMMA SendKeeps ==
    ASSUME NEW c, Sound(c), NEW S \in SUBSET Epochs, NEW d, Sends(c, d, S),
           \A e \in S : c.batches[e].state = "AwaitingDownload"
    PROVE  Sound(d) /\ (Orderly(c) => Orderly(d))
<1>0. c \in Chains /\ InFlight(c) /\ Current(c) /\ Bounds(c)
  BY DEF Sound
<1>1. \A e \in Epochs : /\ c.batches[e] \in BatchType \cup {NoBatch}
                        /\ c.batches[e].state = "AwaitingDownload" => c.batches[e] \in BatchType
  BY <1>0 DEF Chains, NoBatch
<1>2. \A e \in S : /\ start_downloading(c.batches[e], 1) \in BatchType
                   /\ start_downloading(c.batches[e], 1).state = "Downloading"
                   /\ start_downloading(c.batches[e], 1).id = 1
  BY <1>1 DEF BatchType, BatchStates, start_downloading
<1>3. /\ d.batches \in [Epochs -> BatchType \cup {NoBatch}]
      /\ \A e \in Epochs : d.batches[e] = IF e \in S THEN start_downloading(c.batches[e], 1)
                                          ELSE c.batches[e]
      /\ d.requests = c.requests \cup (S \X {1})
  BY <1>0, <1>1, <1>2 DEF Sends, Chains
<1>f. /\ d.start_epoch = c.start_epoch /\ d.peers = c.peers /\ d.segments = c.segments
      /\ d.to_be_downloaded = c.to_be_downloaded /\ d.processing_target = c.processing_target
      /\ d.optimistic_start = c.optimistic_start /\ d.syncing = c.syncing /\ d.result = c.result
      /\ d.attempted_optimistic_starts = c.attempted_optimistic_starts
      /\ d.current_processing_batch = c.current_processing_batch
  BY <1>0, <1>1, <1>2 DEF Sends, Chains
<1>4. d.requests \subseteq Epochs \X {1} /\ d.requests \subseteq Requests
  BY <1>0, <1>3 DEF InFlight, Requests
<1>5. d \in Chains
  BY <1>0, <1>3, <1>f, <1>4 DEF Sends, Chains
<1>6. InFlight(d) /\ Current(d) /\ Bounds(d)
  <2>1. \A e \in Epochs : /\ e \in S => d.batches[e].state = "Downloading" /\ d.batches[e].id = 1
                                        /\ c.batches[e].state = "AwaitingDownload"
                          /\ e \notin S => d.batches[e] = c.batches[e]
                          /\ <<e, 1>> \in d.requests <=> (e \in S \/ <<e, 1>> \in c.requests)
    BY <1>2, <1>3
  <2>2. InFlight(d)
    BY <1>0, <1>f, <1>4, <2>1 DEF InFlight
  <2>3. Current(d)
    <3>1. \A e \in Epochs : (d.batches[e].state = "Processing") <=> (c.batches[e].state = "Processing")
      BY <2>1
    <3> QED
      BY <1>0, <1>f, <3>1 DEF Current
  <2>4. Bounds(d)
    <3>1. \A e \in Epochs : c.batches[e] = NoBatch => d.batches[e] = NoBatch
      BY <2>1, NoBatchFacts
    <3> QED
      BY <1>0, <1>f, <3>1 DEF Bounds
  <2> QED
    BY <2>2, <2>3, <2>4
<1>7. ASSUME Orderly(c)  PROVE Orderly(d)
  <2>1. \A e \in Epochs :
            /\ HasBatch(d, e) <=> HasBatch(c, e)
            /\ (d.batches[e].state = "AwaitingValidation") <=> (c.batches[e].state = "AwaitingValidation")
    BY <1>0, <1>2, <1>3, <1>5, BatchFacts
  <2> QED
    BY <1>f, <1>7, <2>1 DEF Orderly, Prefix, Buffer, Turns, TurnsBut
<1> QED
  BY <1>5, <1>6, <1>7 DEF Sound

LEMMA RemovalFacts ==
    ASSUME NEW c \in Chains
    PROVE  /\ \A reason : RemoveChain(c, reason).result = reason
           /\ \A b : Outcome(c, b).result \in {"ChainFailed", "ChainFailedAndBlacklisted"}
  BY DEF Chains, RemoveChain, Outcome

(* Sending batches that await their download, or the end of the chain. *)
LEMMA SendBatchesKeeps ==
    ASSUME NEW c, Sound(c), NEW S \in SUBSET Epochs, NEW env,
           \A e \in S : c.batches[e].state = "AwaitingDownload"
    PROVE  LET d == SendBatches(c, S, env)
           IN  \/ d = c /\ (S = {} \/ c.peers = {})
               \/ d.result \in {"ChainFailed", "ChainFailedAndBlacklisted"}
               \/ Sends(c, d, S) /\ Sound(d) /\ (Orderly(c) => Orderly(d))
<1> DEFINE d == SendBatches(c, S, env)
<1>0. c \in Chains /\ InFlight(c) /\ Bounds(c)
  BY DEF Sound
<1>1. CASE S = {} \/ c.peers = {}
  BY <1>1 DEF SendBatches
<1>2. CASE ~(S = {} \/ c.peers = {}) /\ ~env.network
  BY <1>0, <1>2, RemovalFacts DEF SendBatches
<1>3. CASE ~(S = {} \/ c.peers = {}) /\ env.network
  <2>1. \A e \in S : <<e, 1>> \notin c.requests
    BY <1>0, NoBatchFacts DEF InFlight, Bounds
  <2>2. \A e \in S : NextId(c, e) = 1
    BY <1>0, <2>1, FirstId DEF InFlight
  <2>3. {<<e, NextId(c, e)>> : e \in S} = S \X {1}
    BY <2>2
  <2>4. [e \in Epochs |-> IF e \in S THEN start_downloading(c.batches[e], NextId(c, e)) ELSE c.batches[e]]
        = [e \in Epochs |-> IF e \in S THEN start_downloading(c.batches[e], 1) ELSE c.batches[e]]
    BY <2>2
  <2>5. Sends(c, d, S)
    BY <1>3, <2>3, <2>4 DEF SendBatches, Sends
  <2> QED
    BY <2>5, SendKeeps
<1> QED
  BY <1>1, <1>2, <1>3

(* The fields that requests leave alone. *)
Frame(c, d) ==
    /\ d.start_epoch = c.start_epoch /\ d.processing_target = c.processing_target
    /\ d.optimistic_start = c.optimistic_start /\ d.segments = c.segments
    /\ d.attempted_optimistic_starts = c.attempted_optimistic_starts
    /\ d.syncing = c.syncing /\ d.result = c.result /\ d.peers = c.peers
    /\ d.current_processing_batch = c.current_processing_batch

LEMMA SendsFrame ==
    ASSUME NEW c \in Chains, NEW S, NEW d, Sends(c, d, S)
    PROVE  /\ Frame(c, d) /\ d.to_be_downloaded = c.to_be_downloaded
           /\ \A e \in Epochs : d.batches[e] = IF e \in S THEN start_downloading(c.batches[e], 1)
                                               ELSE c.batches[e]
  BY DEF Sends, Chains, Frame

(* The missing batches M are added, and the buffer extends to n. *)
Adds(c, d, M, n) ==
    /\ d \in Chains /\ Frame(c, d) /\ d.requests = c.requests /\ d.to_be_downloaded = n
    /\ \A e \in Epochs : d.batches[e] = IF e \in M THEN NewBatch ELSE c.batches[e]

LEMMA AddKeeps ==
    ASSUME NEW c, Sound(c), NEW M \in SUBSET Epochs, NEW n \in Nat, NEW d, Adds(c, d, M, n),
           c.to_be_downloaded <= n,
           \A e \in M : ~HasBatch(c, e) /\ c.start_epoch <= e
    PROVE  Sound(d)
<1>0. c \in Chains /\ InFlight(c) /\ Current(c) /\ Bounds(c)
  BY DEF Sound
<1>1. /\ c.start_epoch \in Int /\ c.to_be_downloaded \in Int /\ Epochs \subseteq Int
  BY <1>0 DEF Chains, Epochs
<1>2. \A e \in Epochs :
          /\ e \in M => /\ c.batches[e].state = "vacant" /\ c.start_epoch <= e
                        /\ d.batches[e].state = "AwaitingDownload" /\ d.batches[e].id = None
          /\ e \notin M => d.batches[e] = c.batches[e]
  BY <1>0, BatchFacts, NewBatchFacts DEF Adds
<1>3. InFlight(d)
  BY <1>0, <1>1, <1>2 DEF InFlight, Adds, Frame
<1>4. Current(d)
  <2>1. \A e \in Epochs : (d.batches[e].state = "Processing") <=> (c.batches[e].state = "Processing")
    BY <1>2
  <2> QED
    BY <1>0, <2>1 DEF Current, Adds, Frame
<1>5. Bounds(d)
  <2>1. \A e \in Epochs : e < c.start_epoch => d.batches[e] = c.batches[e]
    BY <1>1, <1>2
  <2> QED
    BY <1>0, <1>1, <2>1 DEF Bounds, Adds, Frame
<1> QED
  BY <1>3, <1>4, <1>5 DEF Sound, Adds

(* What a chain that syncs is left with: the optimistic batch scheduled,   *)
(* or no room for more.                                                    *)
Served(c) ==
    c.syncing => IF c.optimistic_start # None THEN HasBatch(c, c.optimistic_start)
                 ELSE \/ c.to_be_downloaded >= Target
                      \/ \E e \in Epochs : c.batches[e].state \in {"Downloading", "AwaitingProcessing"}

LEMMA AttemptSendKeeps ==
    ASSUME NEW c, Sound(c), NEW env
    PROVE  LET d == attempt_send_awaiting_download_batches(c, env)
           IN  /\ Kept1(d)
               /\ Orderly(c) => Kept2(d)
               /\ d.result = "keep" => /\ Frame(c, d) /\ d.to_be_downloaded = c.to_be_downloaded
                                       /\ \A e \in Epochs : HasBatch(c, e) => HasBatch(d, e)
<1> DEFINE S == {e \in Epochs : c.batches[e].state = "AwaitingDownload"}
           d == SendBatches(c, S, env)
<1>0. c \in Chains /\ c.result = "keep"
  BY DEF Sound, Chains
<1>1. \/ d = c /\ (S = {} \/ c.peers = {})
      \/ d.result \in {"ChainFailed", "ChainFailedAndBlacklisted"}
      \/ Sends(c, d, S) /\ Sound(d) /\ (Orderly(c) => Orderly(d))
  BY SendBatchesKeeps
<1>2. CASE d = c
  BY <1>0, <1>2 DEF attempt_send_awaiting_download_batches, Kept1, Kept2, Frame
<1>3. CASE d.result \in {"ChainFailed", "ChainFailedAndBlacklisted"}
  BY <1>3 DEF attempt_send_awaiting_download_batches, Kept1, Kept2, Removals, WrongStates
<1>4. CASE Sends(c, d, S) /\ Sound(d) /\ (Orderly(c) => Orderly(d))
  <2>1. /\ Frame(c, d) /\ d.to_be_downloaded = c.to_be_downloaded
        /\ \A e \in Epochs : d.batches[e] = IF e \in S THEN start_downloading(c.batches[e], 1)
                                            ELSE c.batches[e]
    BY <1>0, <1>4, SendsFrame
  <2>2. \A e \in Epochs : HasBatch(c, e) => HasBatch(d, e)
    <3>1. d \in Chains
      BY <1>4 DEF Sound
    <3>2. \A b \in BatchType : start_downloading(b, 1).state = "Downloading"
      BY DEF BatchType, start_downloading
    <3> QED
      BY <1>0, <2>1, <3>1, <3>2, BatchFacts
  <2> QED
    BY <1>0, <1>4, <2>1, <2>2 DEF attempt_send_awaiting_download_batches, Kept1, Kept2, Frame
<1> QED
  BY <1>1, <1>2, <1>3, <1>4

(* The loop over include_next_batch adds what is missing up to where it    *)
(* stops, at the target or with batches in the buffer.                     *)
LEMMA IncludeKeeps ==
    ASSUME NEW c, Sound(c), NEW env
    PROVE  LET d == IncludeBatches(c, env)
           IN  /\ Kept1(d)
               /\ Orderly(c) => Kept2(d)
               /\ d.result = "keep" =>
                     /\ Frame(c, d)
                     /\ \/ d.to_be_downloaded >= Target
                        \/ \E e \in Epochs : d.batches[e].state \in {"Downloading", "AwaitingProcessing"}
<1> DEFINE Missing(n) == {e \in Epochs : c.to_be_downloaded <= e /\ e < n /\ ~HasBatch(c, e)}
           Sent(n) == IF c.peers = {} THEN 0 ELSE Cardinality(Missing(n))
           Stops(n) == n >= Target \/ Buffered(c) + Sent(n) > BATCH_BUFFER_SIZE
           last == CHOOSE n \in c.to_be_downloaded..(c.to_be_downloaded + Target) :
                       Stops(n) /\ \A m \in c.to_be_downloaded..(n - 1) : ~Stops(m)
           a == [c EXCEPT !.to_be_downloaded = last,
                          !.batches = [e \in Epochs |-> IF e \in Missing(last) THEN NewBatch
                                                        ELSE c.batches[e]]]
           d == SendBatches(a, Missing(last), env)
<1>0. c \in Chains /\ InFlight(c) /\ Current(c) /\ Bounds(c)
  BY DEF Sound
<1>1. c.to_be_downloaded \in Nat /\ c.start_epoch \in Nat /\ Epochs \subseteq Nat /\ Target \in Nat
  BY <1>0, ConstantsAssumption DEF Chains, Epochs
<1>2. /\ last \in c.to_be_downloaded..(c.to_be_downloaded + Target)
      /\ Stops(last) /\ \A m \in c.to_be_downloaded..(last - 1) : ~Stops(m)
  <2> DEFINE T == {n \in c.to_be_downloaded..(c.to_be_downloaded + Target) : Stops(n)}
  <2>1. c.to_be_downloaded + Target \in T
    BY <1>1
  <2> HIDE DEF Stops
  <2>2. T \in SUBSET Nat /\ T # {}
    BY <1>1, <2>1
  <2>3. PICK n \in T : \A m \in T : n <= m
    BY <2>2, HasMinimum
  <2>4. \A m \in c.to_be_downloaded..(n - 1) : ~Stops(m)
    BY <1>1, <2>2, <2>3
  <2>5. \E k \in c.to_be_downloaded..(c.to_be_downloaded + Target) :
            Stops(k) /\ \A m \in c.to_be_downloaded..(k - 1) : ~Stops(m)
    BY <2>3, <2>4
  <2> QED
    BY <2>5
<1> HIDE DEF last
<1>3. last \in Nat /\ c.to_be_downloaded <= last
  BY <1>1, <1>2
<1> DEFINE M == Missing(last)
<1>4. /\ M \in SUBSET Epochs
      /\ \A e \in M : ~HasBatch(c, e) /\ c.start_epoch <= e /\ c.to_be_downloaded <= e /\ e < last
      /\ \A e \in Epochs : c.to_be_downloaded <= e /\ e < last => HasBatch(c, e) \/ e \in M
  BY <1>0, <1>1, <1>3 DEF Bounds
<1>5. Adds(c, a, M, last)
  <2> HIDE DEF M
  <2>1. [e \in Epochs |-> IF e \in M THEN NewBatch ELSE c.batches[e]] \in [Epochs -> BatchType \cup {NoBatch}]
    BY <1>0, NewBatchFacts DEF Chains
  <2>2. a = [c EXCEPT !.to_be_downloaded = last,
                      !.batches = [e \in Epochs |-> IF e \in M THEN NewBatch ELSE c.batches[e]]]
    BY DEF M
  <2> HIDE DEF a
  <2> QED
    BY <1>0, <1>3, <2>1, <2>2 DEF Chains, Adds, Frame
<1> HIDE DEF M, a
<1>6. Sound(a)
  BY <1>3, <1>4, <1>5, AddKeeps
<1>7. ASSUME Orderly(c)  PROVE Orderly(a)
  <2>1. \A e \in Epochs :
            /\ HasBatch(a, e) <=> (HasBatch(c, e) \/ e \in M)
            /\ (a.batches[e].state = "AwaitingValidation") <=> (c.batches[e].state = "AwaitingValidation")
    BY <1>0, <1>4, <1>5, BatchFacts, NewBatchFacts DEF Adds
  <2>2. Prefix(a)
    BY <1>5, <1>7, <2>1 DEF Orderly, Prefix, Adds, Frame
  <2>3. Buffer(a)
    <3>1. a.processing_target <= a.to_be_downloaded
      BY <1>0, <1>1, <1>3, <1>5, <1>7 DEF Orderly, Buffer, Adds, Frame, Chains
    <3>2. ASSUME NEW e \in Epochs, HasBatch(a, e), a.to_be_downloaded <= e
          PROVE  e = a.optimistic_start
      BY <1>1, <1>3, <1>4, <1>5, <1>7, <2>1, <3>2 DEF Orderly, Buffer, Adds, Frame
    <3>3. ASSUME NEW e \in Epochs, a.start_epoch <= e, e < a.to_be_downloaded, e < Target
          PROVE  HasBatch(a, e)
      BY <1>1, <1>3, <1>4, <1>5, <1>7, <2>1, <3>3 DEF Orderly, Buffer, Adds, Frame
    <3> QED
      BY <3>1, <3>2, <3>3 DEF Buffer
  <2>4. Turns(a)
    BY <1>5, <1>7, <2>1 DEF Orderly, Turns, TurnsBut, Adds, Frame
  <2> QED
    BY <2>2, <2>3, <2>4 DEF Orderly
<1>8. \A e \in M : a.batches[e].state = "AwaitingDownload"
  BY <1>4, <1>5, NewBatchFacts DEF Adds
<1>9. \/ d = a /\ (M = {} \/ a.peers = {})
      \/ d.result \in {"ChainFailed", "ChainFailedAndBlacklisted"}
      \/ Sends(a, d, M) /\ Sound(d) /\ (Orderly(a) => Orderly(d))
  BY <1>4, <1>6, <1>8, SendBatchesKeeps DEF M
<1>10. a.result = "keep" /\ Frame(c, a) /\ a.to_be_downloaded = last /\ a \in Chains
  BY <1>5 DEF Adds, Chains
<1>11. \/ last >= Target
       \/ M # {} /\ c.peers # {}
       \/ \E e \in Epochs : c.batches[e].state \in {"Downloading", "AwaitingProcessing"}
  <2> DEFINE B == {e \in Epochs : c.batches[e].state \in {"Downloading", "AwaitingProcessing"}}
  <2>1. CASE B = {} /\ (M = {} \/ c.peers = {})
    <3>1. Buffered(c) = 0 /\ Sent(last) = 0
      BY <2>1, FS_EmptySet DEF Buffered, M
    <3> HIDE DEF Sent
    <3> QED
      BY <1>2, <3>1, ConstantsAssumption
  <2> QED
    BY <2>1
<1>12. IncludeBatches(c, env) = d
  BY DEF IncludeBatches, last, a
<1> HIDE DEF d
<1>13. CASE d = a /\ (M = {} \/ a.peers = {})
  <2>1. c.peers = a.peers
    BY <1>10 DEF Frame
  <2>2. \A e \in Epochs : c.batches[e].state \in {"Downloading", "AwaitingProcessing"} =>
                              a.batches[e] = c.batches[e]
    BY <1>0, <1>4, <1>5, BatchFacts DEF Adds
  <2> QED
    BY <1>6, <1>7, <1>10, <1>11, <1>12, <1>13, <2>1, <2>2 DEF Kept1, Kept2
<1>14. CASE d.result \in {"ChainFailed", "ChainFailedAndBlacklisted"}
  BY <1>12, <1>14 DEF Kept1, Kept2, Removals, WrongStates
<1>15. CASE Sends(a, d, M) /\ Sound(d) /\ (Orderly(a) => Orderly(d))
  <2>1. /\ Frame(a, d) /\ d.to_be_downloaded = last
        /\ \A e \in Epochs : d.batches[e] = IF e \in M THEN start_downloading(a.batches[e], 1)
                                            ELSE a.batches[e]
    BY <1>10, <1>15, SendsFrame
  <2>2. \A e \in M : d.batches[e].state = "Downloading"
    <3>1. \A b \in BatchType : start_downloading(b, 1).state = "Downloading"
      BY DEF BatchType, start_downloading
    <3> QED
      BY <1>4, <1>5, <2>1, <3>1, NewBatchFacts DEF Adds
  <2>3. \A e \in Epochs : c.batches[e].state \in {"Downloading", "AwaitingProcessing"} =>
                              d.batches[e] = c.batches[e]
    BY <1>0, <1>4, <1>5, <2>1, BatchFacts DEF Adds
  <2>4. Frame(c, d)
    BY <1>10, <2>1 DEF Frame
  <2>5. \/ d.to_be_downloaded >= Target
        \/ \E e \in Epochs : d.batches[e].state \in {"Downloading", "AwaitingProcessing"}
    BY <1>4, <1>11, <2>1, <2>2, <2>3
  <2> QED
    BY <1>7, <1>10, <1>12, <1>15, <2>4, <2>5 DEF Kept1, Kept2, Frame
<1> QED
  BY <1>9, <1>13, <1>14, <1>15

(* The optimistic batch is created and sent ahead of the buffer. *)
LEMMA RequestOptimisticKeeps ==
    ASSUME NEW c, Sound(c), NEW env, NEW e \in Epochs, e = c.optimistic_start, ~HasBatch(c, e)
    PROVE  LET d == send_batch([c EXCEPT !.batches[e] = NewBatch], e, env)
           IN  /\ Kept1(d)
               /\ Orderly(c) => Kept2(d)
               /\ d.result = "keep" => Frame(c, d) /\ HasBatch(d, e)
<1> DEFINE a == [c EXCEPT !.batches[e] = NewBatch]
           d == SendBatches(a, {e}, env)
<1>0. c \in Chains /\ Bounds(c) /\ c.to_be_downloaded \in Nat /\ c.start_epoch \in Nat /\ Epochs \subseteq Nat
  BY DEF Sound, Chains, Epochs
<1>1. Adds(c, a, {e}, c.to_be_downloaded)
  <2>1. [c.batches EXCEPT ![e] = NewBatch] \in [Epochs -> BatchType \cup {NoBatch}]
    BY <1>0, NewBatchFacts DEF Chains
  <2> QED
    BY <1>0, <2>1 DEF Chains, Adds, Frame
<1> HIDE DEF a
<1>2. c.start_epoch <= e /\ None \notin Epochs
  BY <1>0, ConstantsAssumption DEF Bounds, None, Epochs
<1>3. Sound(a)
  BY <1>0, <1>1, <1>2, AddKeeps
<1>4. /\ HasBatch(a, e) /\ a.batches[e].state = "AwaitingDownload"
      /\ a \in Chains /\ a.result = "keep"
  BY <1>1, <1>3, BatchFacts, NewBatchFacts DEF Adds, Chains
<1>5. send_batch(a, e, env) = d
  <2>1. {e} \cap {f \in Epochs : HasBatch(a, f)} = {e}
    BY <1>4
  <2> QED
    BY <2>1 DEF send_batch
<1>6. ASSUME Orderly(c)  PROVE Orderly(a)
  <2>1. \A f \in Epochs :
            /\ HasBatch(a, f) <=> (HasBatch(c, f) \/ f = e)
            /\ (a.batches[f].state = "AwaitingValidation") <=> (c.batches[f].state = "AwaitingValidation")
    BY <1>0, <1>1, <1>4, BatchFacts, NewBatchFacts DEF Adds
  <2> QED
    BY <1>1, <1>6, <2>1 DEF Orderly, Prefix, Buffer, Turns, TurnsBut, Adds, Frame
<1>7. \/ d = a
      \/ d.result \in {"ChainFailed", "ChainFailedAndBlacklisted"}
      \/ Sends(a, d, {e}) /\ Sound(d) /\ (Orderly(a) => Orderly(d))
  BY <1>3, <1>4, SendBatchesKeeps
<1> HIDE DEF d
<1>8. CASE d = a
  BY <1>1, <1>3, <1>4, <1>5, <1>6, <1>8 DEF Kept1, Kept2, Adds, a
<1>9. CASE d.result \in {"ChainFailed", "ChainFailedAndBlacklisted"}
  BY <1>5, <1>9 DEF Kept1, Kept2, Removals, WrongStates, a
<1>10. CASE Sends(a, d, {e}) /\ Sound(d) /\ (Orderly(a) => Orderly(d))
  <2>1. Frame(a, d) /\ d.batches[e] = start_downloading(a.batches[e], 1)
    BY <1>4, <1>10, SendsFrame
  <2>2. HasBatch(d, e)
    <3>1. \A b \in BatchType : start_downloading(b, 1).state = "Downloading"
      BY DEF BatchType, start_downloading
    <3> QED
      BY <1>4, <1>10, <2>1, <3>1, BatchFacts DEF Sound
  <2>3. Frame(c, d)
    BY <1>1, <2>1 DEF Adds, Frame
  <2> QED
    BY <1>4, <1>5, <1>6, <1>10, <2>1, <2>2, <2>3 DEF Kept1, Kept2, Frame, a
<1> QED
  BY <1>7, <1>8, <1>9, <1>10

LEMMA RequestKeeps ==
    ASSUME NEW c, Sound(c), NEW env
    PROVE  LET d == request_batches(c, env)
           IN  /\ Kept1(d)
               /\ Orderly(c) => Kept2(d)
               /\ d.result = "keep" => Frame(c, d) /\ Served(d)
<1> DEFINE e == c.optimistic_start
           d == request_batches(c, env)
<1>0. c \in Chains /\ c.result = "keep" /\ e \in Epochs \cup {None}
  BY DEF Sound, Chains
<1>1. CASE ~c.syncing
  BY <1>0, <1>1 DEF request_batches, Kept1, Kept2, Frame, Served
<1>2. CASE c.syncing /\ e = None
  <2>1. d = IncludeBatches(c, env)
    BY <1>2 DEF request_batches
  <2>2. /\ Kept1(d) /\ (Orderly(c) => Kept2(d))
        /\ d.result = "keep" =>
              /\ Frame(c, d)
              /\ \/ d.to_be_downloaded >= Target
                 \/ \E f \in Epochs : d.batches[f].state \in {"Downloading", "AwaitingProcessing"}
    BY <2>1, IncludeKeeps
  <2> HIDE DEF d
  <2>3. d.result = "keep" => Served(d)
    BY <1>2, <2>2 DEF Served, Frame
  <2> QED
    BY <2>2, <2>3 DEF d
<1>3. CASE c.syncing /\ e # None /\ HasBatch(c, e)
  <2>1. d = attempt_send_awaiting_download_batches(c, env)
    BY <1>3 DEF request_batches
  <2>2. /\ Kept1(d) /\ (Orderly(c) => Kept2(d))
        /\ d.result = "keep" => Frame(c, d) /\ \A f \in Epochs : HasBatch(c, f) => HasBatch(d, f)
    BY <2>1, AttemptSendKeeps
  <2> HIDE DEF d
  <2>3. d.result = "keep" => Served(d)
    BY <1>0, <1>3, <2>2 DEF Served, Frame
  <2> QED
    BY <2>2, <2>3 DEF d
<1>4. CASE c.syncing /\ e # None /\ ~HasBatch(c, e)
  <2>1. d = send_batch([c EXCEPT !.batches[e] = NewBatch], e, env)
    BY <1>4 DEF request_batches
  <2>2. /\ Kept1(d) /\ (Orderly(c) => Kept2(d))
        /\ d.result = "keep" => Frame(c, d) /\ HasBatch(d, e)
    BY <1>0, <1>4, <2>1, RequestOptimisticKeeps
  <2> HIDE DEF d
  <2>3. d.result = "keep" => Served(d)
    BY <1>4, <2>2 DEF Served, Frame
  <2> QED
    BY <2>2, <2>3 DEF d
<1> QED
  BY <1>1, <1>2, <1>3, <1>4

-----------------------------------------------------------------------------
(***************************************************************************)
(* Processing.  Between start_processing and the moment the processor has  *)
(* the batch, and between its result and processing_completed, the batch e *)
(* is Processing and current_processing_batch is None.                     *)
(***************************************************************************)
Taken(c, e) ==
    /\ c \in Chains /\ InFlight(c) /\ Bounds(c) /\ c.current_processing_batch = None
    /\ \A f \in Epochs : (c.batches[f].state = "Processing") <=> (f = e)

SetBatch(c, e, b) == [c EXCEPT !.batches[e] = b]

LEMMA BatchSettles ==
    ASSUME NEW c, NEW e \in Epochs, Taken(c, e), NEW b \in BatchType, b.id = None,
           b.state \in {"AwaitingDownload", "AwaitingValidation"},
           NEW d, d = SetBatch(c, e, b)
    PROVE  /\ Sound(d) /\ Frame(c, d) /\ d.to_be_downloaded = c.to_be_downloaded
           /\ d.batches = [c.batches EXCEPT ![e] = b]
           /\ b.state = "AwaitingDownload" /\ Orderly(c) => Orderly(d)
           /\ Orderly(c) => OrderlyBut(d, {e})
<1>0. c \in Chains /\ InFlight(c) /\ Bounds(c)
  BY DEF Taken
<1>1. /\ [c.batches EXCEPT ![e] = b] \in [Epochs -> BatchType \cup {NoBatch}]
      /\ \A f \in Epochs : [c.batches EXCEPT ![e] = b][f] = IF f = e THEN b ELSE c.batches[f]
  BY <1>0 DEF Chains
<1>2. /\ d \in Chains /\ Frame(c, d) /\ d.requests = c.requests
      /\ d.to_be_downloaded = c.to_be_downloaded /\ d.batches = [c.batches EXCEPT ![e] = b]
  BY <1>0, <1>1 DEF Chains, Frame, SetBatch
<1>3. \A f \in Epochs : f # e => d.batches[f] = c.batches[f]
  BY <1>1, <1>2
<1>4. d.batches[e] = b /\ c.batches[e].state = "Processing"
  BY <1>1, <1>2 DEF Taken
<1>5. InFlight(d)
  BY <1>0, <1>2, <1>3, <1>4 DEF InFlight, Frame
<1>6. Current(d)
  <2>1. \A f \in Epochs : d.batches[f].state # "Processing"
    BY <1>3, <1>4 DEF Taken
  <2>2. d.current_processing_batch = None /\ None \notin Epochs
    BY <1>2, ConstantsAssumption DEF Taken, Frame, None, Epochs
  <2> QED
    BY <2>1, <2>2 DEF Current
<1>7. Bounds(d)
  <2>1. ~(e < c.start_epoch)
    BY <1>0, <1>4, NoBatchFacts DEF Bounds
  <2> QED
    BY <1>0, <1>2, <1>3, <2>1 DEF Bounds, Frame
<1>8. ASSUME b.state = "AwaitingDownload", Orderly(c)  PROVE Orderly(d)
  <2>1. \A f \in Epochs :
            /\ HasBatch(d, f) <=> HasBatch(c, f)
            /\ (d.batches[f].state = "AwaitingValidation") <=> (c.batches[f].state = "AwaitingValidation")
    BY <1>0, <1>2, <1>3, <1>4, <1>8, BatchFacts
  <2> QED
    BY <1>2, <1>8, <2>1 DEF Orderly, Prefix, Buffer, Turns, TurnsBut, Frame
<1>9. ASSUME Orderly(c)  PROVE OrderlyBut(d, {e})
  <2>1. \A f \in Epochs : HasBatch(d, f) <=> HasBatch(c, f)
    BY <1>0, <1>2, <1>3, <1>4, BatchFacts
  <2>2. \A f \in Epochs \ {e} : d.batches[f].state = c.batches[f].state
    BY <1>3
  <2>3. c.batches[e].state # "AwaitingValidation"
    BY <1>4
  <2> QED
    BY <1>2, <1>9, <2>1, <2>2, <2>3 DEF Orderly, OrderlyBut, Prefix, Buffer, Turns, TurnsBut, Frame
<1> QED
  BY <1>2, <1>5, <1>6, <1>7, <1>8, <1>9 DEF Sound

LEMMA NonFaultyFailureKeeps ==
    ASSUME NEW c, NEW e \in Epochs, Taken(c, e), NEW env
    PROVE  LET d == NonFaultyFailure(c, e, env)
           IN  Kept1(d) /\ (Orderly(c) => Kept2(d))
<1> DEFINE b == [c.batches[e] EXCEPT !.state = "AwaitingDownload", !.blocks = FALSE]
           a == [c EXCEPT !.batches[e] = b]
<1>0. c \in Chains /\ c.batches[e].state = "Processing" /\ c.batches[e] \in BatchType
  BY BatchFacts, NoBatchFacts DEF Taken
<1>1. b \in BatchType /\ b.state = "AwaitingDownload" /\ b.id = None
  BY <1>0 DEF BatchType, BatchStates, Taken, InFlight
<1>2. processing_completed(c, e, "NonFaultyFailure") = a
  BY <1>0 DEF processing_completed, Transition
<1> HIDE DEF b
<1>a. a = SetBatch(c, e, b)
  BY DEF SetBatch
<1> HIDE DEF a
<1>3. Sound(a) /\ (Orderly(c) => Orderly(a))
  <2>1. b.state \in {"AwaitingDownload", "AwaitingValidation"}
    BY <1>1
  <2> QED
    BY <1>1, <1>a, <2>1, BatchSettles
<1>4. a.result = "keep"
  BY <1>3 DEF Sound, Chains
<1>5. NonFaultyFailure(c, e, env) = attempt_send_awaiting_download_batches(a, env)
  BY <1>2, <1>4 DEF NonFaultyFailure, Then
<1> QED
  BY <1>3, <1>5, AttemptSendKeeps

(* A batch that awaits its processing is handed to the processor. *)
LEMMA ProcessBatchKeeps ==
    ASSUME NEW c, Sound(c), NEW e \in Epochs, c.batches[e].state = "AwaitingProcessing", NEW env
    PROVE  LET d == process_batch(c, e, env)
           IN  /\ Kept1(d)
               /\ Orderly(c) /\ e \in {c.optimistic_start, c.processing_target} => Kept2(d)
<1> DEFINE b == [c.batches[e] EXCEPT !.state = "Processing"]
           a == [c EXCEPT !.batches[e] = b]
           s == [a EXCEPT !.current_processing_batch = e, !.segments = a.segments \cup {e}]
           d == process_batch(c, e, env)
<1>0. c \in Chains /\ InFlight(c) /\ Current(c) /\ Bounds(c) /\ c.result = "keep"
  BY DEF Sound, Chains
<1>1. CASE ~c.syncing \/ c.current_processing_batch # None \/ ~env.engine
  BY <1>0, <1>1 DEF process_batch, Kept1, Kept2
<1>2. CASE ~(~c.syncing \/ c.current_processing_batch # None \/ ~env.engine)
  <2>1. c.batches[e] \in BatchType /\ HasBatch(c, e)
    BY <1>0, BatchFacts
  <2>2. b \in BatchType /\ b.state = "Processing" /\ b.id = None
    BY <1>0, <2>1 DEF BatchType, BatchStates, InFlight
  <2> HIDE DEF b
  <2>3. /\ [c.batches EXCEPT ![e] = b] \in [Epochs -> BatchType \cup {NoBatch}]
        /\ \A f \in Epochs : [c.batches EXCEPT ![e] = b][f] = IF f = e THEN b ELSE c.batches[f]
    BY <1>0, <2>2 DEF Chains
  <2>4. /\ a \in Chains /\ Frame(c, a) /\ a.requests = c.requests
        /\ a.to_be_downloaded = c.to_be_downloaded /\ a.batches = [c.batches EXCEPT ![e] = b]
    BY <1>0, <2>3 DEF Chains, Frame
  <2>5. start_processing(c, e) = a /\ a.result = "keep"
    BY <1>0, <2>4 DEF start_processing, Transition, Frame, b
  <2> HIDE DEF a
  <2>6. \A f \in Epochs : f # e => a.batches[f] = c.batches[f]
    BY <2>3, <2>4
  <2>7. a.batches[e] = b
    BY <2>3, <2>4
  <2>8. Taken(a, e)
    <3>1. InFlight(a)
      BY <1>0, <2>2, <2>4, <2>6, <2>7 DEF InFlight, Frame
    <3>2. Bounds(a)
      <4>1. ~(e < c.start_epoch)
        BY <1>0, NoBatchFacts DEF Bounds
      <4> QED
        BY <1>0, <2>4, <2>6, <4>1 DEF Bounds, Frame
    <3>3. None \notin Epochs
      BY ConstantsAssumption DEF None, Epochs
    <3>4. \A f \in Epochs : (a.batches[f].state = "Processing") <=> (f = e)
      BY <1>0, <1>2, <2>2, <2>6, <2>7, <3>3 DEF Current
    <3> QED
      BY <1>2, <2>4, <3>1, <3>2, <3>4 DEF Taken, Frame
  <2>9. ASSUME Orderly(c)  PROVE Orderly(a)
    <3>1. \A f \in Epochs :
              /\ HasBatch(a, f) <=> HasBatch(c, f)
              /\ (a.batches[f].state = "AwaitingValidation") <=> (c.batches[f].state = "AwaitingValidation")
      BY <1>0, <2>1, <2>2, <2>4, <2>6, <2>7, BatchFacts
    <3> QED
      BY <2>4, <2>9, <3>1 DEF Orderly, Prefix, Buffer, Turns, TurnsBut, Frame
  <2>10. CASE ~env.processor
    <3>1. d = NonFaultyFailure(a, e, env)
      BY <1>2, <2>1, <2>5, <2>10 DEF process_batch, Then
    <3> QED
      BY <2>8, <2>9, <3>1, NonFaultyFailureKeeps
  <2>11. CASE env.processor
    <3>1. d = s
      BY <1>2, <2>1, <2>5, <2>11 DEF process_batch, Then
    <3>2. /\ s \in Chains /\ s.batches = a.batches /\ s.requests = a.requests
          /\ s.start_epoch = a.start_epoch /\ s.processing_target = a.processing_target
          /\ s.to_be_downloaded = a.to_be_downloaded /\ s.optimistic_start = a.optimistic_start
          /\ s.attempted_optimistic_starts = a.attempted_optimistic_starts
          /\ s.current_processing_batch = e /\ e \in s.segments /\ s.result = "keep"
      BY <2>4 DEF Chains
    <3> HIDE DEF s
    <3>3. InFlight(s) /\ Bounds(s)
      BY <2>8, <3>2 DEF Taken, InFlight, Bounds
    <3>4. Current(s)
      BY <2>8, <3>2 DEF Taken, Current
    <3>5. ASSUME Orderly(c), e \in {c.optimistic_start, c.processing_target}
          PROVE  Orderly(s)
      <4>1. e \in {s.optimistic_start, s.processing_target}
        BY <2>4, <3>2, <3>5 DEF Frame
      <4>2. \A f \in Epochs : HasBatch(s, f) <=> HasBatch(a, f)
        BY <3>2 DEF HasBatch
      <4> QED
        BY <2>9, <3>2, <3>5, <4>1, <4>2 DEF Orderly, Prefix, Buffer, Turns, TurnsBut
    <3> QED
      BY <3>1, <3>2, <3>3, <3>4, <3>5 DEF Sound, Kept1, Kept2
  <2> QED
    BY <2>10, <2>11
<1> QED
  BY <1>1, <1>2

(* The target steps over a batch that was processed as an optimistic one.  *)
(* No epoch is left out: there is room in the buffer, so what comes next   *)
(* has been requested, or the end is reached.                              *)
LEMMA StepOverKeeps ==
    ASSUME NEW c, Sound(c), c.current_processing_batch = None,
           NEW e \in Epochs, e = c.processing_target, c.batches[e].state = "AwaitingValidation",
           NEW s, s = StepOver(c, e + 1)
    PROVE  /\ Sound(s)
           /\ Orderly(c) /\ Served(c) /\ c.syncing /\ c.optimistic_start = None => Orderly(s)
<1>0. c \in Chains /\ InFlight(c) /\ Current(c) /\ Bounds(c)
  BY DEF Sound
<1>1. /\ c.to_be_downloaded \in Nat /\ c.start_epoch \in Nat /\ Epochs \subseteq Nat
      /\ e + 1 \in 0..(MaxEpoch + 1) /\ None = -1 /\ Target \in Nat
  BY <1>0, ConstantsAssumption DEF Chains, Epochs, None
<1> DEFINE n == IF c.to_be_downloaded <= e + 1 THEN (e + 1) + 1 ELSE c.to_be_downloaded
<1>2. n \in Nat /\ n >= c.to_be_downloaded /\ n > e + 1
  BY <1>1
<1>3. s = [c EXCEPT !.processing_target = e + 1, !.to_be_downloaded = n]
  BY DEF StepOver
<1> HIDE DEF n
<1>4. /\ s \in Chains /\ s.batches = c.batches /\ s.requests = c.requests
      /\ s.start_epoch = c.start_epoch /\ s.processing_target = e + 1 /\ s.to_be_downloaded = n
      /\ s.optimistic_start = c.optimistic_start /\ s.segments = c.segments
      /\ s.attempted_optimistic_starts = c.attempted_optimistic_starts
      /\ s.current_processing_batch = c.current_processing_batch
  BY <1>0, <1>1, <1>2, <1>3 DEF Chains
<1>5. Sound(s)
  <2>1. InFlight(s)
    BY <1>0, <1>4 DEF InFlight
  <2>2. Current(s)
    BY <1>0, <1>4 DEF Current
  <2>3. Bounds(s)
    BY <1>0, <1>1, <1>2, <1>4 DEF Bounds
  <2> QED
    BY <1>4, <2>1, <2>2, <2>3 DEF Sound
<1>6. ASSUME Orderly(c), Served(c), c.syncing, c.optimistic_start = None
      PROVE  Orderly(s)
  <2>0. \A f \in Epochs : HasBatch(s, f) <=> HasBatch(c, f)
    BY <1>4 DEF HasBatch
  <2>1. Prefix(s)
    <3>1. \A f \in Epochs : f < e + 1 => f < e \/ f = e
      BY <1>1
    <3> QED
      BY <1>4, <1>6, <3>1 DEF Orderly, Prefix
  <2>2. HasBatch(c, e) /\ e < c.to_be_downloaded
    BY <1>0, <1>1, <1>6, BatchFacts DEF Orderly, Buffer
  <2>3. CASE c.to_be_downloaded > e + 1
    <3>1. n = c.to_be_downloaded
      BY <1>1, <2>3 DEF n
    <3>2. Buffer(s)
      BY <1>1, <1>2, <1>4, <1>6, <2>0, <3>1 DEF Orderly, Buffer
    <3>3. Turns(s)
      BY <1>1, <1>4, <1>6 DEF Orderly, Turns, TurnsBut
    <3> QED
      BY <2>1, <3>2, <3>3 DEF Orderly
  <2>4. CASE ~(c.to_be_downloaded > e + 1)
    <3>1. c.to_be_downloaded = e + 1 /\ n = e + 2
      BY <1>1, <2>2, <2>4 DEF n
    <3>2. \A f \in Epochs : HasBatch(c, f) => c.batches[f].state = "AwaitingValidation"
      <4> SUFFICES ASSUME NEW f \in Epochs, HasBatch(c, f)
                   PROVE  c.batches[f].state = "AwaitingValidation"
        OBVIOUS
      <4>1. c.start_epoch <= f
        BY <1>0, <1>1 DEF Bounds, HasBatch
      <4>2. f < c.to_be_downloaded
        BY <1>1, <1>6 DEF Orderly, Buffer
      <4> QED
        BY <1>1, <1>6, <3>1, <4>1, <4>2 DEF Orderly, Prefix
    <3>3. c.to_be_downloaded >= Target
      BY <1>0, <1>6, <3>2, BatchFacts DEF Served
    <3>4. Buffer(s)
      <4>1. \A f \in Epochs : HasBatch(s, f) /\ s.to_be_downloaded <= f => f = s.optimistic_start
        BY <1>1, <1>2, <1>4, <1>6, <2>0 DEF Orderly, Buffer
      <4>2. \A f \in Epochs : s.start_epoch <= f /\ f < s.to_be_downloaded /\ f < Target => HasBatch(s, f)
        BY <1>1, <1>2, <1>4, <1>6, <2>0, <3>1, <3>3 DEF Orderly, Buffer
      <4> QED
        BY <1>1, <1>2, <1>4, <4>1, <4>2 DEF Buffer
    <3>5. Turns(s)
      BY <1>1, <1>4, <1>6 DEF Orderly, Turns, TurnsBut
    <3> QED
      BY <2>1, <3>4, <3>5 DEF Orderly
  <2> QED
    BY <2>3, <2>4
<1> QED
  BY <1>5, <1>6

LEMMA ProcessTargetKeeps ==
    ASSUME NEW c, Sound(c), c.current_processing_batch = None, c.syncing, NEW env
    PROVE  LET d == ProcessTarget(c, env)
           IN  /\ Kept1(d)
               /\ Orderly(c) /\ Served(c) /\ c.optimistic_start = None => Kept2(d)
<1> DEFINE e == c.processing_target
           d == ProcessTarget(c, env)
<1>0. c \in Chains /\ c.result = "keep" /\ Current(c)
  BY DEF Sound, Chains
<1>1. CASE ~HasBatch(c, e)
  BY <1>0, <1>1 DEF ProcessTarget, Kept1, Kept2
<1>2. CASE HasBatch(c, e)
  <2>1. e \in Epochs
    BY <1>2 DEF HasBatch
  <2>2. c.batches[e].state \in {"AwaitingDownload", "Downloading", "AwaitingProcessing", "AwaitingValidation"}
    <3>1. c.batches[e].state \in BatchStates \ {"Failed"}
      BY <1>0, <1>2, <2>1, BatchFacts DEF BatchType
    <3>2. c.batches[e].state # "Processing"
      BY <1>0, <2>1, ConstantsAssumption DEF Current, None, Epochs
    <3> QED
      BY <3>1, <3>2 DEF BatchStates
  <2>3. CASE c.batches[e].state = "AwaitingProcessing"
    <3>1. d = process_batch(c, e, env)
      BY <1>2, <2>3 DEF ProcessTarget
    <3> QED
      BY <2>1, <2>3, <3>1, ProcessBatchKeeps
  <2>4. CASE c.batches[e].state \in {"Downloading", "AwaitingDownload"}
    <3>1. d = c
      BY <1>2, <2>4 DEF ProcessTarget
    <3> QED
      BY <1>0, <3>1 DEF Kept1, Kept2
  <2>5. CASE c.batches[e].state = "AwaitingValidation"
    <3> DEFINE s == StepOver(c, e + 1)
    <3>1. d = request_batches(s, env)
      BY <1>2, <2>5 DEF ProcessTarget
    <3>2. /\ Sound(s)
          /\ Orderly(c) /\ Served(c) /\ c.syncing /\ c.optimistic_start = None => Orderly(s)
      BY <2>1, <2>5, StepOverKeeps
    <3> QED
      BY <3>1, <3>2, RequestKeeps
  <2> QED
    BY <2>2, <2>3, <2>4, <2>5
<1> QED
  BY <1>1, <1>2

LEMMA ProcessCompletedKeeps ==
    ASSUME NEW c, Sound(c), Served(c), NEW env
    PROVE  LET d == process_completed_batches(c, env)
           IN  Kept1(d) /\ (Orderly(c) => Kept2(d))
<1> DEFINE e == c.optimistic_start
           d == process_completed_batches(c, env)
<1>0. c \in Chains /\ c.result = "keep" /\ InFlight(c) /\ Current(c) /\ Bounds(c)
  BY DEF Sound, Chains
<1>1. CASE ~c.syncing \/ c.current_processing_batch # None
  BY <1>0, <1>1 DEF process_completed_batches, Kept1, Kept2
<1>2. CASE c.syncing /\ c.current_processing_batch = None /\ ~HasBatch(c, e)
  <2>1. d = ProcessTarget(c, env)
    BY <1>2 DEF process_completed_batches
  <2>2. e = None
    BY <1>2 DEF Served
  <2> QED
    BY <1>2, <2>1, <2>2, ProcessTargetKeeps
<1>3. CASE c.syncing /\ c.current_processing_batch = None /\ HasBatch(c, e)
  <2>1. e \in Epochs /\ e # None
    BY <1>3, ConstantsAssumption DEF HasBatch, None, Epochs
  <2>2. c.batches[e].state \in {"AwaitingDownload", "Downloading", "AwaitingProcessing", "AwaitingValidation"}
    <3>1. c.batches[e].state \in BatchStates \ {"Failed"}
      BY <1>0, <1>3, <2>1, BatchFacts DEF BatchType
    <3>2. c.batches[e].state # "Processing"
      BY <1>0, <1>3, <2>1 DEF Current
    <3> QED
      BY <3>1, <3>2 DEF BatchStates
  <2>3. CASE c.batches[e].state = "AwaitingProcessing"
    <3>1. d = process_batch(c, e, env)
      BY <1>3, <2>3 DEF process_completed_batches
    <3> QED
      BY <2>1, <2>3, <3>1, ProcessBatchKeeps
  <2>4. CASE c.batches[e].state \in {"Downloading", "AwaitingDownload"}
    <3>1. d = c
      BY <1>3, <2>4 DEF process_completed_batches
    <3> QED
      BY <1>0, <3>1 DEF Kept1, Kept2
  <2>5. CASE c.batches[e].state = "AwaitingValidation"
    <3> DEFINE s == [c EXCEPT !.optimistic_start = None]
    <3>1. d = ProcessTarget(s, env)
      BY <1>3, <2>5 DEF process_completed_batches
    <3>2. /\ s \in Chains /\ s.batches = c.batches /\ s.requests = c.requests
          /\ s.start_epoch = c.start_epoch /\ s.processing_target = c.processing_target
          /\ s.to_be_downloaded = c.to_be_downloaded /\ s.optimistic_start = None
          /\ s.segments = c.segments /\ s.current_processing_batch = None /\ s.syncing
      BY <1>0, <1>3 DEF Chains
    <3> HIDE DEF s
    <3>3. Sound(s)
      BY <1>0, <1>3, <3>2 DEF Sound, InFlight, Current, Bounds
    <3>4. Kept1(d)
      BY <3>1, <3>2, <3>3, ProcessTargetKeeps
    <3>5. ~Orderly(c)
      BY <2>1, <2>5 DEF Orderly, Turns, TurnsBut
    <3> QED
      BY <3>4, <3>5
  <2> QED
    BY <2>2, <2>3, <2>4, <2>5
<1> QED
  BY <1>1, <1>2, <1>3

(* Requests and processing together, as the handlers end. *)
LEMMA RequestAndProcessKeeps ==
    ASSUME NEW c, Sound(c), NEW env
    PROVE  LET d == RequestAndProcess(c, env)
           IN  Kept1(d) /\ (Orderly(c) => Kept2(d))
<1> DEFINE r == request_batches(c, env)
<1>1. /\ Kept1(r) /\ (Orderly(c) => Kept2(r))
      /\ r.result = "keep" => Frame(c, r) /\ Served(r)
  BY RequestKeeps
<1>2. RequestAndProcess(c, env) = IF r.result = "keep" THEN process_completed_batches(r, env) ELSE r
  BY DEF RequestAndProcess, Then
<1> HIDE DEF r
<1>3. CASE r.result # "keep"
  BY <1>1, <1>2, <1>3
<1>4. CASE r.result = "keep"
  <2>1. Sound(r) /\ Served(r) /\ (Orderly(c) => Orderly(r))
    BY <1>1, <1>4 DEF Kept1, Kept2, Removals
  <2> QED
    BY <1>2, <1>4, <2>1, ProcessCompletedKeeps
<1> QED
  BY <1>3, <1>4

=============================================================================
