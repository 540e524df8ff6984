------------------------ MODULE SyncingChainVerdicts ------------------------
(***************************************************************************)
(* What the result of a processed batch does to a syncing chain: advance,  *)
(* reject_optimistic_batch and handle_invalid_batch keep its invariants.   *)
(***************************************************************************)
EXTENDS SyncingChainInvariant

-----------------------------------------------------------------------------
(***************************************************************************)
(* advance_chain.  Each bound moves by a rule of its own; they agree.      *)
(***************************************************************************)
LEMMA AdvanceKeeps ==
    ASSUME NEW c, Sound(c), NEW epoch \in Epochs, NEW a, a = advance_chain(c, epoch)
    PROVE  /\ Sound(a)
           /\ \A X : OrderlyBut(c, X) => OrderlyBut(a, X)
           /\ \A e \in Epochs : e >= epoch => a.batches[e] = c.batches[e]
           /\ \A e \in Epochs : e < epoch => ~HasBatch(a, e)
           /\ a.optimistic_start \in {None, c.optimistic_start} \ {epoch}
           /\ a.processing_target = IF c.processing_target >= epoch THEN c.processing_target ELSE epoch
           /\ a.current_processing_batch \in {None, c.current_processing_batch}
           /\ a.attempted_optimistic_starts = c.attempted_optimistic_starts
           /\ a.syncing = c.syncing
<1>0. c \in Chains /\ InFlight(c) /\ Current(c) /\ Bounds(c)
  BY DEF Sound
<1>1. /\ c.to_be_downloaded \in Nat /\ c.start_epoch \in Nat /\ Epochs \subseteq Nat
      /\ c.processing_target \in 0..(MaxEpoch + 1) /\ epoch \in 0..(MaxEpoch + 1) /\ MaxEpoch \in Nat
      /\ c.optimistic_start \in Epochs \cup {None} /\ c.current_processing_batch \in Epochs \cup {None}
      /\ c.optimistic_start \in Int /\ c.current_processing_batch \in Int
      /\ None = -1 /\ epoch \in Nat /\ c.processing_target \in Nat
  BY <1>0, ConstantsAssumption DEF Chains, Epochs, None
<1>2. CASE epoch <= c.start_epoch
  <2>1. a = c
    BY <1>2 DEF advance_chain
  <2>2. \A e \in Epochs : e < epoch => ~HasBatch(c, e)
    <3>1. \A e \in Epochs : e < epoch => e < c.start_epoch
      BY <1>1, <1>2
    <3> QED
      BY <1>0, <3>1 DEF Bounds, HasBatch
  <2>3. c.optimistic_start # epoch
    BY <1>0, <1>1, <1>2 DEF Bounds
  <2>4. c.processing_target >= epoch
    BY <1>0, <1>1, <1>2 DEF Bounds
  <2> QED
    BY <2>1, <2>2, <2>3, <2>4
<1>3. CASE ~(epoch <= c.start_epoch)
  <2> DEFINE drops == \E e \in {f \in Epochs : f < epoch} : /\ c.batches[e].state = "Processing"
                                                           /\ e <= c.current_processing_batch
             next == IF c.to_be_downloaded >= epoch THEN c.to_be_downloaded ELSE epoch
             bs == [e \in Epochs |-> IF e \in {f \in Epochs : f < epoch} THEN NoBatch ELSE c.batches[e]]
             cpb == IF drops THEN None ELSE c.current_processing_batch
             pt == IF c.processing_target >= epoch THEN c.processing_target ELSE epoch
             tbd == IF HasBatch(c, next) THEN next + 1 ELSE next
             opt == IF c.optimistic_start <= epoch THEN None ELSE c.optimistic_start
  <2>1. a = [c EXCEPT !.batches = bs, !.current_processing_batch = cpb, !.processing_target = pt,
                      !.start_epoch = epoch, !.to_be_downloaded = tbd, !.optimistic_start = opt]
    BY <1>3 DEF advance_chain
  <2>2. /\ bs \in [Epochs -> BatchType \cup {NoBatch}]
        /\ \A e \in Epochs : bs[e] = IF e < epoch THEN NoBatch ELSE c.batches[e]
    BY <1>0 DEF Chains
  <2>3. /\ cpb \in Epochs \cup {None}
        /\ cpb = IF c.current_processing_batch < epoch THEN None ELSE c.current_processing_batch
    BY <1>0, <1>1 DEF Current
  <2>4. pt \in 0..(MaxEpoch + 1) /\ c.processing_target <= pt /\ epoch <= pt
    BY <1>1
  <2>5. /\ tbd \in Nat /\ c.to_be_downloaded <= tbd /\ epoch <= tbd
        /\ HasBatch(c, epoch) => epoch < tbd
        /\ \A e \in Epochs : e < tbd => e < epoch \/ e < c.to_be_downloaded \/ HasBatch(c, e)
    BY <1>1
  <2>6. opt \in Epochs \cup {None} /\ opt \in {None, c.optimistic_start} /\ (opt # None => epoch < opt)
    BY <1>1
  <2> HIDE DEF bs, cpb, pt, tbd, opt, drops, next
  <2>7. /\ a \in Chains /\ a.batches = bs /\ a.current_processing_batch = cpb
        /\ a.processing_target = pt /\ a.start_epoch = epoch /\ a.to_be_downloaded = tbd
        /\ a.optimistic_start = opt /\ a.requests = c.requests /\ a.segments = c.segments
        /\ a.attempted_optimistic_starts = c.attempted_optimistic_starts /\ a.syncing = c.syncing
    <3>1. /\ bs \in [Epochs -> BatchType \cup {NoBatch}] /\ cpb \in Epochs \cup {None}
          /\ pt \in 0..(MaxEpoch + 1) /\ tbd \in Nat /\ opt \in Epochs \cup {None}
      BY <2>2, <2>3, <2>4, <2>5, <2>6
    <3> QED
      BY <1>0, <2>1, <3>1 DEF Chains
  <2>8. InFlight(a)
    <3>1. \A e \in Epochs : e < c.start_epoch => e < epoch
      BY <1>1, <1>3
    <3> QED
      BY <1>0, <2>2, <2>7, <3>1, NoBatchFacts DEF InFlight
  <2>9. Current(a)
    BY <1>0, <1>1, <2>2, <2>3, <2>7, NoBatchFacts DEF Current
  <2>10. Bounds(a)
    BY <1>1, <2>2, <2>4, <2>5, <2>6, <2>7 DEF Bounds
  <2>11. \A e \in Epochs : HasBatch(a, e) <=> HasBatch(c, e) /\ ~(e < epoch)
    BY <2>2, <2>7 DEF HasBatch
  <2>12. ASSUME NEW X, OrderlyBut(c, X)  PROVE OrderlyBut(a, X)
    <3>0. Prefix(c) /\ Buffer(c) /\ TurnsBut(c, X)
      BY <2>12 DEF OrderlyBut
    <3>1. Prefix(a)
      BY <1>1, <1>3, <2>2, <2>7, <3>0 DEF Prefix, pt
    <3>2. Buffer(a)
      <4>1. a.processing_target <= a.to_be_downloaded
        BY <1>1, <2>5, <2>7, <3>0 DEF Buffer, pt
      <4>2. ASSUME NEW e \in Epochs, HasBatch(a, e), a.to_be_downloaded <= e
            PROVE  e = a.optimistic_start
        <5>1. HasBatch(c, e) /\ c.to_be_downloaded <= e /\ epoch <= e /\ e # epoch
          BY <1>1, <2>5, <2>7, <2>11, <4>2
        <5>2. e = c.optimistic_start
          BY <3>0, <5>1 DEF Buffer
        <5> QED
          BY <1>1, <2>7, <5>1, <5>2 DEF opt
      <4>3. ASSUME NEW e \in Epochs, a.start_epoch <= e, e < a.to_be_downloaded, e < Target
            PROVE  HasBatch(a, e)
        <5>1. ~(e < epoch) /\ c.start_epoch <= e
          BY <1>1, <1>3, <2>7, <4>3
        <5>3. e < c.to_be_downloaded \/ HasBatch(c, e)
          BY <2>5, <2>7, <4>3, <5>1
        <5>2. HasBatch(c, e)
          BY <3>0, <4>3, <5>1, <5>3 DEF Buffer
        <5> QED
          BY <2>11, <5>1, <5>2
      <4> QED
        BY <4>1, <4>2, <4>3 DEF Buffer
    <3>3. TurnsBut(a, X)
      <4>1. a.optimistic_start # None => a.processing_target <= a.optimistic_start
        BY <1>1, <2>6, <2>7, <3>0 DEF TurnsBut, pt
      <4>2. a.optimistic_start \notin a.attempted_optimistic_starts
        BY <1>0, <1>1, <2>6, <2>7, <3>0 DEF TurnsBut, Chains
      <4>3. a.current_processing_batch \in {None, a.optimistic_start, a.processing_target}
        <5>1. c.current_processing_batch \in {None, c.optimistic_start, c.processing_target}
          BY <3>0 DEF TurnsBut
        <5>2. c.optimistic_start # None => c.processing_target <= c.optimistic_start
          BY <3>0 DEF TurnsBut
        <5>3. cpb = None \/ (cpb = c.current_processing_batch /\ epoch <= cpb)
          BY <1>1, <2>3
        <5> QED
          BY <1>1, <2>7, <5>1, <5>2, <5>3 DEF pt, opt
      <4>4. ASSUME NEW e \in Epochs, a.processing_target <= e, a.batches[e].state = "AwaitingValidation"
            PROVE  e \in a.attempted_optimistic_starts \cup X
        <5>1. c.processing_target <= e
          BY <1>1, <2>4, <2>7, <4>4
        <5>2. c.batches[e].state = "AwaitingValidation"
          BY <2>2, <2>7, <4>4, NoBatchFacts
        <5> QED
          BY <2>7, <3>0, <5>1, <5>2 DEF TurnsBut
      <4> QED
        BY <4>1, <4>2, <4>3, <4>4 DEF TurnsBut
    <3> QED
      BY <3>1, <3>2, <3>3 DEF OrderlyBut
  <2>13. /\ \A e \in Epochs : e >= epoch => a.batches[e] = c.batches[e]
         /\ \A e \in Epochs : e < epoch => ~HasBatch(a, e)
    BY <1>1, <2>2, <2>7, <2>11
  <2>14. a.optimistic_start \in {None, c.optimistic_start} \ {epoch}
    BY <1>1, <2>6, <2>7
  <2> QED
    BY <2>3, <2>7, <2>8, <2>9, <2>10, <2>12, <2>13, <2>14 DEF Sound, pt, cpb
<1> QED
  BY <1>2, <1>3


LEMMA OrderlyIsBut == \A c : Orderly(c) <=> OrderlyBut(c, {})
  BY DEF Orderly, OrderlyBut, Turns

-----------------------------------------------------------------------------
(***************************************************************************)
(* reject_optimistic_batch, before it sends the batch again: the batch is  *)
(* dropped where it lies outside the buffer.                               *)
(***************************************************************************)
Rejected(c, e) ==
    [c EXCEPT !.optimistic_start = None,
              !.attempted_optimistic_starts = @ \cup {e},
              !.batches = [f \in Epochs |-> IF f = e /\ e >= c.to_be_downloaded THEN NoBatch
                                            ELSE c.batches[f]]]

LEMMA RejectedIs ==
    ASSUME NEW c \in Chains, NEW e \in Epochs, e = c.optimistic_start, NEW redownload, NEW env
    PROVE  reject_optimistic_batch(c, redownload, env) =
               IF ~(e >= c.to_be_downloaded) /\ redownload THEN send_batch(Rejected(c, e), e, env)
               ELSE Rejected(c, e)
<1>1. e # None
  BY ConstantsAssumption DEF Epochs, None
<1>2. c.batches \in [Epochs -> BatchType \cup {NoBatch}]
  BY DEF Chains
<1>3. e >= c.to_be_downloaded =>
         [f \in Epochs |-> IF f = e /\ e >= c.to_be_downloaded THEN NoBatch ELSE c.batches[f]]
         = [c.batches EXCEPT ![e] = NoBatch]
  BY <1>2
<1>4. ~(e >= c.to_be_downloaded) =>
         [f \in Epochs |-> IF f = e /\ e >= c.to_be_downloaded THEN NoBatch ELSE c.batches[f]]
         = c.batches
  BY <1>2
<1>5. ~(e >= c.to_be_downloaded) =>
          [c EXCEPT !.optimistic_start = None, !.attempted_optimistic_starts = @ \cup {e}] = Rejected(c, e)
  BY <1>4 DEF Rejected, Chains
<1>6. e >= c.to_be_downloaded =>
          [[c EXCEPT !.optimistic_start = None, !.attempted_optimistic_starts = @ \cup {e}]
              EXCEPT !.batches[e] = NoBatch] = Rejected(c, e)
  BY <1>3 DEF Rejected, Chains
<1> QED
  BY <1>1, <1>5, <1>6 DEF reject_optimistic_batch

LEMMA RejectedKeeps ==
    ASSUME NEW c, Sound(c), c.current_processing_batch = None,
           NEW e \in Epochs, e = c.optimistic_start,
           c.batches[e].state \in {"AwaitingDownload", "AwaitingValidation"},
           NEW r, r = Rejected(c, e)
    PROVE  /\ Sound(r) /\ r.current_processing_batch = None
           /\ OrderlyBut(c, {e}) => Orderly(r)
           /\ r.optimistic_start = None /\ r.processing_target = c.processing_target
           /\ e < c.to_be_downloaded => r.batches[e] = c.batches[e]
<1>0. c \in Chains /\ InFlight(c) /\ Current(c) /\ Bounds(c)
  BY DEF Sound
<1> DEFINE bs == [f \in Epochs |-> IF f = e /\ e >= c.to_be_downloaded THEN NoBatch ELSE c.batches[f]]
<1>1. /\ bs \in [Epochs -> BatchType \cup {NoBatch}]
      /\ \A f \in Epochs : f # e => bs[f] = c.batches[f]
      /\ bs[e] = IF e >= c.to_be_downloaded THEN NoBatch ELSE c.batches[e]
  BY <1>0 DEF Chains
<1>2. r = [c EXCEPT !.optimistic_start = None, !.attempted_optimistic_starts = @ \cup {e}, !.batches = bs]
  BY DEF Rejected
<1>t. c.attempted_optimistic_starts \cup {e} \in SUBSET Epochs
  BY <1>0 DEF Chains
<1> HIDE DEF bs
<1>3. /\ r \in Chains /\ r.batches = bs /\ r.optimistic_start = None
      /\ r.attempted_optimistic_starts = c.attempted_optimistic_starts \cup {e}
      /\ r.start_epoch = c.start_epoch /\ r.processing_target = c.processing_target
      /\ r.to_be_downloaded = c.to_be_downloaded /\ r.segments = c.segments /\ r.requests = c.requests
      /\ r.current_processing_batch = None
  BY <1>0, <1>1, <1>2, <1>t DEF Chains
<1>4. /\ c.to_be_downloaded \in Nat /\ c.processing_target \in Nat /\ c.start_epoch \in Nat
      /\ Epochs \subseteq Nat /\ None \notin Epochs /\ e # None
  BY <1>0, ConstantsAssumption DEF Chains, Epochs, None
<1>5. InFlight(r)
  BY <1>0, <1>1, <1>3, NoBatchFacts DEF InFlight
<1>6. Current(r)
  <2>1. \A f \in Epochs : c.batches[f].state # "Processing"
    BY <1>0, <1>4 DEF Current
  <2>2. \A f \in Epochs : r.batches[f].state # "Processing"
    BY <1>1, <1>3, <2>1, NoBatchFacts
  <2> QED
    BY <1>3, <1>4, <2>2 DEF Current
<1>7. Bounds(r)
  <2>1. \A f \in Epochs : c.batches[f] = NoBatch => bs[f] = NoBatch
    BY <1>1
  <2> QED
    BY <1>0, <1>3, <2>1 DEF Bounds
<1>8. ASSUME OrderlyBut(c, {e})  PROVE Orderly(r)
  <2>0. Prefix(c) /\ Buffer(c) /\ TurnsBut(c, {e})
    BY <1>8 DEF OrderlyBut
  <2>1. c.processing_target <= e
    BY <1>4, <2>0 DEF TurnsBut
  <2>2. Prefix(r)
    BY <1>1, <1>3, <1>4, <2>0, <2>1 DEF Prefix
  <2>3. \A f \in Epochs : HasBatch(r, f) <=> HasBatch(c, f) /\ ~(f = e /\ e >= c.to_be_downloaded)
    BY <1>1, <1>3 DEF HasBatch
  <2>4. Buffer(r)
    BY <1>3, <1>4, <2>0, <2>3 DEF Buffer
  <2>5. \A f \in Epochs : r.batches[f].state = "AwaitingValidation" => c.batches[f].state = "AwaitingValidation"
    BY <1>1, <1>3, NoBatchFacts
  <2>6. None \notin r.attempted_optimistic_starts
    BY <1>3, <1>4 DEF Chains
  <2>7. Turns(r)
    BY <1>3, <2>0, <2>5, <2>6 DEF Turns, TurnsBut
  <2> QED
    BY <2>2, <2>4, <2>7 DEF Orderly
<1>9. e < c.to_be_downloaded => r.batches[e] = c.batches[e]
  BY <1>1, <1>3, <1>4
<1> QED
  BY <1>3, <1>5, <1>6, <1>7, <1>8, <1>9 DEF Sound


(* The start that was tried is remembered. *)
LEMMA TriedKeeps ==
    ASSUME NEW c, Sound(c), NEW e \in Epochs, c.optimistic_start # e,
           NEW t, t = [c EXCEPT !.attempted_optimistic_starts = @ \cup {e}]
    PROVE  /\ Sound(t) /\ t.batches = c.batches /\ t.optimistic_start = c.optimistic_start
           /\ t.processing_target = c.processing_target
           /\ t.current_processing_batch = c.current_processing_batch
           /\ OrderlyBut(c, {e}) => Orderly(t)
<1>0. c \in Chains /\ InFlight(c) /\ Current(c) /\ Bounds(c)
  BY DEF Sound
<1>1. c.attempted_optimistic_starts \cup {e} \in SUBSET Epochs
  BY <1>0 DEF Chains
<1>2. /\ t \in Chains
      /\ t.batches = c.batches /\ t.requests = c.requests /\ t.to_be_downloaded = c.to_be_downloaded
      /\ t.start_epoch = c.start_epoch /\ t.processing_target = c.processing_target
      /\ t.optimistic_start = c.optimistic_start /\ t.segments = c.segments
      /\ t.current_processing_batch = c.current_processing_batch
      /\ t.attempted_optimistic_starts = c.attempted_optimistic_starts \cup {e}
  BY <1>0, <1>1 DEF Chains
<1>3. InFlight(t) /\ Current(t) /\ Bounds(t)
  BY <1>0, <1>2 DEF InFlight, Current, Bounds
<1>4. ASSUME OrderlyBut(c, {e})  PROVE Orderly(t)
  BY <1>2, <1>4 DEF OrderlyBut, Orderly, Prefix, Buffer, Turns, TurnsBut, HasBatch
<1> QED
  BY <1>2, <1>3, <1>4 DEF Sound

(* The target moves past a batch that has been processed. *)
LEMMA MoveTargetKeeps ==
    ASSUME NEW c, Sound(c), c.current_processing_batch = None,
           NEW e \in Epochs, c.processing_target = e,
           NEW m, m = [c EXCEPT !.processing_target = e + 1]
    PROVE  /\ Sound(m)
           /\ OrderlyBut(c, {e}) /\ c.batches[e].state = "AwaitingValidation" /\ c.optimistic_start # e
                  => Orderly(m)
<1>0. c \in Chains /\ InFlight(c) /\ Current(c) /\ Bounds(c)
  BY DEF Sound
<1>1. /\ c.to_be_downloaded \in Nat /\ c.start_epoch \in Nat /\ Epochs \subseteq Nat
      /\ e + 1 \in 0..(MaxEpoch + 1) /\ c.optimistic_start \in Int /\ e \in Nat
      /\ None \notin Epochs
  BY <1>0, ConstantsAssumption DEF Chains, Epochs, None
<1>2. /\ m \in Chains /\ m.processing_target = e + 1
      /\ m.batches = c.batches /\ m.requests = c.requests /\ m.to_be_downloaded = c.to_be_downloaded
      /\ m.start_epoch = c.start_epoch /\ m.optimistic_start = c.optimistic_start
      /\ m.segments = c.segments /\ m.current_processing_batch = None
      /\ m.attempted_optimistic_starts = c.attempted_optimistic_starts
  BY <1>0, <1>1 DEF Chains
<1>3. InFlight(m) /\ Current(m)
  BY <1>0, <1>2 DEF InFlight, Current
<1>4. Bounds(m)
  BY <1>0, <1>1, <1>2 DEF Bounds
<1>5. ASSUME OrderlyBut(c, {e}), c.batches[e].state = "AwaitingValidation", c.optimistic_start # e
      PROVE  Orderly(m)
  <2>0. Prefix(c) /\ Buffer(c) /\ TurnsBut(c, {e})
    BY <1>5 DEF OrderlyBut
  <2>1. \A f \in Epochs : f < e + 1 <=> f < e \/ f = e
    BY <1>1
  <2>2. Prefix(m)
    BY <1>2, <1>5, <2>0, <2>1 DEF Prefix
  <2>3. HasBatch(c, e)
    BY <1>0, <1>5, BatchFacts
  <2>4. e < c.to_be_downloaded
    BY <1>1, <1>5, <2>0, <2>3 DEF Buffer
  <2>5. Buffer(m)
    <3>1. m.processing_target <= m.to_be_downloaded
      BY <1>1, <1>2, <2>4
    <3> QED
      BY <1>2, <2>0, <3>1 DEF Buffer, HasBatch
  <2>6. Turns(m)
    <3>1. m.optimistic_start # None => m.processing_target <= m.optimistic_start
      BY <1>1, <1>2, <1>5, <2>0 DEF TurnsBut
    <3>2. \A f \in Epochs : e + 1 <= f => e <= f /\ f # e
      BY <1>1
    <3> QED
      BY <1>2, <2>0, <3>1, <3>2 DEF Turns, TurnsBut
  <2> QED
    BY <2>2, <2>5, <2>6 DEF Orderly
<1> QED
  BY <1>2, <1>3, <1>4, <1>5 DEF Sound


(* A processed batch is settled in the chain: the chain advances to it, or *)
(* an empty optimistic start is rejected.                                  *)
ValidatedFull(c, e) == [advance_chain(c, e) EXCEPT !.attempted_optimistic_starts = @ \cup {e}]
ValidatedEmpty(c, e) == IF c.optimistic_start = e THEN Rejected(c, e) ELSE c

InOrder(c, e, v) ==
    /\ v.optimistic_start # e
    /\ OrderlyBut(v, {e}) /\ (v.processing_target # e => Orderly(v))
    /\ \/ e = c.optimistic_start /\ e = c.processing_target /\ e >= c.to_be_downloaded
       \/ v.processing_target = e => v.batches[e].state = "AwaitingValidation"

LEMMA ValidatedKeeps ==
    ASSUME NEW c, Sound(c), c.current_processing_batch = None,
           NEW e \in Epochs, c.batches[e].state = "AwaitingValidation",
           NEW v, v = ValidatedFull(c, e) \/ v = ValidatedEmpty(c, e)
    PROVE  /\ Sound(v) /\ v.current_processing_batch = None
           /\ OrderlyBut(c, {e}) /\ e \in {c.optimistic_start, c.processing_target} => InOrder(c, e, v)
<1>1. \A x : Orderly(x) => OrderlyBut(x, {e})
  BY DEF Orderly, OrderlyBut, Turns, TurnsBut
<1>2. c.to_be_downloaded \in Nat /\ e \in Nat /\ None \notin Epochs
  BY ConstantsAssumption DEF Sound, Chains, Epochs, None
<1>3. CASE v = ValidatedFull(c, e)
  <2> DEFINE a == advance_chain(c, e)
  <2>1. v = [a EXCEPT !.attempted_optimistic_starts = @ \cup {e}]
    BY <1>3 DEF ValidatedFull
  <2>2. /\ Sound(a) /\ (OrderlyBut(c, {e}) => OrderlyBut(a, {e}))
        /\ \A f \in Epochs : f >= e => a.batches[f] = c.batches[f]
        /\ a.optimistic_start \in {None, c.optimistic_start} \ {e}
        /\ a.current_processing_batch \in {None, c.current_processing_batch}
    BY AdvanceKeeps
  <2> HIDE DEF a
  <2>3. /\ Sound(v) /\ v.batches = a.batches /\ v.optimistic_start = a.optimistic_start
        /\ v.processing_target = a.processing_target
        /\ v.current_processing_batch = a.current_processing_batch
        /\ OrderlyBut(a, {e}) => Orderly(v)
    BY <2>1, <2>2, TriedKeeps
  <2>4. v.batches[e] = c.batches[e]
    BY <1>2, <2>2, <2>3
  <2> QED
    BY <1>1, <2>2, <2>3, <2>4 DEF InOrder
<1>4. CASE v = ValidatedEmpty(c, e) /\ c.optimistic_start = e
  <2>1. v = Rejected(c, e)
    BY <1>4 DEF ValidatedEmpty
  <2>2. /\ Sound(v) /\ v.current_processing_batch = None
        /\ OrderlyBut(c, {e}) => Orderly(v)
        /\ v.optimistic_start = None /\ v.processing_target = c.processing_target
        /\ e < c.to_be_downloaded => v.batches[e] = c.batches[e]
    BY <1>4, <2>1, RejectedKeeps
  <2> QED
    BY <1>1, <1>2, <1>4, <2>2 DEF InOrder
<1>5. CASE v = ValidatedEmpty(c, e) /\ c.optimistic_start # e
  <2>1. v = c
    BY <1>5 DEF ValidatedEmpty
  <2> QED
    BY <1>5, <2>1 DEF InOrder
<1> QED
  BY <1>3, <1>4, <1>5 DEF ValidatedEmpty

(* A batch was processed with success. *)
LEMMA SucceededKeeps ==
    ASSUME NEW c, NEW e \in Epochs, Taken(c, e), NEW blocks \in BOOLEAN, NEW env
    PROVE  LET d == Succeeded(c, e, blocks, env)
           IN  /\ Kept1(d)
               /\ /\ Orderly(c) /\ e \in {c.optimistic_start, c.processing_target}
                  /\ ~(e = c.optimistic_start /\ e = c.processing_target /\ e >= c.to_be_downloaded)
                  => Kept2(d)
<1> DEFINE b == [c.batches[e] EXCEPT !.state = "AwaitingValidation", !.blocks = FALSE]
           a == SetBatch(c, e, b)
           v == IF blocks THEN ValidatedFull(a, e) ELSE ValidatedEmpty(a, e)
           m == IF v.processing_target = e THEN [v EXCEPT !.processing_target = e + 1] ELSE v
           d == Succeeded(c, e, blocks, env)
           Safe == /\ Orderly(c) /\ e \in {c.optimistic_start, c.processing_target}
                   /\ ~(e = c.optimistic_start /\ e = c.processing_target /\ e >= c.to_be_downloaded)
<1>0. c \in Chains /\ c.batches[e].state = "Processing" /\ c.batches[e] \in BatchType
      /\ c.current_processing_batch = None
  BY BatchFacts, NoBatchFacts DEF Taken
<1>1. b \in BatchType /\ b.state = "AwaitingValidation" /\ b.id = None
  BY <1>0 DEF BatchType, BatchStates, Taken, InFlight
<1>2. processing_completed(c, e, "Success") = a
  BY <1>0 DEF processing_completed, Transition, SetBatch
<1> HIDE DEF b
<1>3. /\ Sound(a) /\ (Orderly(c) => OrderlyBut(a, {e})) /\ Frame(c, a)
      /\ a.to_be_downloaded = c.to_be_downloaded /\ a.batches = [c.batches EXCEPT ![e] = b]
  BY <1>1, BatchSettles
<1> HIDE DEF a
<1>4. a \in Chains /\ a.result = "keep" /\ a.batches[e].state = "AwaitingValidation"
      /\ a.current_processing_batch = None
  BY <1>0, <1>1, <1>3 DEF Sound, Chains, Frame
<1>5. /\ Sound(v) /\ v.current_processing_batch = None
      /\ Safe => /\ v.optimistic_start # e
                 /\ OrderlyBut(v, {e}) /\ (v.processing_target # e => Orderly(v))
                 /\ v.processing_target = e => v.batches[e].state = "AwaitingValidation"
  <2>1. /\ Sound(v) /\ v.current_processing_batch = None
        /\ OrderlyBut(a, {e}) /\ e \in {a.optimistic_start, a.processing_target} => InOrder(a, e, v)
    <3>1. v = ValidatedFull(a, e) \/ v = ValidatedEmpty(a, e)
      OBVIOUS
    <3> HIDE DEF v
    <3> QED
      BY <1>3, <1>4, <3>1, ValidatedKeeps
  <2> HIDE DEF v
  <2> QED
    BY <1>3, <2>1 DEF Frame, InOrder
<1>6. d = IF m.processing_target >= Target THEN RemoveChain(m, "ChainCompleted")
          ELSE RequestAndProcess(m, env)
  <2>1. ~blocks /\ a.optimistic_start = e => reject_optimistic_batch(a, FALSE, env) = Rejected(a, e)
    BY <1>4, RejectedIs
  <2> QED
    BY <1>2, <1>4, <2>1 DEF Succeeded, Then, ValidatedFull, ValidatedEmpty
<1> HIDE DEF v, d, Safe
<1>7. Sound(m) /\ (Safe => Orderly(m))
  <2>1. CASE v.processing_target = e
    BY <1>5, <2>1, MoveTargetKeeps
  <2>2. CASE v.processing_target # e
    BY <1>5, <2>2
  <2> QED
    BY <2>1, <2>2
<1> HIDE DEF m
<1>8. Kept1(d) /\ (Safe => Kept2(d))
  <2>1. CASE m.processing_target >= Target
    BY <1>6, <1>7, <2>1, RemovalFacts DEF Kept1, Kept2, Removals, WrongStates, Sound
  <2>2. CASE ~(m.processing_target >= Target)
    BY <1>6, <1>7, <2>2, RequestAndProcessKeeps
  <2> QED
    BY <2>1, <2>2
<1> QED
  BY <1>8 DEF Safe, d


-----------------------------------------------------------------------------
(* A batch that failed its processing or its validation is tried again, or *)
(* is out of attempts.                                                     *)
LEMMA ReattemptFacts ==
    ASSUME NEW b \in BatchType, b.id = None
    PROVE  /\ Reattempt(b).state \in {"Failed", "AwaitingDownload"}
           /\ Reattempt(b).state # "Failed" => /\ Reattempt(b) \in BatchType
                                               /\ Reattempt(b).state = "AwaitingDownload"
                                               /\ Reattempt(b).id = None
<1>1. b.attempts \in 0..(MAX_BATCH_PROCESSING_ATTEMPTS - 1)
  BY DEF BatchType
<1>2. Reattempt(b).state = NextTry(b.attempts + 1, MAX_BATCH_PROCESSING_ATTEMPTS)
  BY DEF Reattempt, BatchType
<1>3. CASE b.attempts + 1 >= MAX_BATCH_PROCESSING_ATTEMPTS
  BY <1>2, <1>3 DEF NextTry
<1>4. CASE ~(b.attempts + 1 >= MAX_BATCH_PROCESSING_ATTEMPTS)
  <2>1. b.attempts + 1 \in 0..(MAX_BATCH_PROCESSING_ATTEMPTS - 1)
    BY <1>1, <1>4, ConstantsAssumption
  <2>2. NextTry(b.attempts + 1, MAX_BATCH_PROCESSING_ATTEMPTS) = "AwaitingDownload"
    BY <1>4 DEF NextTry
  <2> QED
    BY <1>2, <2>1, <2>2 DEF Reattempt, BatchType, BatchStates
<1> QED
  BY <1>3, <1>4

(* The batches before e go back to their download, and the target to the   *)
(* start of the chain.                                                     *)
Restarted(c, e) ==
    [c EXCEPT !.processing_target = c.start_epoch,
              !.batches = [d \in Epochs |-> IF d < e /\ HasBatch(c, d) THEN Reattempt(c.batches[d])
                                            ELSE c.batches[d]]]

LEMMA RestartedKeeps ==
    ASSUME NEW c, Sound(c), c.current_processing_batch = None, NEW e \in Epochs,
           \A d \in Epochs : d < e /\ HasBatch(c, d) => /\ c.batches[d].state = "AwaitingValidation"
                                                        /\ Reattempt(c.batches[d]).state # "Failed",
           NEW r, r = Restarted(c, e)
    PROVE  /\ Sound(r)
           /\ Orderly(c) /\ c.processing_target = e => Orderly(r)
<1>0. c \in Chains /\ InFlight(c) /\ Current(c) /\ Bounds(c)
  BY DEF Sound
<1>1. /\ c.start_epoch \in Nat /\ c.start_epoch \in 0..(MaxEpoch + 1) /\ Epochs \subseteq Nat
      /\ c.to_be_downloaded \in Nat /\ None \notin Epochs /\ e \in Nat
      /\ c.optimistic_start \in Int
  BY <1>0, ConstantsAssumption DEF Chains, Epochs, None
<1> DEFINE bs == [d \in Epochs |-> IF d < e /\ HasBatch(c, d) THEN Reattempt(c.batches[d])
                                   ELSE c.batches[d]]
<1>2. \A d \in Epochs : d < e /\ HasBatch(c, d) => /\ Reattempt(c.batches[d]) \in BatchType
                                                   /\ Reattempt(c.batches[d]).state = "AwaitingDownload"
                                                   /\ Reattempt(c.batches[d]).id = None
  <2>1. \A d \in Epochs : d < e /\ HasBatch(c, d) => c.batches[d] \in BatchType /\ c.batches[d].id = None
    BY <1>0, BatchFacts DEF InFlight
  <2> QED
    BY <2>1, ReattemptFacts
<1>3. /\ bs \in [Epochs -> BatchType \cup {NoBatch}]
      /\ \A d \in Epochs :
            /\ d < e /\ HasBatch(c, d) => /\ bs[d] \in BatchType
                                          /\ bs[d].state = "AwaitingDownload" /\ bs[d].id = None
            /\ ~(d < e /\ HasBatch(c, d)) => bs[d] = c.batches[d]
  BY <1>0, <1>2, BatchFacts
<1>4. r = [c EXCEPT !.processing_target = c.start_epoch, !.batches = bs]
  BY DEF Restarted
<1> HIDE DEF bs
<1>5. /\ r \in Chains /\ r.batches = bs /\ r.processing_target = c.start_epoch
      /\ r.start_epoch = c.start_epoch /\ r.to_be_downloaded = c.to_be_downloaded
      /\ r.optimistic_start = c.optimistic_start /\ r.requests = c.requests /\ r.segments = c.segments
      /\ r.current_processing_batch = None
      /\ r.attempted_optimistic_starts = c.attempted_optimistic_starts
  BY <1>0, <1>1, <1>3, <1>4 DEF Chains
<1>6. InFlight(r)
  <2>1. \A d \in Epochs : /\ (bs[d].state = "Downloading") <=> (c.batches[d].state = "Downloading")
                          /\ bs[d].id = c.batches[d].id
    <3>1. \A d \in Epochs : d < e /\ HasBatch(c, d) => c.batches[d].id = None
      BY <1>0 DEF InFlight
    <3> QED
      BY <1>3, <3>1
  <2> QED
    BY <1>0, <1>5, <2>1 DEF InFlight
<1>7. Current(r)
  <2>1. \A d \in Epochs : c.batches[d].state # "Processing"
    BY <1>0, <1>1 DEF Current
  <2>2. \A d \in Epochs : bs[d].state # "Processing"
    BY <1>3, <2>1
  <2> QED
    BY <1>1, <1>5, <2>2 DEF Current
<1>8. Bounds(r)
  <2>1. \A d \in Epochs : c.batches[d] = NoBatch => bs[d] = NoBatch
    BY <1>3 DEF HasBatch
  <2> QED
    BY <1>0, <1>1, <1>5, <2>1 DEF Bounds
<1>9. ASSUME Orderly(c), c.processing_target = e  PROVE Orderly(r)
  <2>0. Prefix(c) /\ Buffer(c) /\ Turns(c)
    BY <1>9 DEF Orderly
  <2>1. Prefix(r)
    BY <1>1, <1>5 DEF Prefix
  <2>2. \A d \in Epochs : HasBatch(r, d) <=> HasBatch(c, d)
    BY <1>0, <1>3, <1>5, BatchFacts
  <2>3. Buffer(r)
    BY <1>0, <1>5, <2>0, <2>2 DEF Buffer, Bounds
  <2>4. \A d \in Epochs : bs[d].state = "AwaitingValidation" =>
                              c.batches[d].state = "AwaitingValidation" /\ e <= d
    <3>1. \A d \in Epochs : c.batches[d].state = "AwaitingValidation" => HasBatch(c, d)
      BY <1>0, BatchFacts
    <3> QED
      BY <1>1, <1>3, <3>1
  <2>5. c.optimistic_start # None => c.start_epoch <= c.optimistic_start
    BY <1>0, <1>1 DEF Bounds
  <2>6. Turns(r)
    BY <1>5, <1>9, <2>0, <2>4, <2>5 DEF Turns, TurnsBut
  <2> QED
    BY <2>1, <2>3, <2>6 DEF Orderly
<1> QED
  BY <1>5, <1>6, <1>7, <1>8, <1>9 DEF Sound


(* The batches before e fail their validation together: all of them are    *)
(* tried again, or the chain ends.                                         *)
LEMMA ValidationFailedKeeps ==
    ASSUME NEW c, Sound(c), c.current_processing_batch = None, NEW e \in Epochs,
           NEW v, v = validation_failed(c, e)
    PROVE  \/ /\ v.result = "keep"
              /\ LET r == [v EXCEPT !.processing_target = v.start_epoch]
                 IN  Sound(r) /\ (Orderly(c) /\ c.processing_target = e => Orderly(r))
           \/ /\ v.result \in Removals
              /\ Orderly(c) /\ c.processing_target = e => v.result \notin WrongStates
<1>0. c \in Chains /\ c.result = "keep" /\ Bounds(c) /\ Epochs \subseteq Nat
  BY DEF Sound, Chains, Epochs
<1> DEFINE before == {d \in Epochs : d < e /\ HasBatch(c, d)}
           retried == [d \in before |-> Reattempt(c.batches[d])]
           Ends(d) == c.batches[d].state # "AwaitingValidation" \/ retried[d].state = "Failed"
           first == CHOOSE d \in before : Ends(d) /\ \A f \in before : f < d => ~Ends(f)
           bs == [d \in Epochs |-> IF d \in before THEN retried[d] ELSE c.batches[d]]
<1>1. v = IF \A d \in before : ~Ends(d) THEN [c EXCEPT !.batches = bs]
          ELSE IF c.batches[first].state # "AwaitingValidation" THEN RemoveChain(c, "WrongBatchState")
          ELSE Outcome(c, retried[first])
  BY DEF validation_failed
<1>2. CASE \A d \in before : ~Ends(d)
  <2>1. \A d \in Epochs : d < e /\ HasBatch(c, d) => /\ c.batches[d].state = "AwaitingValidation"
                                                     /\ Reattempt(c.batches[d]).state # "Failed"
    BY <1>2
  <2>2. bs = [d \in Epochs |-> IF d < e /\ HasBatch(c, d) THEN Reattempt(c.batches[d]) ELSE c.batches[d]]
    OBVIOUS
  <2>3. v = [c EXCEPT !.batches = bs]
    BY <1>1, <1>2
  <2> HIDE DEF bs
  <2>4. v.result = "keep" /\ v.start_epoch = c.start_epoch
    BY <1>0, <2>3 DEF Chains
  <2>5. [v EXCEPT !.processing_target = v.start_epoch]
        = [c EXCEPT !.processing_target = c.start_epoch, !.batches = bs]
    BY <1>0, <2>3, <2>4 DEF Chains
  <2>6. [v EXCEPT !.processing_target = v.start_epoch] = Restarted(c, e)
    BY <2>2, <2>5 DEF Restarted
  <2>7. Sound(Restarted(c, e)) /\ (Orderly(c) /\ c.processing_target = e => Orderly(Restarted(c, e)))
    BY <2>1, RestartedKeeps
  <2> QED
    BY <2>4, <2>6, <2>7
<1>3. CASE ~\A d \in before : ~Ends(d)
  <2>1. first \in before
    <3>1. {d \in before : Ends(d)} \in SUBSET Nat /\ {d \in before : Ends(d)} # {}
      BY <1>0, <1>3
    <3>2. PICK x \in {d \in before : Ends(d)} : \A y \in {d \in before : Ends(d)} : x <= y
      BY <3>1, HasMinimum
    <3>3. x \in before /\ Ends(x) /\ \A f \in before : f < x => ~Ends(f)
      BY <1>0, <3>2
    <3> HIDE DEF Ends, before
    <3> QED
      BY <3>3
  <2>2. v.result \in {"WrongBatchState", "ChainFailed", "ChainFailedAndBlacklisted"}
    <3> HIDE DEF before, retried, Ends, first, bs
    <3> QED
      BY <1>0, <1>1, <1>3, RemovalFacts
  <2>3. ASSUME Orderly(c), c.processing_target = e  PROVE v.result # "WrongBatchState"
    <3>1. first \in Epochs /\ c.start_epoch <= first /\ first < e
      <4>1. first \in Epochs /\ first < e /\ HasBatch(c, first)
        <5> HIDE DEF first
        <5> QED
          BY <2>1
      <4>2. c.start_epoch \in Nat
        BY <1>0 DEF Chains
      <4> HIDE DEF first
      <4>3. ~(first < c.start_epoch)
        BY <1>0, <4>1 DEF Bounds, HasBatch
      <4>4. first \in Nat
        BY <1>0, <4>1
      <4> QED
        BY <4>1, <4>2, <4>3, <4>4
    <3>2. c.batches[first].state = "AwaitingValidation"
      BY <2>3, <3>1 DEF Orderly, Prefix
    <3>3. v = Outcome(c, retried[first])
      BY <1>1, <1>3, <3>2
    <3> QED
      BY <1>0, <3>3, RemovalFacts
  <2> QED
    BY <2>2, <2>3 DEF Removals, WrongStates
<1> QED
  BY <1>2, <1>3

(* Failed, on a batch that has attempts left. *)
LEMMA HandleInvalidKeeps ==
    ASSUME NEW c, Sound(c), c.current_processing_batch = None, NEW e \in Epochs,
           c.batches[e].state = "AwaitingDownload", NEW env
    PROVE  LET d == handle_invalid_batch(c, e, env)
           IN  /\ Kept1(d)
               /\ Orderly(c) /\ e \in {c.optimistic_start, c.processing_target} => Kept2(d)
<1> DEFINE d == handle_invalid_batch(c, e, env)
<1>0. c \in Chains /\ c.result = "keep"
  BY DEF Sound, Chains
<1>1. CASE c.optimistic_start = e
  <2> DEFINE r == Rejected(c, e)
  <2>1. d = IF ~(e >= c.to_be_downloaded) THEN send_batch(r, e, env) ELSE r
    BY <1>0, <1>1, RejectedIs DEF handle_invalid_batch
  <2>2. /\ Sound(r) /\ (OrderlyBut(c, {e}) => Orderly(r))
        /\ e < c.to_be_downloaded => r.batches[e] = c.batches[e]
    BY <1>1, RejectedKeeps
  <2> HIDE DEF r
  <2>3. Orderly(c) => Orderly(r)
    BY <2>2 DEF Orderly, OrderlyBut, Turns, TurnsBut
  <2>4. r.result = "keep"
    BY <2>2 DEF Sound, Chains
  <2>5. CASE e >= c.to_be_downloaded
    BY <2>1, <2>2, <2>3, <2>4, <2>5 DEF Kept1, Kept2
  <2>6. CASE ~(e >= c.to_be_downloaded)
    <3>1. r.batches[e].state = "AwaitingDownload"
      <4>1. e < c.to_be_downloaded
        BY <1>0, <2>6 DEF Chains, Epochs
      <4> QED
        BY <2>2, <4>1
    <3>2. {e} \cap {f \in Epochs : HasBatch(r, f)} = {e}
      BY <3>1, NoBatchFacts DEF HasBatch
    <3>3. d = SendBatches(r, {e}, env)
      BY <2>1, <2>6, <3>2 DEF send_batch
    <3>4. \/ d = r
          \/ d.result \in {"ChainFailed", "ChainFailedAndBlacklisted"}
          \/ Sends(r, d, {e}) /\ Sound(d) /\ (Orderly(r) => Orderly(d))
      BY <2>2, <3>1, <3>3, SendBatchesKeeps
    <3>5. Sound(d) => d.result = "keep"
      BY DEF Sound, Chains
    <3> QED
      BY <2>2, <2>3, <2>4, <3>4, <3>5 DEF Kept1, Kept2, Removals, WrongStates
  <2> QED
    BY <2>5, <2>6
<1>2. CASE c.optimistic_start # e
  <2> DEFINE v == validation_failed(c, e)
             r == [v EXCEPT !.processing_target = v.start_epoch]
  <2>1. d = IF v.result = "keep" THEN attempt_send_awaiting_download_batches(r, env) ELSE v
    BY <1>2 DEF handle_invalid_batch, Then
  <2>2. \/ /\ v.result = "keep" /\ Sound(r)
           /\ Orderly(c) /\ c.processing_target = e => Orderly(r)
        \/ /\ v.result \in Removals
           /\ Orderly(c) /\ c.processing_target = e => v.result \notin WrongStates
    BY ValidationFailedKeeps
  <2> HIDE DEF v, r
  <2>3. CASE v.result = "keep" /\ Sound(r) /\ (Orderly(c) /\ c.processing_target = e => Orderly(r))
    BY <1>2, <2>1, <2>3, AttemptSendKeeps
  <2>4. CASE /\ v.result \in Removals
             /\ Orderly(c) /\ c.processing_target = e => v.result \notin WrongStates
    BY <1>2, <2>1, <2>4 DEF Kept1, Kept2, Removals
  <2> QED
    BY <2>2, <2>3, <2>4
<1> QED
  BY <1>1, <1>2


(* A batch was faulty, after a prefix of its blocks may have been imported. *)
LEMMA FailedKeeps ==
    ASSUME NEW c, NEW e \in Epochs, Taken(c, e), NEW imported \in BOOLEAN, NEW env
    PROVE  LET d == Failed(c, e, imported, env)
           IN  /\ Kept1(d)
               /\ Orderly(c) /\ e \in {c.optimistic_start, c.processing_target} => Kept2(d)
<1> DEFINE b == Reattempt(c.batches[e])
           a == SetBatch(c, e, b)
           d == Failed(c, e, imported, env)
<1>0. /\ c \in Chains /\ c.batches[e].state = "Processing" /\ c.batches[e] \in BatchType
      /\ c.batches[e].id = None /\ c.result = "keep" /\ c.current_processing_batch = None
      /\ Bounds(c)
  BY BatchFacts, NoBatchFacts DEF Taken, InFlight, Chains
<1>1. processing_completed(c, e, "FaultyFailure") = a
  BY <1>0 DEF processing_completed, Transition, SetBatch
<1>2. /\ b.state \in {"Failed", "AwaitingDownload"}
      /\ b.state # "Failed" => b \in BatchType /\ b.state = "AwaitingDownload" /\ b.id = None
  BY <1>0, ReattemptFacts
<1> HIDE DEF b
<1>3. a.result = "keep" /\ a.batches[e] = b
  BY <1>0 DEF Chains, SetBatch
<1>4. d = IF b.state = "Failed" THEN Outcome([a EXCEPT !.peers = {}], b)
          ELSE handle_invalid_batch(IF imported THEN advance_chain(a, e) ELSE a, e, env)
  <2> HIDE DEF a
  <2> QED
    BY <1>1, <1>3 DEF Failed, Then
<1>5. CASE b.state = "Failed"
  <2>1. Outcome([a EXCEPT !.peers = {}], b).result \in {"ChainFailed", "ChainFailedAndBlacklisted"}
    BY <1>0 DEF Outcome, RemoveChain, Chains, SetBatch
  <2> QED
    BY <1>4, <1>5, <2>1 DEF Kept1, Kept2, Removals, WrongStates
<1>6. CASE b.state # "Failed"
  <2>1. Sound(a) /\ Frame(c, a) /\ (Orderly(c) => Orderly(a))
    <3>1. b \in BatchType /\ b.id = None /\ b.state = "AwaitingDownload"
      BY <1>2, <1>6
    <3>2. b.state \in {"AwaitingDownload", "AwaitingValidation"}
      BY <3>1
    <3>3. a = SetBatch(c, e, b)
      OBVIOUS
    <3> HIDE DEF a
    <3>4. Sound(a) /\ Frame(c, a)
      BY <3>1, <3>2, <3>3, BatchSettles
    <3>5. Orderly(c) => Orderly(a)
      BY <3>1, <3>2, <3>3, BatchSettles
    <3> QED
      BY <3>4, <3>5
  <2> HIDE DEF a
  <2> DEFINE x == advance_chain(a, e)
  <2>2. /\ Sound(x) /\ (OrderlyBut(a, {}) => OrderlyBut(x, {}))
        /\ \A f \in Epochs : f >= e => x.batches[f] = a.batches[f]
        /\ x.processing_target = IF a.processing_target >= e THEN a.processing_target ELSE e
        /\ x.current_processing_batch \in {None, a.current_processing_batch}
    BY <2>1, AdvanceKeeps
  <2> HIDE DEF x
  <2>3. CASE imported
    <3>1. d = handle_invalid_batch(x, e, env)
      BY <1>4, <1>6, <2>3 DEF x
    <3>2. x.current_processing_batch = None /\ x.batches[e].state = "AwaitingDownload"
      <4>1. e >= e
        BY DEF Epochs
      <4> QED
        BY <1>0, <1>2, <1>3, <1>6, <2>1, <2>2, <4>1 DEF Frame
    <3>3. Orderly(c) => Orderly(x)
      BY <2>1, <2>2, OrderlyIsBut
    <3>4. Orderly(c) /\ e \in {c.optimistic_start, c.processing_target} => x.processing_target = e
      <4>1. c.processing_target \in Nat /\ e \in Nat /\ e # None
        BY <1>0, ConstantsAssumption DEF Chains, Epochs, None
      <4>2. Orderly(c) /\ e \in {c.optimistic_start, c.processing_target} => c.processing_target <= e
        BY <4>1 DEF Orderly, Turns, TurnsBut
      <4> QED
        BY <2>1, <2>2, <4>1, <4>2 DEF Frame
    <3> QED
      BY <2>2, <3>1, <3>2, <3>3, <3>4, HandleInvalidKeeps
  <2>4. CASE ~imported
    <3>1. d = handle_invalid_batch(a, e, env)
      BY <1>4, <1>6, <2>4
    <3>2. /\ a.current_processing_batch = None /\ a.batches[e].state = "AwaitingDownload"
          /\ a.optimistic_start = c.optimistic_start /\ a.processing_target = c.processing_target
      BY <1>0, <1>2, <1>3, <1>6, <2>1 DEF Frame
    <3> QED
      BY <2>1, <3>1, <3>2, HandleInvalidKeeps
  <2> QED
    BY <2>3, <2>4
<1> QED
  BY <1>5, <1>6

(***************************************************************************)
(* The handlers.  They leave a chain in order if they find it so, unless   *)
(* the target has overtaken the optimistic batch.                          *)
(***************************************************************************)
OvertakenIn(c) ==
    /\ c.optimistic_start # None /\ c.optimistic_start = c.processing_target
    /\ c.optimistic_start >= c.to_be_downloaded

LEMMA ProcessResultKeeps ==
    ASSUME NEW c, Sound(c), NEW e \in Epochs, NEW verdict \in Verdicts(TRUE), NEW env
    PROVE  LET d == ProcessResult([c EXCEPT !.segments = @ \ {e}], e, verdict, env)
           IN  Kept1(d) /\ (Orderly(c) /\ ~OvertakenIn(c) => Kept2(d))
<1> DEFINE s == [c EXCEPT !.segments = @ \ {e}]
           t == [s EXCEPT !.current_processing_batch = None]
           d == ProcessResult(s, e, verdict, env)
<1> SUFFICES Kept1(d) /\ (Orderly(c) /\ ~OvertakenIn(c) => Kept2(d))
  OBVIOUS
<1>0. c \in Chains /\ InFlight(c) /\ Current(c) /\ Bounds(c) /\ c.result = "keep"
      /\ None \notin Epochs /\ e # None
  BY ConstantsAssumption DEF Sound, Chains, None, Epochs
<1>1. /\ s \in Chains /\ s.segments = c.segments \ {e} /\ s.batches = c.batches
      /\ s.requests = c.requests /\ s.to_be_downloaded = c.to_be_downloaded
      /\ s.start_epoch = c.start_epoch /\ s.processing_target = c.processing_target
      /\ s.optimistic_start = c.optimistic_start /\ s.result = "keep"
      /\ s.attempted_optimistic_starts = c.attempted_optimistic_starts
      /\ s.current_processing_batch = c.current_processing_batch
  BY <1>0 DEF Chains
<1> HIDE DEF s
<1>2. CASE c.current_processing_batch # e
  <2>1. d = s
    BY <1>1, <1>2 DEF ProcessResult
  <2>2. Sound(s)
    <3>1. InFlight(s) /\ Bounds(s)
      BY <1>0, <1>1 DEF InFlight, Bounds
    <3>2. Current(s)
      BY <1>0, <1>1, <1>2 DEF Current
    <3> QED
      BY <1>1, <3>1, <3>2 DEF Sound
  <2>3. Orderly(c) => Orderly(s)
    BY <1>1 DEF Orderly, Prefix, Buffer, Turns, TurnsBut, HasBatch
  <2> QED
    BY <1>1, <2>1, <2>2, <2>3 DEF Kept1, Kept2
<1>3. CASE c.current_processing_batch = e
  <2>1. c.batches[e].state = "Processing" /\ HasBatch(s, e)
    BY <1>0, <1>1, <1>3, BatchFacts DEF Current, HasBatch
  <2>2. /\ t \in Chains /\ t.segments = s.segments /\ t.batches = c.batches
        /\ t.requests = c.requests /\ t.to_be_downloaded = c.to_be_downloaded
        /\ t.start_epoch = c.start_epoch /\ t.processing_target = c.processing_target
        /\ t.optimistic_start = c.optimistic_start
        /\ t.attempted_optimistic_starts = c.attempted_optimistic_starts
        /\ t.current_processing_batch = None
    BY <1>1 DEF Chains
  <2>3. d = BatchProcessResult(t, e, verdict, s.batches[e].blocks, env)
    BY <1>1, <1>3, <2>1 DEF ProcessResult
  <2> HIDE DEF t
  <2>4. Taken(t, e)
    BY <1>0, <1>3, <2>1, <2>2 DEF Taken, InFlight, Bounds, Current
  <2>5. Orderly(c) => Orderly(t) /\ e \in {t.optimistic_start, t.processing_target}
    BY <1>0, <1>3, <2>2 DEF Orderly, Prefix, Buffer, Turns, TurnsBut, HasBatch
  <2>6. s.batches[e].blocks \in BOOLEAN
    BY <1>1, NoBatchFacts DEF Chains, BatchType
  <2>7. verdict \in {"Success", "Faulty", "FaultyAfterImport", "NonFaulty"}
    BY DEF Verdicts
  <2>8. CASE verdict = "Success"
    <3>1. d = Succeeded(t, e, s.batches[e].blocks, env)
      BY <2>3, <2>8 DEF BatchProcessResult
    <3>2. ~OvertakenIn(c) => ~(/\ e = t.optimistic_start /\ e = t.processing_target
                               /\ e >= t.to_be_downloaded)
      BY <1>0, <2>2 DEF OvertakenIn
    <3> QED
      BY <2>4, <2>5, <2>6, <3>1, <3>2, SucceededKeeps
  <2>9. CASE verdict \in {"Faulty", "FaultyAfterImport"}
    <3>1. d = Failed(t, e, FALSE, env) \/ d = Failed(t, e, TRUE, env)
      BY <2>3, <2>9 DEF BatchProcessResult
    <3> QED
      BY <2>4, <2>5, <3>1, FailedKeeps
  <2>10. CASE verdict = "NonFaulty"
    <3>1. d = NonFaultyFailure(t, e, env)
      BY <2>3, <2>10 DEF BatchProcessResult
    <3> QED
      BY <2>4, <2>5, <3>1, NonFaultyFailureKeeps
  <2> QED
    BY <2>7, <2>8, <2>9, <2>10
<1> QED
  BY <1>2, <1>3

=============================================================================
