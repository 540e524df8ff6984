------------------------- MODULE SyncingChainProofs -------------------------
(***************************************************************************)
(* Every handler of a syncing chain keeps the invariants; the theorems.    *)
(***************************************************************************)
EXTENDS SyncingChainVerdicts

-----------------------------------------------------------------------------
(* The request of a batch is answered, and the batch has left Downloading. *)
Answered(c, e, b) ==
    [c EXCEPT !.requests = @ \ {<<e, 1>>}, !.batches = [c.batches EXCEPT ![e] = b]]

LEMMA AnsweredKeeps ==
    ASSUME NEW c, Sound(c), NEW e \in Epochs, c.batches[e].state = "Downloading",
           NEW b \in BatchType, b.id = None, b.state \in {"AwaitingDownload", "AwaitingProcessing"},
           NEW d, d = Answered(c, e, b)
    PROVE  Sound(d) /\ (Orderly(c) => Orderly(d))
<1>0. c \in Chains /\ InFlight(c) /\ Current(c) /\ Bounds(c)
  BY DEF Sound
<1> DEFINE bs == [c.batches EXCEPT ![e] = b]
<1>1. /\ bs \in [Epochs -> BatchType \cup {NoBatch}] /\ bs[e] = b
      /\ \A f \in Epochs : f # e => bs[f] = c.batches[f]
  BY <1>0 DEF Chains
<1>2. d = [c EXCEPT !.requests = @ \ {<<e, 1>>}, !.batches = bs]
  BY DEF Answered
<1> HIDE DEF bs
<1>3. d \in Chains /\ Frame(c, d) /\ d.batches = bs /\ d.requests = c.requests \ {<<e, 1>>}
      /\ d.to_be_downloaded = c.to_be_downloaded
  BY <1>0, <1>1, <1>2 DEF Chains, Frame
<1>4. InFlight(d)
  BY <1>0, <1>1, <1>3 DEF InFlight, Frame
<1>5. Current(d)
  <2>1. \A f \in Epochs : (bs[f].state = "Processing") <=> (c.batches[f].state = "Processing")
    BY <1>1
  <2> QED
    BY <1>0, <1>3, <2>1 DEF Current, Frame
<1>6. Bounds(d)
  <2>1. \A f \in Epochs : c.batches[f] = NoBatch => bs[f] = NoBatch
    BY <1>1, NoBatchFacts
  <2> QED
    BY <1>0, <1>3, <2>1 DEF Bounds, Frame
<1>7. ASSUME Orderly(c)  PROVE Orderly(d)
  <2>1. \A f \in Epochs :
            /\ HasBatch(d, f) <=> HasBatch(c, f)
            /\ (bs[f].state = "AwaitingValidation") <=> (c.batches[f].state = "AwaitingValidation")
    BY <1>0, <1>1, <1>3, BatchFacts
  <2> QED
    BY <1>3, <1>7, <2>1 DEF Orderly, Prefix, Buffer, Turns, TurnsBut, Frame
<1> QED
  BY <1>3, <1>4, <1>5, <1>6, <1>7 DEF Sound

(* A request that no batch waits for is answered. *)
Received(c, request) == [c EXCEPT !.requests = @ \ {request}]

LEMMA StrayKeeps ==
    ASSUME NEW c, Sound(c), NEW e \in Epochs, c.batches[e].state # "Downloading",
           NEW u, u = Received(c, <<e, 1>>)
    PROVE  Sound(u) /\ u.result = "keep" /\ (Orderly(c) => Orderly(u))
<1>0. c \in Chains /\ InFlight(c) /\ Current(c) /\ Bounds(c)
  BY DEF Sound
<1>1. u \in Chains /\ Frame(c, u) /\ u.batches = c.batches /\ u.requests = c.requests \ {<<e, 1>>}
      /\ u.to_be_downloaded = c.to_be_downloaded /\ u.result = "keep"
  BY <1>0 DEF Chains, Frame, Received
<1>2. InFlight(u)
  BY <1>0, <1>1 DEF InFlight, Frame
<1>3. Current(u) /\ Bounds(u)
  BY <1>0, <1>1 DEF Current, Bounds, Frame
<1>4. Orderly(c) => Orderly(u)
  BY <1>1 DEF Orderly, Prefix, Buffer, Turns, TurnsBut, Frame, HasBatch
<1> QED
  BY <1>1, <1>2, <1>3, <1>4 DEF Sound

(* What the handlers of an answer start from. *)
LEMMA RequestFacts ==
    ASSUME NEW c, Sound(c), NEW request \in c.requests,
           NEW u, u = Received(c, request)
    PROVE  /\ request[1] \in Epochs /\ request[2] = 1 /\ request = <<request[1], 1>>
           /\ u.batches = c.batches /\ u.result = "keep" /\ u.requests = c.requests \ {request}
           /\ c.batches[request[1]].state = "Downloading" <=> HasBatch(u, request[1])
           /\ c.batches[request[1]].state = "Downloading" <=>
                 HasBatch(u, request[1]) /\ is_expecting_request_id(u, request)
           /\ \A b : SetBatch(u, request[1], b) = Answered(c, request[1], b)
<1>0. c \in Chains /\ InFlight(c) /\ Bounds(c)
  BY DEF Sound
<1>1. request[1] \in Epochs /\ request[2] = 1 /\ request = <<request[1], 1>>
  BY <1>0 DEF InFlight
<1>2. u.batches = c.batches /\ u.result = "keep" /\ u.requests = c.requests \ {request}
  BY <1>0 DEF Chains, Received
<1>3. c.batches[request[1]].state = "Downloading" <=> HasBatch(u, request[1])
  <2>1. c.batches[request[1]].state = "Downloading" => HasBatch(u, request[1])
    BY <1>1, <1>2, NoBatchFacts DEF HasBatch
  <2>2. HasBatch(u, request[1]) => c.batches[request[1]].state = "Downloading"
    BY <1>0, <1>1, <1>2 DEF HasBatch, Bounds, InFlight
  <2> QED
    BY <2>1, <2>2
<1>4. c.batches[request[1]].state = "Downloading" => is_expecting_request_id(u, request)
  BY <1>0, <1>1, <1>2 DEF is_expecting_request_id, InFlight
<1>5. \A b : SetBatch(u, request[1], b) = Answered(c, request[1], b)
  BY <1>0, <1>1 DEF SetBatch, Answered, Chains, Received
<1> QED
  BY <1>1, <1>2, <1>3, <1>4, <1>5


LEMMA BlockResponseKeeps ==
    ASSUME NEW c, Sound(c), NEW request \in c.requests, NEW blocks \in BOOLEAN, NEW env
    PROVE  LET d == BlockResponseResult([c EXCEPT !.requests = @ \ {request}], request, blocks, env)
           IN  Kept1(d) /\ (Orderly(c) => Kept2(d))
<1> DEFINE u == Received(c, request)
           e == request[1]
           b == [c.batches[e] EXCEPT !.state = "AwaitingProcessing", !.id = None, !.blocks = blocks]
           a == Answered(c, e, b)
           d == BlockResponseResult(u, request, blocks, env)
<1> SUFFICES Kept1(d) /\ (Orderly(c) => Kept2(d))
  BY DEF Received
<1>0. c \in Chains
  BY DEF Sound
<1>1. /\ e \in Epochs /\ request[2] = 1 /\ request = <<e, 1>>
      /\ u.batches = c.batches /\ u.result = "keep"
      /\ c.batches[e].state = "Downloading" <=> HasBatch(u, e) /\ is_expecting_request_id(u, request)
  BY RequestFacts
<1>s. SetBatch(u, e, b) = a
  <2> HIDE DEF b
  <2> QED
    BY RequestFacts
<1>2. u = Received(c, <<e, 1>>)
  BY <1>1
<1> HIDE DEF u
<1>3. CASE c.batches[e].state # "Downloading"
  <2>1. d = u
    BY <1>1, <1>3 DEF BlockResponseResult
  <2>2. Sound(u) /\ (Orderly(c) => Orderly(u))
    <3> HIDE DEF e
    <3> QED
      BY <1>1, <1>2, <1>3, StrayKeeps
  <2> QED
    BY <1>1, <2>1, <2>2 DEF Kept1, Kept2
<1>4. CASE c.batches[e].state = "Downloading"
  <2>0. c.batches[e] \in BatchType
    BY <1>0, <1>1, <1>4, BatchFacts
  <2>1. b \in BatchType /\ b.id = None /\ b.state = "AwaitingProcessing"
    BY <2>0 DEF BatchType, BatchStates
  <2>2. download_completed(u, e, blocks) = a
    <3>1. b = [u.batches[e] EXCEPT !.state = "AwaitingProcessing", !.id = None, !.blocks = blocks]
      BY <1>1
    <3> HIDE DEF b
    <3>2. download_completed(u, e, blocks) = SetBatch(u, e, b)
      BY <1>1, <1>4, <3>1 DEF download_completed, Transition, SetBatch
    <3> QED
      BY <1>s, <3>2
  <2> HIDE DEF b
  <2>3. Sound(a) /\ (Orderly(c) => Orderly(a))
    <3> HIDE DEF e
    <3> QED
      BY <1>1, <1>4, <2>1, AnsweredKeeps
  <2>4. a.result = "keep"
    BY <2>3 DEF Sound, Chains
  <2> HIDE DEF a
  <2>5. d = RequestAndProcess(a, env)
    BY <1>1, <1>4, <2>2, <2>4 DEF BlockResponseResult, Then
  <2> QED
    BY <2>3, <2>5, RequestAndProcessKeeps
<1> QED
  BY <1>3, <1>4

LEMMA ErrorKeeps ==
    ASSUME NEW c, Sound(c), NEW request \in c.requests, NEW env
    PROVE  LET d == ErrorResult([c EXCEPT !.requests = @ \ {request}], request, env)
           IN  Kept1(d) /\ (Orderly(c) => Kept2(d))
<1> DEFINE u == Received(c, request)
           e == request[1]
           b == [c.batches[e] EXCEPT
                    !.state = NextTry(c.batches[e].downloads + 1, MAX_BATCH_DOWNLOAD_ATTEMPTS),
                    !.id = None, !.downloads = @ + 1]
           a == Answered(c, e, b)
           d == ErrorResult(u, request, env)
<1> SUFFICES Kept1(d) /\ (Orderly(c) => Kept2(d))
  BY DEF Received
<1>0. c \in Chains
  BY DEF Sound
<1>1. /\ e \in Epochs /\ request[2] = 1 /\ request = <<e, 1>>
      /\ u.batches = c.batches /\ u.result = "keep"
      /\ c.batches[e].state = "Downloading" <=> HasBatch(u, e) /\ is_expecting_request_id(u, request)
  BY RequestFacts
<1>s. SetBatch(u, e, b) = a
  <2> HIDE DEF b
  <2> QED
    BY RequestFacts
<1>2. u = Received(c, <<e, 1>>)
  BY <1>1
<1> HIDE DEF u
<1>3. CASE c.batches[e].state # "Downloading"
  <2>1. d = u
    BY <1>1, <1>3 DEF ErrorResult
  <2>2. Sound(u) /\ (Orderly(c) => Orderly(u))
    <3> HIDE DEF e
    <3> QED
      BY <1>1, <1>2, <1>3, StrayKeeps
  <2> QED
    BY <1>1, <2>1, <2>2 DEF Kept1, Kept2
<1>4. CASE c.batches[e].state = "Downloading"
  <2>0. c.batches[e] \in BatchType
    BY <1>0, <1>1, <1>4, BatchFacts
  <2>1. /\ b.id = None /\ b.state \in {"Failed", "AwaitingDownload"}
        /\ b.state # "Failed" => b \in BatchType
    <3>1. c.batches[e].downloads \in 0..(MAX_BATCH_DOWNLOAD_ATTEMPTS - 1)
      BY <2>0 DEF BatchType
    <3>2. /\ b.state = NextTry(c.batches[e].downloads + 1, MAX_BATCH_DOWNLOAD_ATTEMPTS) /\ b.id = None
      BY <2>0 DEF BatchType
    <3>3. CASE c.batches[e].downloads + 1 >= MAX_BATCH_DOWNLOAD_ATTEMPTS
      BY <3>2, <3>3 DEF NextTry
    <3>4. CASE ~(c.batches[e].downloads + 1 >= MAX_BATCH_DOWNLOAD_ATTEMPTS)
      <4>1. c.batches[e].downloads + 1 \in 0..(MAX_BATCH_DOWNLOAD_ATTEMPTS - 1)
        BY <3>1, <3>4, ConstantsAssumption
      <4>2. NextTry(c.batches[e].downloads + 1, MAX_BATCH_DOWNLOAD_ATTEMPTS) = "AwaitingDownload"
        BY <3>4 DEF NextTry
      <4> QED
        BY <2>0, <3>2, <4>1, <4>2 DEF BatchType, BatchStates
    <3> QED
      BY <3>3, <3>4
  <2>2. download_failed(u, e) = a
    BY <1>1, <1>4, <1>s DEF download_failed, Transition, SetBatch
  <2> HIDE DEF b
  <2>3. a.result = "keep" /\ a.batches[e] = b
    BY <1>0, <1>1 DEF Chains, Answered
  <2>4. CASE b.state = "Failed"
    <3>1. Outcome(a, b).result \in {"ChainFailed", "ChainFailedAndBlacklisted"}
      BY <1>0 DEF Outcome, RemoveChain, Chains, Answered
    <3>2. d = Outcome(a, b)
      <4> HIDE DEF a
      <4> QED
        BY <1>1, <1>4, <2>2, <2>3, <2>4, <3>1 DEF ErrorResult, Then, CheckOutcome
    <3> QED
      BY <3>1, <3>2 DEF Kept1, Kept2, Removals, WrongStates
  <2>5. CASE b.state # "Failed"
    <3>1. Sound(a) /\ (Orderly(c) => Orderly(a))
      <4>1. b \in BatchType /\ b.id = None /\ b.state = "AwaitingDownload"
        BY <2>1, <2>5
      <4> HIDE DEF e
      <4> QED
        BY <1>1, <1>4, <4>1, AnsweredKeeps
    <3> HIDE DEF a
    <3>2. d = attempt_send_awaiting_download_batches(a, env)
      BY <1>1, <1>4, <2>2, <2>3, <2>5 DEF ErrorResult, Then, CheckOutcome
    <3> QED
      BY <3>1, <3>2, AttemptSendKeeps
  <2> QED
    BY <2>4, <2>5
<1> QED
  BY <1>3, <1>4


(* A partial retry puts the batch back into Downloading, under its id. *)
LEMMA RetryPartialKeeps ==
    ASSUME NEW c, Sound(c), NEW request \in c.requests, NEW retried \in BOOLEAN
    PROVE  LET d == retry_partial_batch([c EXCEPT !.requests = @ \ {request}], request, retried)
           IN  Kept1(d) /\ (Orderly(c) => Kept2(d))
<1> DEFINE u == Received(c, request)
           e == request[1]
           b == [c.batches[e] EXCEPT !.state = "AwaitingDownload", !.id = None]
           a == Answered(c, e, b)
           d == retry_partial_batch(u, request, retried)
<1> SUFFICES Kept1(d) /\ (Orderly(c) => Kept2(d))
  BY DEF Received
<1>0. c \in Chains
  BY DEF Sound
<1>1. /\ e \in Epochs /\ request[2] = 1 /\ request = <<e, 1>>
      /\ u.batches = c.batches /\ u.result = "keep"
      /\ c.batches[e].state = "Downloading" <=> HasBatch(u, e)
  BY RequestFacts
<1>s. SetBatch(u, e, b) = a
  <2> HIDE DEF b
  <2> QED
    BY RequestFacts
<1>2. u = Received(c, <<e, 1>>)
  BY <1>1
<1> HIDE DEF u
<1>3. CASE c.batches[e].state # "Downloading"
  <2>1. d = u
    BY <1>1, <1>3 DEF retry_partial_batch
  <2>2. Sound(u) /\ (Orderly(c) => Orderly(u))
    <3> HIDE DEF e
    <3> QED
      BY <1>1, <1>2, <1>3, StrayKeeps
  <2> QED
    BY <1>1, <2>1, <2>2 DEF Kept1, Kept2
<1>4. CASE c.batches[e].state = "Downloading"
  <2>0. c.batches[e] \in BatchType
    BY <1>0, <1>1, <1>4, BatchFacts
  <2>1. b \in BatchType /\ b.id = None /\ b.state = "AwaitingDownload"
    BY <2>0 DEF BatchType, BatchStates
  <2>2. downloading_to_awaiting_download(u, e) = a
    BY <1>1, <1>4, <1>s DEF downloading_to_awaiting_download, Transition, SetBatch
  <2> HIDE DEF b
  <2>3. Sound(a) /\ (Orderly(c) => Orderly(a))
    <3> HIDE DEF e
    <3> QED
      BY <1>1, <1>4, <2>1, AnsweredKeeps
  <2>4. a.batches[e] = b
    BY <1>0, <1>1 DEF Chains, Answered
  <2> HIDE DEF a
  <2>5. a \in Chains /\ a.result = "keep" /\ a.batches \in [Epochs -> BatchType \cup {NoBatch}]
    BY <2>3 DEF Sound, Chains
  <2>6. CASE ~retried
    <3>1. d = a
      BY <1>1, <1>4, <2>2, <2>5, <2>6 DEF retry_partial_batch, Then
    <3> QED
      BY <2>3, <2>5, <3>1 DEF Kept1, Kept2
  <2>7. CASE retried
    <3>1. d = [a EXCEPT !.requests = @ \cup {request},
                        !.batches[e] = start_downloading(a.batches[e], request[2])]
      BY <1>1, <1>4, <2>2, <2>5, <2>7 DEF retry_partial_batch, Then
    <3>2. [a.batches EXCEPT ![e] = start_downloading(a.batches[e], request[2])]
          = [f \in Epochs |-> IF f \in {e} THEN start_downloading(a.batches[f], 1) ELSE a.batches[f]]
      BY <1>1, <2>5
    <3>3. {request} = {e} \X {1}
      BY <1>1
    <3>4. Sends(a, d, {e})
      BY <2>5, <3>1, <3>2, <3>3 DEF Sends, Chains
    <3>5. Sound(d) /\ (Orderly(a) => Orderly(d))
      <4> HIDE DEF e, d
      <4> QED
        BY <1>1, <2>1, <2>3, <2>4, <3>4, SendKeeps
    <3>6. d.result = "keep"
      BY <3>5 DEF Sound, Chains
    <3> QED
      BY <2>3, <3>5, <3>6 DEF Kept1, Kept2
  <2> QED
    BY <2>6, <2>7
<1> QED
  BY <1>3, <1>4

(* The chain is started again, and may get an optimistic start. *)
LEMMA StartedKeeps ==
    ASSUME NEW c, Sound(c), NEW head \in Epochs, NEW s,
           \/ /\ s = [c EXCEPT !.optimistic_start = head, !.syncing = TRUE]
              /\ c.optimistic_start = None /\ head > c.processing_target
              /\ head \notin c.attempted_optimistic_starts
           \/ s = [c EXCEPT !.syncing = TRUE]
    PROVE  Sound(s) /\ (Orderly(c) => Orderly(s))
<1>0. c \in Chains /\ InFlight(c) /\ Current(c) /\ Bounds(c)
  BY DEF Sound
<1>1. /\ s \in Chains /\ s.batches = c.batches /\ s.requests = c.requests
      /\ s.to_be_downloaded = c.to_be_downloaded /\ s.processing_target = c.processing_target
      /\ s.start_epoch = c.start_epoch /\ s.segments = c.segments
      /\ s.current_processing_batch = c.current_processing_batch
      /\ s.attempted_optimistic_starts = c.attempted_optimistic_starts
  <2>1. CASE s = [c EXCEPT !.optimistic_start = head, !.syncing = TRUE]
    BY <1>0, <2>1 DEF Chains
  <2>2. CASE s = [c EXCEPT !.syncing = TRUE]
    BY <1>0, <2>2 DEF Chains
  <2> QED
    BY <2>1, <2>2
<1>2. \/ s.optimistic_start = c.optimistic_start
      \/ /\ s.optimistic_start = head /\ c.optimistic_start = None /\ head > c.processing_target
         /\ head \notin c.attempted_optimistic_starts
  BY <1>0 DEF Chains
<1>3. /\ c.start_epoch \in Nat /\ c.processing_target \in Nat /\ head \in Nat /\ None \notin Epochs
      /\ Epochs \subseteq Nat
  BY <1>0, ConstantsAssumption DEF Chains, Epochs, None
<1>4. InFlight(s) /\ Current(s)
  BY <1>0, <1>1 DEF InFlight, Current
<1>5. Bounds(s)
  <2>1. s.optimistic_start # None => s.start_epoch < s.optimistic_start
    BY <1>0, <1>1, <1>2, <1>3 DEF Bounds
  <2> QED
    BY <1>0, <1>1, <2>1 DEF Bounds
<1>6. ASSUME Orderly(c)  PROVE Orderly(s)
  <2>0. Prefix(c) /\ Buffer(c) /\ Turns(c)
    BY <1>6 DEF Orderly
  <2>1. Prefix(s)
    BY <1>1, <2>0 DEF Prefix
  <2>2. Buffer(s)
    BY <1>1, <1>2, <1>3, <2>0 DEF Buffer, HasBatch
  <2>3. Turns(s)
    BY <1>1, <1>2, <1>3, <2>0 DEF Turns, TurnsBut
  <2> QED
    BY <2>1, <2>2, <2>3 DEF Orderly
<1> QED
  BY <1>1, <1>4, <1>5, <1>6 DEF Sound


LEMMA StartSyncingKeeps ==
    ASSUME NEW c, Sound(c), NEW finalized \in Epochs, NEW head \in Epochs, NEW env
    PROVE  LET d == StartSyncingResult(c, finalized, head, env)
           IN  Kept1(d) /\ (Orderly(c) => Kept2(d))
<1> DEFINE a == advance_chain(c, finalized)
           t == attempt_send_awaiting_download_batches(a, env)
           s == IF /\ t.optimistic_start = None
                   /\ head > t.processing_target
                   /\ head \notin t.attempted_optimistic_starts
                THEN [t EXCEPT !.optimistic_start = head, !.syncing = TRUE]
                ELSE [t EXCEPT !.syncing = TRUE]
           d == StartSyncingResult(c, finalized, head, env)
<1>1. Sound(a) /\ (OrderlyBut(c, {}) => OrderlyBut(a, {}))
  BY AdvanceKeeps
<1>2. Orderly(c) => Orderly(a)
  BY <1>1, OrderlyIsBut
<1> HIDE DEF a
<1>3. Kept1(t) /\ (Orderly(a) => Kept2(t))
  BY <1>1, AttemptSendKeeps
<1>4. d = IF t.result = "keep" THEN RequestAndProcess(s, env) ELSE t
  BY DEF StartSyncingResult, Then, a
<1>5. CASE t.result # "keep"
  <2>1. d = t
    BY <1>4, <1>5
  <2> HIDE DEF t
  <2> QED
    BY <1>2, <1>3, <2>1
<1>6. CASE t.result = "keep"
  <2>1. Sound(t) /\ (Orderly(c) => Orderly(t))
    BY <1>2, <1>3, <1>6 DEF Kept1, Kept2, Removals
  <2>2. d = RequestAndProcess(s, env)
    BY <1>4, <1>6
  <2> HIDE DEF t
  <2>3. \/ /\ s = [t EXCEPT !.optimistic_start = head, !.syncing = TRUE]
           /\ t.optimistic_start = None /\ head > t.processing_target
           /\ head \notin t.attempted_optimistic_starts
        \/ s = [t EXCEPT !.syncing = TRUE]
    OBVIOUS
  <2> HIDE DEF s
  <2>4. Sound(s) /\ (Orderly(t) => Orderly(s))
    BY <2>1, <2>3, StartedKeeps
  <2> QED
    BY <2>1, <2>2, <2>4, RequestAndProcessKeeps
<1> QED
  BY <1>5, <1>6

LEMMA ResumeKeeps ==
    ASSUME NEW c, Sound(c), NEW env
    PROVE  LET d == ResumeResult(c, env)
           IN  Kept1(d) /\ (Orderly(c) => Kept2(d))
<1> DEFINE t == attempt_send_awaiting_download_batches(c, env)
           d == ResumeResult(c, env)
<1>1. Kept1(t) /\ (Orderly(c) => Kept2(t))
  BY AttemptSendKeeps
<1>2. d = IF t.result = "keep" THEN RequestAndProcess(t, env) ELSE t
  BY DEF ResumeResult, Then
<1> HIDE DEF t
<1>3. CASE t.result # "keep"
  BY <1>1, <1>2, <1>3
<1>4. CASE t.result = "keep"
  <2>1. Sound(t) /\ (Orderly(c) => Orderly(t))
    BY <1>1, <1>4 DEF Kept1, Kept2, Removals
  <2> QED
    BY <1>2, <1>4, <2>1, RequestAndProcessKeeps
<1> QED
  BY <1>3, <1>4

(* A change of the pool of peers, and a stop, leave the batches alone. *)
Touches(c, d) ==
    /\ d \in Chains /\ d.batches = c.batches /\ d.requests = c.requests /\ d.segments = c.segments
    /\ d.to_be_downloaded = c.to_be_downloaded /\ d.processing_target = c.processing_target
    /\ d.start_epoch = c.start_epoch /\ d.optimistic_start = c.optimistic_start
    /\ d.current_processing_batch = c.current_processing_batch
    /\ d.attempted_optimistic_starts = c.attempted_optimistic_starts

LEMMA TouchKeeps ==
    ASSUME NEW c, Sound(c), NEW d, Touches(c, d)
    PROVE  Sound(d) /\ d.result = "keep" /\ (Orderly(c) => Orderly(d))
<1>0. InFlight(c) /\ Current(c) /\ Bounds(c)
  BY DEF Sound
<1>1. InFlight(d) /\ Current(d) /\ Bounds(d)
  BY <1>0 DEF Touches, InFlight, Current, Bounds
<1>2. Orderly(c) => Orderly(d)
  BY DEF Touches, Orderly, Prefix, Buffer, Turns, TurnsBut, HasBatch
<1>3. d \in Chains /\ d.result = "keep"
  BY DEF Touches, Chains
<1> QED
  BY <1>1, <1>2, <1>3 DEF Sound


-----------------------------------------------------------------------------
(***************************************************************************)
(* The inductive invariants.  The first holds always: the chain is sound,  *)
(* or it has been removed.  The second holds as long as the target has not *)
(* overtaken an optimistic batch: the chain is in order, and if it has     *)
(* been removed then for a good reason.                                    *)
(***************************************************************************)
SoundInv == calm \in BOOLEAN /\ (Sound(chain) \/ chain \in [result : Removals])

OrderInv == IF Kept THEN Orderly(chain) ELSE NoWrongState

(* A handler's verdict on the chain, once settled. *)
LEMMA SettleKeeps ==
    ASSUME NEW d, Kept1(d), NEW s, s = Settle(d)
    PROVE  /\ Sound(s) \/ s \in [result : Removals]
           /\ Kept2(d) => IF s.result = "keep" THEN Orderly(s) ELSE s.result \notin WrongStates
<1>1. Sound(d) => d.result = "keep"
  BY DEF Sound, Chains
<1>2. CASE d.result = "keep"
  BY <1>1, <1>2 DEF Settle, Kept1, Kept2, Removals
<1>3. CASE d.result # "keep"
  <2>1. s = [result |-> d.result] /\ d.result \in Removals
    BY <1>1, <1>3 DEF Settle, Kept1
  <2>2. s \in [result : Removals] /\ s.result = d.result
    BY <2>1
  <2> QED
    BY <1>3, <2>1, <2>2 DEF Kept2
<1> QED
  BY <1>2, <1>3

LEMMA KeptIsSound == SoundInv /\ Kept => Sound(chain)
<1>1. \A r \in [result : Removals] : r.result # "keep"
  BY DEF Removals
<1> QED
  BY <1>1 DEF SoundInv, Kept

LEMMA InitSound == Init => SoundInv /\ OrderInv
<1> SUFFICES ASSUME Init  PROVE SoundInv /\ OrderInv
  OBVIOUS
<1>1. PICK peer \in Peers : chain = NewChain(peer)
  BY DEF Init
<1>2. /\ chain.start_epoch = 0 /\ chain.batches = [e \in Epochs |-> NoBatch] /\ chain.peers = {peer}
      /\ chain.to_be_downloaded = 0 /\ chain.processing_target = 0 /\ chain.optimistic_start = None
      /\ chain.attempted_optimistic_starts = {} /\ chain.current_processing_batch = None
      /\ chain.requests = {} /\ chain.segments = {} /\ chain.result = "keep" /\ chain.syncing = FALSE
  BY <1>1 DEF NewChain
<1>3. 0 \in Epochs /\ 0 \in 0..(MaxEpoch + 1) /\ None \notin Epochs /\ Epochs \subseteq Nat
  BY ConstantsAssumption DEF Epochs, None
<1>4. chain \in Chains
  <2>1. [e \in Epochs |-> NoBatch] \in [Epochs -> BatchType \cup {NoBatch}]
    OBVIOUS
  <2> HIDE DEF NoBatch
  <2> QED
    BY <1>1, <1>3, <2>1 DEF NewChain, Chains
<1>5. \A e \in Epochs : chain.batches[e].state = "vacant" /\ chain.batches[e].id = None
                        /\ ~HasBatch(chain, e)
  BY <1>2, NoBatchFacts DEF HasBatch
<1>6. InFlight(chain) /\ Current(chain)
  BY <1>2, <1>3, <1>5 DEF InFlight, Current
<1>7. Bounds(chain)
  BY <1>2, <1>5 DEF Bounds, HasBatch
<1>8. Prefix(chain)
  <2>1. \A e \in Epochs : ~(e < chain.processing_target)
    BY <1>2, <1>3
  <2> QED
    BY <2>1 DEF Prefix
<1>9. Buffer(chain)
  BY <1>2, <1>3, <1>5 DEF Buffer
<1>10. Turns(chain)
  BY <1>2, <1>5 DEF Turns, TurnsBut
<1> QED
  BY <1>2, <1>4, <1>6, <1>7, <1>8, <1>9, <1>10 DEF Init, SoundInv, OrderInv, Sound, Orderly, Kept


(* Every handler keeps both; the second, from a state not overtaken. *)
LEMMA NextKeeps ==
    ASSUME SoundInv, [Next]_vars
    PROVE  SoundInv' /\ (OrderInv /\ ~Overtaken => OrderInv')
<1> DEFINE Done(d) == chain' = Settle(d) /\ Kept1(d) /\ (Orderly(chain) /\ ~OvertakenIn(chain) => Kept2(d))
<1>0. calm \in BOOLEAN
  BY DEF SoundInv
<1>1. \A d : Kept /\ calm' \in BOOLEAN /\ Done(d) => SoundInv' /\ (OrderInv /\ ~Overtaken => OrderInv')
  <2> SUFFICES ASSUME NEW d, Kept, calm' \in BOOLEAN, Done(d)
               PROVE  SoundInv' /\ (OrderInv /\ ~Overtaken => OrderInv')
    OBVIOUS
  <2>1. /\ Sound(chain') \/ chain' \in [result : Removals]
        /\ Kept2(d) => IF chain'.result = "keep" THEN Orderly(chain') ELSE chain'.result \notin WrongStates
    BY SettleKeeps
  <2>2. OrderInv /\ ~Overtaken => Orderly(chain) /\ ~OvertakenIn(chain)
    BY DEF OrderInv, Overtaken, OvertakenIn, Kept
  <2>3. SoundInv'
    BY <2>1 DEF SoundInv
  <2>4. Kept2(d) => OrderInv'
    BY <2>1 DEF OrderInv, NoWrongState, WrongStates, Kept
  <2> QED
    BY <2>2, <2>3, <2>4
<1>2. ASSUME NEW finalized \in Epochs, NEW head \in Epochs, StartSyncing(finalized, head)
      PROVE  SoundInv' /\ (OrderInv /\ ~Overtaken => OrderInv')
  <2>1. PICK env \in Env : chain' = Settle(StartSyncingResult(chain, finalized, head, env))
    BY <1>2 DEF StartSyncing
  <2>2. Done(StartSyncingResult(chain, finalized, head, env))
    BY <1>2, <2>1, KeptIsSound, StartSyncingKeeps DEF StartSyncing
  <2> QED
    BY <1>0, <1>1, <1>2, <2>2 DEF StartSyncing
<1>3. ASSUME StopSyncing
      PROVE  SoundInv' /\ (OrderInv /\ ~Overtaken => OrderInv')
  <2>1. Sound(chain) /\ chain \in Chains
    BY <1>3, KeptIsSound DEF StopSyncing, Sound
  <2>2. Touches(chain, chain')
    BY <1>3, <2>1 DEF StopSyncing, Chains, Touches
  <2>3. Sound(chain') /\ chain'.result = "keep" /\ (Orderly(chain) => Orderly(chain'))
    BY <2>1, <2>2, TouchKeeps
  <2>4. Done(chain')
    BY <2>3 DEF Settle, Kept1, Kept2
  <2> QED
    BY <1>0, <1>1, <1>3, <2>4 DEF StopSyncing
<1>4. ASSUME NEW peer \in Peers, AddPeer(peer)
      PROVE  SoundInv' /\ (OrderInv /\ ~Overtaken => OrderInv')
  <2> DEFINE p == [chain EXCEPT !.peers = @ \cup {peer}]
  <2>1. PICK env \in Env : chain' = Settle(request_batches(p, env))
    BY <1>4 DEF AddPeer
  <2>2. Sound(chain) /\ chain \in Chains
    BY <1>4, KeptIsSound DEF AddPeer, Sound
  <2>3. Touches(chain, p)
    <3>1. chain.peers \cup {peer} \in SUBSET Peers
      BY <2>2 DEF Chains
    <3> QED
      BY <2>2, <3>1 DEF Chains, Touches
  <2> HIDE DEF p
  <2>4. Sound(p) /\ (Orderly(chain) => Orderly(p))
    BY <2>2, <2>3, TouchKeeps
  <2>5. Done(request_batches(p, env))
    BY <2>1, <2>4, RequestKeeps
  <2> QED
    BY <1>0, <1>1, <1>4, <2>5 DEF AddPeer
<1>5. ASSUME NEW peer \in Peers, RemovePeer(peer)
      PROVE  SoundInv' /\ (OrderInv /\ ~Overtaken => OrderInv')
  <2> DEFINE rest == chain.peers \ {peer}
             p == [chain EXCEPT !.peers = rest, !.result = IF rest = {} THEN "EmptyPeerPool" ELSE @]
  <2>1. chain' = Settle(p)
    BY <1>5 DEF RemovePeer
  <2>2. Sound(chain) /\ chain \in Chains
    BY <1>5, KeptIsSound DEF RemovePeer, Sound
  <2>3. CASE rest = {}
    <3>1. p.result = "EmptyPeerPool"
      BY <2>2, <2>3 DEF Chains
    <3>2. Done(p)
      BY <2>1, <3>1 DEF Kept1, Kept2, Removals, WrongStates
    <3> QED
      BY <1>0, <1>1, <1>5, <3>2 DEF RemovePeer
  <2>4. CASE rest # {}
    <3>1. Touches(chain, p)
      BY <2>2, <2>4 DEF Chains, Touches
    <3> HIDE DEF p
    <3>2. Sound(p) /\ p.result = "keep" /\ (Orderly(chain) => Orderly(p))
      BY <2>2, <3>1, TouchKeeps
    <3>3. Done(p)
      BY <2>1, <3>2 DEF Kept1, Kept2
    <3> QED
      BY <1>0, <1>1, <1>5, <3>3 DEF RemovePeer
  <2> QED
    BY <2>3, <2>4
<1>6. ASSUME NEW request \in Requests, NEW blocks \in BOOLEAN, OnBlockResponse(request, blocks)
      PROVE  SoundInv' /\ (OrderInv /\ ~Overtaken => OrderInv')
  <2> DEFINE R(env) == BlockResponseResult([chain EXCEPT !.requests = @ \ {request}], request, blocks, env)
  <2>1. PICK env \in Env : chain' = Settle(R(env))
    BY <1>6 DEF OnBlockResponse
  <2>2. Kept1(R(env)) /\ (Orderly(chain) => Kept2(R(env)))
    BY <1>6, KeptIsSound, BlockResponseKeeps DEF OnBlockResponse
  <2>3. Done(R(env))
    BY <2>1, <2>2
  <2> QED
    BY <1>0, <1>1, <1>6, <2>3 DEF OnBlockResponse
<1>7. ASSUME NEW request \in Requests, InjectError(request)
      PROVE  SoundInv' /\ (OrderInv /\ ~Overtaken => OrderInv')
  <2> DEFINE R(env) == ErrorResult([chain EXCEPT !.requests = @ \ {request}], request, env)
  <2>1. PICK env \in Env : chain' = Settle(R(env))
    BY <1>7 DEF InjectError
  <2>2. Kept1(R(env)) /\ (Orderly(chain) => Kept2(R(env)))
    BY <1>7, KeptIsSound, ErrorKeeps DEF InjectError
  <2>3. Done(R(env))
    BY <2>1, <2>2
  <2> QED
    BY <1>0, <1>1, <1>7, <2>3 DEF InjectError
<1>8. ASSUME NEW request \in Requests, NEW retried \in BOOLEAN, InjectCouplingError(request, retried)
      PROVE  SoundInv' /\ (OrderInv /\ ~Overtaken => OrderInv')
  <2> DEFINE r == retry_partial_batch([chain EXCEPT !.requests = @ \ {request}], request, retried)
  <2>1. Kept1(r) /\ (Orderly(chain) => Kept2(r))
    BY <1>8, KeptIsSound, RetryPartialKeeps DEF InjectCouplingError
  <2>2. Done(r)
    BY <1>8, <2>1 DEF InjectCouplingError
  <2> QED
    BY <1>0, <1>1, <1>8, <2>2 DEF InjectCouplingError
<1>9. ASSUME NEW e \in Epochs, NEW verdict \in Verdicts(TRUE), OnBatchProcessResult(e, verdict)
      PROVE  SoundInv' /\ (OrderInv /\ ~Overtaken => OrderInv')
  <2> DEFINE R(env) == ProcessResult([chain EXCEPT !.segments = @ \ {e}], e, verdict, env)
  <2>1. PICK env \in Env : chain' = Settle(R(env))
    BY <1>9 DEF OnBatchProcessResult
  <2>2. Kept1(R(env)) /\ (Orderly(chain) /\ ~OvertakenIn(chain) => Kept2(R(env)))
    BY <1>9, KeptIsSound, ProcessResultKeeps DEF OnBatchProcessResult
  <2>3. Done(R(env))
    BY <2>1, <2>2
  <2> QED
    BY <1>0, <1>1, <1>9, <2>3 DEF OnBatchProcessResult
<1>10. ASSUME Resume
       PROVE  SoundInv' /\ (OrderInv /\ ~Overtaken => OrderInv')
  <2>1. PICK env \in Env : chain' = Settle(ResumeResult(chain, env))
    BY <1>10 DEF Resume
  <2>2. Done(ResumeResult(chain, env))
    BY <1>10, <2>1, KeptIsSound, ResumeKeeps DEF Resume
  <2> QED
    BY <1>0, <1>1, <1>10, <2>2 DEF Resume
<1>11. ASSUME CalmDown \/ UNCHANGED vars
       PROVE  SoundInv' /\ (OrderInv /\ ~Overtaken => OrderInv')
  BY <1>11 DEF CalmDown, vars, SoundInv, OrderInv, Kept, NoWrongState
<1> QED
  BY <1>2, <1>3, <1>4, <1>5, <1>6, <1>7, <1>8, <1>9, <1>10, <1>11 DEF Next


-----------------------------------------------------------------------------
(***************************************************************************)
(* Every chain that is kept is sound: of the right type, with a request in *)
(* flight exactly for the batches that are Downloading, and one batch at   *)
(* most with the processor.                                                *)
(***************************************************************************)
THEOREM ChainsAreSound == Spec => []SoundInv
<1>1. Init => SoundInv
  BY InitSound
<1>2. SoundInv /\ [Next]_vars => SoundInv'
  BY NextKeeps
<1> QED
  BY <1>1, <1>2, PTL DEF Spec

(***************************************************************************)
(* Whatever the handlers do, the chain and each of its batches have the    *)
(* type of SyncingChain and BatchInfo, and no batch is kept that has used  *)
(* up its attempts.                                                        *)
(***************************************************************************)
THEOREM TypeCorrect == Spec => []TypeOK
<1>1. SoundInv => TypeOK
  BY DEF SoundInv, TypeOK, Sound
<1> QED
  BY <1>1, ChainsAreSound, PTL

(***************************************************************************)
(* A batch is Downloading exactly when the request it names is in flight:  *)
(* no stop, start, dropped batch, partial retry or late answer leaves it   *)
(* waiting for an answer that cannot come.                                 *)
(***************************************************************************)
THEOREM DownloadsInFlight == Spec => []DownloadsAreInFlight
<1>1. SoundInv => DownloadsAreInFlight
  <2> SUFFICES ASSUME SoundInv, Kept, NEW e \in Epochs
               PROVE  /\ (chain.batches[e].state = "Downloading") <=> (chain.batches[e].id # None)
                      /\ chain.batches[e].id # None => <<e, chain.batches[e].id>> \in chain.requests
                      /\ HasBatch(chain, e) =>
                            \A request \in chain.requests :
                                request[1] = e => request[2] = chain.batches[e].id
    BY DEF DownloadsAreInFlight
  <2>1. InFlight(chain) /\ Bounds(chain)
    BY KeptIsSound DEF Sound
  <2>2. 1 # None
    BY DEF None
  <2>3. ASSUME HasBatch(chain, e), NEW request \in chain.requests, request[1] = e
        PROVE  request[2] = chain.batches[e].id
    <3>1. request = <<e, 1>> /\ request[2] = 1
      BY <2>1, <2>3 DEF InFlight
    <3>2. ~(e < chain.start_epoch)
      BY <2>1, <2>3 DEF Bounds, HasBatch
    <3> QED
      BY <2>1, <3>1, <3>2 DEF InFlight
  <2> QED
    BY <2>1, <2>2, <2>3 DEF InFlight
<1> QED
  BY <1>1, ChainsAreSound, PTL

(***************************************************************************)
(* At most one batch is Processing, it is the current one and the beacon   *)
(* processor holds it: the result that comes back is that batch's.         *)
(***************************************************************************)
THEOREM OneAtATime == Spec => []OneBatchProcessing
<1>1. SoundInv => OneBatchProcessing
  BY KeptIsSound DEF OneBatchProcessing, Sound, Current
<1> QED
  BY <1>1, ChainsAreSound, PTL

(***************************************************************************)
(* As long as the target does not overtake an optimistic batch, a kept     *)
(* chain is in order.                                                      *)
(***************************************************************************)
THEOREM ChainsAreOrderly == Spec => ([]~Overtaken => []OrderInv)
<1>1. Init => OrderInv
  BY InitSound
<1>2. SoundInv /\ OrderInv /\ ~Overtaken /\ [Next]_vars => OrderInv'
  BY NextKeeps
<1> QED
  BY <1>1, <1>2, ChainsAreSound, PTL DEF Spec

(***************************************************************************)
(* The removal reasons WrongBatchState and WrongChainState, which the code *)
(* logs as critical, are unreachable unless the target overtakes an        *)
(* optimistic batch.                                                       *)
(***************************************************************************)
THEOREM NeverCritical == Spec => NoCriticalRemoval
<1>1. OrderInv => NoWrongState
  BY DEF OrderInv, NoWrongState, Kept
<1> QED
  BY <1>1, ChainsAreOrderly, PTL DEF NoCriticalRemoval

(***************************************************************************)
(* The comment of handle_invalid_batch, "All previous batches must be      *)
(* awaiting validation", holds of every batch between the start of the     *)
(* chain and its target, unless the target overtakes an optimistic batch.  *)
(***************************************************************************)
THEOREM PrefixIsProcessed == Spec => ProcessedPrefix
<1>1. SoundInv /\ OrderInv => PreviousAwaitValidation
  <2> SUFFICES ASSUME SoundInv, OrderInv, Kept,
                      NEW e \in chain.start_epoch..(chain.processing_target - 1)
               PROVE  chain.batches[e].state = "AwaitingValidation"
    BY DEF PreviousAwaitValidation
  <2>1. /\ chain.start_epoch \in Epochs /\ chain.processing_target \in 0..(MaxEpoch + 1)
        /\ MaxEpoch \in Nat
    BY KeptIsSound, ConstantsAssumption DEF Sound, Chains
  <2>2. e \in Epochs /\ chain.start_epoch <= e /\ e < chain.processing_target
    BY <2>1 DEF Epochs
  <2> QED
    BY <2>2 DEF OrderInv, Orderly, Prefix
<1> QED
  BY <1>1, ChainsAreSound, ChainsAreOrderly, PTL DEF ProcessedPrefix

(***************************************************************************)
(* What that comment is used for: when handle_invalid_batch fails all      *)
(* batches before the current one, each of them awaits validation, unless  *)
(* the target overtakes an optimistic batch.                               *)
(***************************************************************************)
THEOREM TargetIsRobust == Spec => ([]~Overtaken => []RobustTarget)
<1>1. SoundInv /\ OrderInv => RobustTarget
  <2> SUFFICES ASSUME SoundInv, OrderInv, Kept,
                      chain.current_processing_batch \notin {None, chain.optimistic_start},
                      NEW e \in Epochs, e < chain.current_processing_batch, HasBatch(chain, e)
               PROVE  chain.batches[e].state = "AwaitingValidation"
    BY DEF RobustTarget
  <2>1. Bounds(chain) /\ chain.start_epoch \in Nat /\ e \in Nat
    BY KeptIsSound, ConstantsAssumption DEF Sound, Chains, Epochs
  <2>2. chain.start_epoch <= e
    BY <2>1 DEF Bounds, HasBatch
  <2>3. e < chain.processing_target
    BY DEF OrderInv, Orderly, Turns, TurnsBut
  <2> QED
    BY <2>2, <2>3 DEF OrderInv, Orderly, Prefix
<1> QED
  BY <1>1, ChainsAreSound, ChainsAreOrderly, PTL

(***************************************************************************)
(* advance_chain and the loops over include_next_batch never step over an  *)
(* epoch that has no batch, unless the target overtakes an optimistic      *)
(* batch.                                                                  *)
(***************************************************************************)
THEOREM NothingSkipped == Spec => NoSkippedBatch
<1>1. SoundInv /\ OrderInv => EveryEpochHasABatch
  <2> SUFFICES ASSUME SoundInv, OrderInv, Kept,
                      NEW e \in chain.processing_target..(chain.to_be_downloaded - 1), e < Target
               PROVE  HasBatch(chain, e)
    BY DEF EveryEpochHasABatch
  <2>1. /\ chain.start_epoch \in Nat /\ chain.processing_target \in Nat
        /\ chain.to_be_downloaded \in Nat /\ chain.start_epoch <= chain.processing_target
    BY KeptIsSound DEF Sound, Chains, Bounds, Epochs
  <2>2. e \in Epochs /\ chain.start_epoch <= e /\ e < chain.to_be_downloaded
    BY <2>1, ConstantsAssumption DEF Epochs
  <2> QED
    BY <2>2 DEF OrderInv, Orderly, Buffer
<1> QED
  BY <1>1, ChainsAreSound, ChainsAreOrderly, PTL DEF NoSkippedBatch

=============================================================================
