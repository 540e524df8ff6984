---------------------------- MODULE SyncingChain ----------------------------
(***************************************************************************)
(* One chain of range sync: the batches of `BatchInfo` (batch.rs) and the  *)
(* `SyncingChain` that downloads, processes and validates them (chain.rs). *)
(*                                                                         *)
(* The chain is one record.  A method of the code is an operator from the  *)
(* record (and the state of the outside world it is called in, `env`) to   *)
(* the record it leaves; the field `result` is the method's ProcessingResult, *)
(* "keep" or a reason to remove the chain, and Then is the `?` operator.   *)
(* A batch covers EPOCHS_PER_BATCH = 1 epoch and is named by its epoch.    *)
(* Blocks are reduced to whether a batch has any.  The penalties of peers  *)
(* are left out: nothing in this component reads them back.                *)
(***************************************************************************)
EXTENDS Integers, FiniteSets

CONSTANTS
    Target,             \* the first epoch that starts at or after target_head_slot
    MaxEpoch,           \* bound: the latest epoch of a local head
    Peers,
    BATCH_BUFFER_SIZE,
    MAX_BATCH_DOWNLOAD_ATTEMPTS,
    MAX_BATCH_PROCESSING_ATTEMPTS

ASSUME ConstantsAssumption ==
    /\ Target \in Nat /\ MaxEpoch \in Nat /\ Target <= MaxEpoch + 1
    /\ BATCH_BUFFER_SIZE \in Nat
    /\ MAX_BATCH_DOWNLOAD_ATTEMPTS \in Nat \ {0}
    /\ MAX_BATCH_PROCESSING_ATTEMPTS \in Nat \ {0}

VARIABLES
    chain,              \* the SyncingChain, and what it has outstanding outside
    calm                \* the outside has stopped failing

vars == <<chain, calm>>

Epochs == 0..MaxEpoch
None == -1

BatchStates == {"AwaitingDownload", "Downloading", "AwaitingProcessing",
                "Processing", "AwaitingValidation", "Failed"}

(* No batch in the map. *)
NoBatch == [state |-> "vacant", id |-> None, blocks |-> FALSE, downloads |-> 0, attempts |-> 0]

(* BatchInfo::new *)
NewBatch == [NoBatch EXCEPT !.state = "AwaitingDownload"]

(***************************************************************************)
(* SyncingChain::new, for a chain that starts at epoch 0.  `requests` are  *)
(* the by-range requests the network still has to answer, `segments` the   *)
(* batches the beacon processor holds.                                     *)
(***************************************************************************)
NewChain(peer) ==
    [start_epoch |-> 0, batches |-> [e \in Epochs |-> NoBatch], peers |-> {peer},
     to_be_downloaded |-> 0, processing_target |-> 0,
     optimistic_start |-> None, attempted_optimistic_starts |-> {},
     syncing |-> FALSE, current_processing_batch |-> None,
     requests |-> {}, segments |-> {}, result |-> "keep"]

(***************************************************************************)
(* What a call finds outside: the channel to the network closed for good,  *)
(* the queue of the processor full, the processor disabled while the       *)
(* execution engine is offline, or everything up.                          *)
(***************************************************************************)
Up == [network |-> TRUE, processor |-> TRUE, engine |-> TRUE]
Env == IF calm THEN {Up}
       ELSE {Up, [Up EXCEPT !.network = FALSE], [Up EXCEPT !.processor = FALSE],
             [Up EXCEPT !.engine = FALSE]}

-----------------------------------------------------------------------------
Then(c, next) == IF c.result = "keep" THEN next ELSE c

RemoveChain(c, reason) == [c EXCEPT !.result = reason]

HasBatch(c, e) == e \in Epochs /\ c.batches[e] # NoBatch

(***************************************************************************)
(* The transitions of a batch.  Each expects one state and reports         *)
(* WrongState in any other.                                                *)
(***************************************************************************)
Transition(c, e, expected, b) ==
    IF c.batches[e].state = expected
    THEN [c EXCEPT !.batches[e] = b]
    ELSE RemoveChain(c, "WrongBatchState")

NextTry_OffByOne(failures, limit) == IF failures > limit THEN "Failed" ELSE "AwaitingDownload"

NextTry(failures, limit) == IF failures >= limit THEN "Failed" ELSE "AwaitingDownload"

start_downloading(b, id) == [b EXCEPT !.state = "Downloading", !.id = id]

download_completed(c, e, blocks) ==
    Transition(c, e, "Downloading",
               [c.batches[e] EXCEPT !.state = "AwaitingProcessing", !.id = None, !.blocks = blocks])

download_failed(c, e) ==
    Transition(c, e, "Downloading",
               [c.batches[e] EXCEPT
                  !.state = NextTry(c.batches[e].downloads + 1, MAX_BATCH_DOWNLOAD_ATTEMPTS),
                  !.id = None, !.downloads = @ + 1])

downloading_to_awaiting_download(c, e) ==
    Transition(c, e, "Downloading",
               [c.batches[e] EXCEPT !.state = "AwaitingDownload", !.id = None])

start_processing(c, e) ==
    Transition(c, e, "AwaitingProcessing", [c.batches[e] EXCEPT !.state = "Processing"])

Reattempt(b) == [b EXCEPT !.state = NextTry(b.attempts + 1, MAX_BATCH_PROCESSING_ATTEMPTS),
                          !.blocks = FALSE, !.attempts = @ + 1]

processing_completed(c, e, verdict) ==
    LET b == c.batches[e]
    IN  Transition(c, e, "Processing",
            CASE verdict = "Success" -> [b EXCEPT !.state = "AwaitingValidation", !.blocks = FALSE]
              [] verdict = "FaultyFailure" -> Reattempt(b)
              [] verdict = "NonFaultyFailure" -> [b EXCEPT !.state = "AwaitingDownload", !.blocks = FALSE])

(* A batch out of attempts ends its chain; `outcome` says whether the      *)
(* chain is blacklisted.                                                   *)
Outcome(c, b) ==
    RemoveChain(c, IF b.attempts > b.downloads THEN "ChainFailedAndBlacklisted" ELSE "ChainFailed")

CheckOutcome(c, e) ==
    IF c.batches[e].state = "Failed" THEN Outcome(c, c.batches[e]) ELSE c

(* The batches before `e` fail their validation, in order: the first that  *)
(* is in no state to fail it, or out of attempts, ends the chain.          *)
validation_failed(c, e) ==
    LET before == {d \in Epochs : d < e /\ HasBatch(c, d)}
        retried == [d \in before |-> Reattempt(c.batches[d])]
        Ends(d) == c.batches[d].state # "AwaitingValidation" \/ retried[d].state = "Failed"
    IN  IF \A d \in before : ~Ends(d)
        THEN [c EXCEPT !.batches = [d \in Epochs |-> IF d \in before THEN retried[d] ELSE @[d]]]
        ELSE LET first == CHOOSE d \in before : Ends(d) /\ \A f \in before : f < d => ~Ends(f)
             IN  IF c.batches[first].state # "AwaitingValidation"
                 THEN RemoveChain(c, "WrongBatchState")
                 ELSE Outcome(c, retried[first])

-----------------------------------------------------------------------------
(***************************************************************************)
(* Requests.  The network gives every request an id that no request in     *)
(* flight carries.                                                         *)
(***************************************************************************)
NextId(c, e) == CHOOSE n \in 1..(Cardinality(c.requests) + 1) :
                    /\ <<e, n>> \notin c.requests
                    /\ \A m \in 1..(n - 1) : <<e, m>> \in c.requests

(***************************************************************************)
(* send_batch on every batch of S, in order.  A request fails to be sent   *)
(* only once the channel to the network is closed; then every retry of the *)
(* first batch fails as well, and the chain with it.                       *)
(***************************************************************************)
SendBatches(c, S, env) ==
    LET first == CHOOSE e \in S : \A d \in S : e <= d
    IN  IF S = {} \/ c.peers = {} THEN c
        ELSE IF \E e \in S : c.batches[e].state # "AwaitingDownload"
        THEN RemoveChain(c, "WrongBatchState")
        ELSE IF env.network
        THEN [c EXCEPT
                !.requests = @ \cup {<<e, NextId(c, e)>> : e \in S},
                !.batches = [e \in Epochs |-> IF e \in S THEN start_downloading(@[e], NextId(c, e))
                                              ELSE @[e]]]
        ELSE Outcome(c, [c.batches[first] EXCEPT !.downloads = MAX_BATCH_DOWNLOAD_ATTEMPTS])

send_batch(c, e, env) == SendBatches(c, {e} \cap {d \in Epochs : HasBatch(c, d)}, env)

attempt_send_awaiting_download_batches(c, env) ==
    SendBatches(c, {e \in Epochs : c.batches[e].state = "AwaitingDownload"}, env)

Buffered(c) ==
    Cardinality({e \in Epochs : c.batches[e].state \in {"Downloading", "AwaitingProcessing"}})

(***************************************************************************)
(* The loop of request_batches over include_next_batch: it creates and     *)
(* sends the batches that are missing from to_be_downloaded on, up to the  *)
(* target or until the ones sent fill the buffer.                          *)
(***************************************************************************)
IncludeBatches(c, env) ==
    LET Missing(n) == {e \in Epochs : c.to_be_downloaded <= e /\ e < n /\ ~HasBatch(c, e)}
        Sent(n) == IF c.peers = {} THEN 0 ELSE Cardinality(Missing(n))
        Stops(n) == n >= Target \/ Buffered(c) + Sent(n) > BATCH_BUFFER_SIZE
        last == CHOOSE n \in c.to_be_downloaded..(c.to_be_downloaded + Target) :
                    Stops(n) /\ \A m \in c.to_be_downloaded..(n - 1) : ~Stops(m)
    IN  SendBatches([c EXCEPT !.to_be_downloaded = last,
                              !.batches = [e \in Epochs |-> IF e \in Missing(last) THEN NewBatch
                                                            ELSE @[e]]],
                    Missing(last), env)

request_batches(c, env) ==
    LET e == c.optimistic_start
    IN  IF ~c.syncing THEN c
        ELSE IF e = None THEN IncludeBatches(c, env)
        ELSE IF HasBatch(c, e) THEN attempt_send_awaiting_download_batches(c, env)
        ELSE send_batch([c EXCEPT !.batches[e] = NewBatch], e, env)

-----------------------------------------------------------------------------
(* Processing *)

(* on_batch_process_result for a NonFaultyFailure of the current batch. *)
NonFaultyFailure(c, e, env) ==
    LET Retry(d) == Then(d, attempt_send_awaiting_download_batches(d, env))
    IN  Retry(processing_completed(c, e, "NonFaultyFailure"))

process_batch(c, e, env) ==
    LET Send(d) ==
            IF env.processor
            THEN [d EXCEPT !.current_processing_batch = e, !.segments = @ \cup {e}]
            ELSE NonFaultyFailure(d, e, env)
        Started(d) == Then(d, Send(d))
    IN  IF ~c.syncing \/ c.current_processing_batch # None \/ ~env.engine THEN c
        ELSE IF ~HasBatch(c, e) THEN RemoveChain(c, "WrongChainState")
        ELSE Started(start_processing(c, e))

StepOver(c, next) ==
    [c EXCEPT !.processing_target = next, !.to_be_downloaded = IF @ <= next THEN next + 1 ELSE @]

(* The processing target: process it, wait for it, or step over an empty   *)
(* optimistic batch that was processed ahead of its turn.                  *)
ProcessTarget(c, env) ==
    LET e == c.processing_target
    IN  IF ~HasBatch(c, e) THEN c
        ELSE CASE c.batches[e].state = "AwaitingProcessing" -> process_batch(c, e, env)
               [] c.batches[e].state \in {"Downloading", "AwaitingDownload"} -> c
               [] c.batches[e].state \in {"Failed", "Processing"} -> RemoveChain(c, "WrongChainState")
               [] c.batches[e].state = "AwaitingValidation" -> request_batches(StepOver(c, e + 1), env)

process_completed_batches(c, env) ==
    LET e == c.optimistic_start
    IN  IF ~c.syncing \/ c.current_processing_batch # None THEN c
        ELSE IF ~HasBatch(c, e) THEN ProcessTarget(c, env)
        ELSE CASE c.batches[e].state = "AwaitingProcessing" -> process_batch(c, e, env)
               [] c.batches[e].state \in {"Downloading", "AwaitingDownload"} -> c
               [] c.batches[e].state \in {"Failed", "Processing"} -> RemoveChain(c, "WrongChainState")
               [] c.batches[e].state = "AwaitingValidation" ->
                      ProcessTarget([c EXCEPT !.optimistic_start = None], env)

(* Go on after a change: request more, and process what is ready. *)
RequestAndProcess(c, env) ==
    LET Process(d) == Then(d, process_completed_batches(d, env))
    IN  Process(request_batches(c, env))

reject_optimistic_batch(c, redownload, env) ==
    LET e == c.optimistic_start
        rejected == [c EXCEPT !.optimistic_start = None, !.attempted_optimistic_starts = @ \cup {e}]
    IN  IF e = None THEN c
        ELSE IF e >= c.to_be_downloaded THEN [rejected EXCEPT !.batches[e] = NoBatch]
        ELSE IF redownload THEN send_batch(rejected, e, env) ELSE rejected

(***************************************************************************)
(* Everything before `epoch` is validated: drop those batches and move the *)
(* bounds of the chain.  Requests for dropped batches stay in flight.      *)
(***************************************************************************)
advance_chain_SkipsAnEpoch(c, epoch) ==
    LET validated == {e \in Epochs : e < epoch}
        next == IF c.to_be_downloaded > epoch THEN c.to_be_downloaded ELSE epoch + 1
    IN  IF epoch <= c.start_epoch THEN c
        ELSE [c EXCEPT
                !.batches = [e \in Epochs |-> IF e \in validated THEN NoBatch ELSE c.batches[e]],
                !.current_processing_batch = IF @ < epoch THEN None ELSE @,
                !.processing_target = IF @ >= epoch THEN @ ELSE epoch,
                !.start_epoch = epoch,
                !.to_be_downloaded = next,
                !.optimistic_start = IF @ <= epoch THEN None ELSE @]

advance_chain_KeepsProcessing(c, epoch) ==
    LET validated == {e \in Epochs : e < epoch}
        next == IF c.to_be_downloaded >= epoch THEN c.to_be_downloaded ELSE epoch
    IN  IF epoch <= c.start_epoch THEN c
        ELSE [c EXCEPT
                !.batches = [e \in Epochs |-> IF e \in validated THEN NoBatch ELSE c.batches[e]],
                !.processing_target = IF @ >= epoch THEN @ ELSE epoch,
                !.start_epoch = epoch,
                !.to_be_downloaded = IF HasBatch(c, next) THEN next + 1 ELSE next,
                !.optimistic_start = IF @ <= epoch THEN None ELSE @]

advance_chain(c, epoch) ==
    LET validated == {e \in Epochs : e < epoch}
        drops == \E e \in validated : /\ c.batches[e].state = "Processing"
                                     /\ e <= c.current_processing_batch
        next == IF c.to_be_downloaded >= epoch THEN c.to_be_downloaded ELSE epoch
    IN  IF epoch <= c.start_epoch THEN c
        ELSE [c EXCEPT
                !.batches = [e \in Epochs |-> IF e \in validated THEN NoBatch ELSE c.batches[e]],
                !.current_processing_batch = IF drops THEN None ELSE @,
                !.processing_target = IF @ >= epoch THEN @ ELSE epoch,
                !.start_epoch = epoch,
                !.to_be_downloaded = IF HasBatch(c, next) THEN next + 1 ELSE next,
                !.optimistic_start = IF @ <= epoch THEN None ELSE @]

handle_invalid_batch_NotOptimistic(c, e, env) ==
    LET Restart(d) == Then(d, attempt_send_awaiting_download_batches(
                                  [d EXCEPT !.processing_target = d.start_epoch], env))
    IN  Restart(validation_failed(c, e))

handle_invalid_batch_KeepsTarget(c, e, env) ==
    LET Restart(d) == Then(d, attempt_send_awaiting_download_batches(d, env))
    IN  IF c.optimistic_start = e
        THEN reject_optimistic_batch(c, TRUE, env)
        ELSE Restart(validation_failed(c, e))

handle_invalid_batch(c, e, env) ==
    LET Restart(d) == Then(d, attempt_send_awaiting_download_batches(
                                  [d EXCEPT !.processing_target = d.start_epoch], env))
    IN  IF c.optimistic_start = e
        THEN reject_optimistic_batch(c, TRUE, env)
        ELSE Restart(validation_failed(c, e))

(* A batch was processed: advance, reject or complete, and go on. *)
Succeeded(c, e, blocks, env) ==
    LET Tried(d) == [d EXCEPT !.attempted_optimistic_starts = @ \cup {e}]
        Validate(d) ==
            IF blocks THEN Tried(advance_chain(d, e))
            ELSE IF d.optimistic_start = e THEN reject_optimistic_batch(d, FALSE, env)
            ELSE d
        MoveTarget(d) ==
            IF d.processing_target = e THEN [d EXCEPT !.processing_target = e + 1] ELSE d
        Continue(d) ==
            IF d.processing_target >= Target THEN RemoveChain(d, "ChainCompleted")
            ELSE RequestAndProcess(d, env)
        Finish(d) == Then(d, Continue(MoveTarget(Validate(d))))
    IN  Finish(processing_completed(c, e, "Success"))

Failed(c, e, imported, env) ==
    LET Handle(d) ==
            IF d.batches[e].state = "Failed" THEN Outcome([d EXCEPT !.peers = {}], d.batches[e])
            ELSE handle_invalid_batch(IF imported THEN advance_chain(d, e) ELSE d, e, env)
        Finish(d) == Then(d, Handle(d))
    IN  Finish(processing_completed(c, e, "FaultyFailure"))

-----------------------------------------------------------------------------
(***************************************************************************)
(* The handlers.                                                           *)
(***************************************************************************)
Init ==
    /\ \E peer \in Peers : chain = NewChain(peer)
    /\ calm = FALSE

Kept == chain.result = "keep"

(* A chain its handler asks to remove is dropped, with its requests. *)
Settle(c) == IF c.result = "keep" THEN c ELSE [result |-> c.result]

StartSyncingResult_NoResend(c, finalized, head, env) ==
    RequestAndProcess([advance_chain(c, finalized) EXCEPT !.syncing = TRUE], env)

StartSyncingResult(c, finalized, head, env) ==
    LET OptimisticStart(d) ==
            IF /\ d.optimistic_start = None
               /\ head > d.processing_target
               /\ head \notin d.attempted_optimistic_starts
            THEN [d EXCEPT !.optimistic_start = head, !.syncing = TRUE]
            ELSE [d EXCEPT !.syncing = TRUE]
        GoOn(d) == Then(d, RequestAndProcess(OptimisticStart(d), env))
    IN  GoOn(attempt_send_awaiting_download_batches(advance_chain(c, finalized), env))

(* ChainCollection::update starts the chain again on every status of a     *)
(* peer; an outdated chain is purged before.                               *)
StartSyncing(finalized, head) ==
    /\ Kept
    /\ finalized < Target /\ finalized <= head
    /\ \E env \in Env : chain' = Settle(StartSyncingResult(chain, finalized, head, env))
    /\ UNCHANGED calm

StopSyncing ==
    /\ Kept
    /\ chain' = [chain EXCEPT !.syncing = FALSE]
    /\ UNCHANGED calm

AddPeer(peer) ==
    /\ Kept
    /\ \E env \in Env :
          chain' = Settle(request_batches([chain EXCEPT !.peers = @ \cup {peer}], env))
    /\ UNCHANGED calm

RemovePeer(peer) ==
    /\ Kept
    /\ LET rest == chain.peers \ {peer}
       IN  chain' = Settle([chain EXCEPT !.peers = rest,
                                         !.result = IF rest = {} THEN "EmptyPeerPool" ELSE @])
    /\ UNCHANGED calm

is_expecting_request_id(c, request) == c.batches[request[1]].id = request[2]

(* The answer to a request: the batch's blocks, or none at all. *)
BlockResponseResult(c, request, blocks, env) ==
    LET GoOn(d) == Then(d, RequestAndProcess(d, env))
    IN  IF ~HasBatch(c, request[1]) \/ ~is_expecting_request_id(c, request) THEN c
        ELSE GoOn(download_completed(c, request[1], blocks))

OnBlockResponse(request, blocks) ==
    /\ Kept
    /\ request \in chain.requests
    /\ \E env \in Env :
          chain' = Settle(BlockResponseResult([chain EXCEPT !.requests = @ \ {request}],
                                              request, blocks, env))
    /\ UNCHANGED calm

(* The request failed: the peer timed out, disconnected, or sent an error  *)
(* or blobs that do not fit the blocks.                                    *)
ErrorResult(c, request, env) ==
    LET Check(d) == Then(d, CheckOutcome(d, request[1]))
        Resend(d) == Then(d, attempt_send_awaiting_download_batches(d, env))
    IN  IF ~HasBatch(c, request[1]) \/ ~is_expecting_request_id(c, request) THEN c
        ELSE Resend(Check(download_failed(c, request[1])))

InjectError(request) ==
    /\ Kept
    /\ request \in chain.requests
    /\ \E env \in Env :
          chain' = Settle(ErrorResult([chain EXCEPT !.requests = @ \ {request}],
                                      request, env))
    /\ UNCHANGED calm

(* The data columns do not couple with the blocks: those columns alone are *)
(* asked for again, under the same id, if a peer is found for them.        *)
retry_partial_batch_StaysDownloading(c, request, retried) ==
    IF retried THEN [c EXCEPT !.requests = @ \cup {request}] ELSE c

retry_partial_batch(c, request, retried) ==
    LET Retry(d) ==
            IF retried
            THEN [d EXCEPT !.requests = @ \cup {request},
                           !.batches[request[1]] = start_downloading(@, request[2])]
            ELSE d
        Finish(d) == Then(d, Retry(d))
    IN  IF ~HasBatch(c, request[1]) THEN c
        ELSE Finish(downloading_to_awaiting_download(c, request[1]))

InjectCouplingError(request, retried) ==
    /\ Kept
    /\ calm => retried
    /\ request \in chain.requests
    /\ chain' = Settle(retry_partial_batch([chain EXCEPT !.requests = @ \ {request}],
                                          request, retried))
    /\ UNCHANGED calm

(***************************************************************************)
(* The processor's verdict on a batch.  An empty segment always succeeds;  *)
(* a faulty one may have imported a prefix of its blocks.                  *)
(***************************************************************************)
Verdicts(blocks) ==
    IF blocks THEN {"Success", "Faulty", "FaultyAfterImport", "NonFaulty"} ELSE {"Success"}

BatchProcessResult(c, e, verdict, blocks, env) ==
    CASE verdict = "Success" -> Succeeded(c, e, blocks, env)
      [] verdict = "Faulty" -> Failed(c, e, FALSE, env)
      [] verdict = "FaultyAfterImport" -> Failed(c, e, TRUE, env)
      [] verdict = "NonFaulty" -> NonFaultyFailure(c, e, env)

ProcessResult(c, e, verdict, env) ==
    IF c.current_processing_batch # e THEN c
    ELSE IF ~HasBatch(c, e) THEN RemoveChain(c, "WrongChainState")
    ELSE BatchProcessResult([c EXCEPT !.current_processing_batch = None],
                            e, verdict, c.batches[e].blocks, env)

OnBatchProcessResult(e, verdict) ==
    /\ Kept
    /\ e \in chain.segments
    /\ verdict \in Verdicts(chain.batches[e].blocks) \ (IF calm THEN {"NonFaulty"} ELSE {})
    /\ \E env \in Env :
          chain' = Settle(ProcessResult([chain EXCEPT !.segments = @ \ {e}],
                                        e, verdict, env))
    /\ UNCHANGED calm

(* RangeSync::resume, on every chain of the collection: the execution      *)
(* engine is back online, or a peer serves more columns.                   *)
ResumeResult(c, env) ==
    LET GoOn(d) == Then(d, RequestAndProcess(d, env))
    IN  GoOn(attempt_send_awaiting_download_batches(c, env))

Resume ==
    /\ Kept
    /\ \E env \in Env : chain' = Settle(ResumeResult(chain, env))
    /\ UNCHANGED calm

CalmDown ==
    /\ ~calm
    /\ calm' = TRUE
    /\ UNCHANGED chain

Requests == Epochs \X (1..2)

Next ==
    \/ \E finalized, head \in Epochs : StartSyncing(finalized, head)
    \/ StopSyncing
    \/ \E peer \in Peers : AddPeer(peer) \/ RemovePeer(peer)
    \/ \E request \in Requests :
          \/ \E blocks \in BOOLEAN : OnBlockResponse(request, blocks)
          \/ InjectError(request)
          \/ \E retried \in BOOLEAN : InjectCouplingError(request, retried)
    \/ \E e \in Epochs, verdict \in Verdicts(TRUE) : OnBatchProcessResult(e, verdict)
    \/ Resume
    \/ CalmDown

(***************************************************************************)
(* Progress.  From some moment on the outside is up.  Then a peer's status *)
(* starts the chain again whenever that changes anything, every request is *)
(* answered or fails, and the current batch is processed.  Each conjunct   *)
(* is weak fairness, the condition that enables the action written out.    *)
(*                                                                         *)
(* That every request is answered or fails is an assumption on the peers   *)
(* where its data columns are deferred: no column is requested, so nothing *)
(* times out, until custody peers are known and try_send_deferred_columns, *)
(* called when a peer is added or syncing resumes, sends the requests.     *)
(***************************************************************************)
AfterStatus == Settle(StartSyncingResult(chain, 0, 0, Up))
Status == calm /\ Kept /\ chain' = AfterStatus

Answer(e) == \E request \in Requests :
                /\ calm /\ request[1] = e
                /\ InjectError(request) \/ \E blocks \in BOOLEAN : OnBlockResponse(request, blocks)

Verdict == \E e \in Epochs, verdict \in Verdicts(TRUE) :
              /\ calm /\ e = chain.current_processing_batch
              /\ OnBatchProcessResult(e, verdict)

Fairness ==
    /\ WF_vars(CalmDown)
    /\ []<>(calm /\ Kept => AfterStatus = chain) \/ []<><<Status>>_vars
    /\ []<>(calm /\ Kept => chain.current_processing_batch = None) \/ []<><<Verdict>>_vars
    /\ \A e \in Epochs :
          []<>(calm /\ Kept => ~\E r \in chain.requests : r[1] = e) \/ []<><<Answer(e)>>_vars

Spec == Init /\ [][Next]_vars /\ Fairness

-----------------------------------------------------------------------------
BatchType ==
    [state : BatchStates \ {"Failed"}, id : {None} \cup Nat, blocks : BOOLEAN,
     downloads : 0..(MAX_BATCH_DOWNLOAD_ATTEMPTS - 1),
     attempts : 0..(MAX_BATCH_PROCESSING_ATTEMPTS - 1)]

Chains ==
    [start_epoch : Epochs, batches : [Epochs -> BatchType \cup {NoBatch}], peers : SUBSET Peers,
     to_be_downloaded : Nat, processing_target : 0..(MaxEpoch + 1),
     optimistic_start : Epochs \cup {None}, attempted_optimistic_starts : SUBSET Epochs,
     syncing : BOOLEAN, current_processing_batch : Epochs \cup {None},
     requests : SUBSET Requests, segments : SUBSET Epochs, result : {"keep"}]

Removals == {"ChainFailed", "ChainFailedAndBlacklisted", "ChainCompleted", "EmptyPeerPool",
             "WrongBatchState", "WrongChainState"}

(* The chain is kept, every batch of it with attempts left, or it has been *)
(* removed for one of the reasons of RemoveChain.                          *)
TypeOK == chain \in Chains \cup [result : Removals] /\ calm \in BOOLEAN

(***************************************************************************)
(* The processing target has reached an optimistic batch that lies outside *)
(* the download buffer.  When that batch then turns out to be empty,       *)
(* reject_optimistic_batch drops it, the target moves past it, and it is   *)
(* downloaded again behind the target.  Nothing else breaks the three      *)
(* properties below.                                                       *)
(***************************************************************************)
Overtaken ==
    /\ Kept
    /\ chain.optimistic_start # None
    /\ chain.optimistic_start = chain.processing_target
    /\ chain.optimistic_start >= chain.to_be_downloaded

NoWrongState == chain.result \notin {"WrongBatchState", "WrongChainState"}

(***************************************************************************)
(* No sequence of answers, errors, results, stops and starts makes a       *)
(* handler meet a batch or a chain in a state it does not expect: the      *)
(* removal reasons WrongBatchState and WrongChainState never occur, unless *)
(* the target overtakes the optimistic batch.                              *)
(***************************************************************************)
NoCriticalRemoval == []~Overtaken => []NoWrongState

PreviousAwaitValidation ==
    Kept => \A e \in chain.start_epoch..(chain.processing_target - 1) :
                chain.batches[e].state = "AwaitingValidation"

(***************************************************************************)
(* The batches handle_invalid_batch fails together have all been processed *)
(* and none has left that state, unless the target overtakes the           *)
(* optimistic batch.                                                       *)
(***************************************************************************)
ProcessedPrefix == []~Overtaken => []PreviousAwaitValidation

(***************************************************************************)
(* handle_invalid_batch, of a batch that is not the optimistic one: "this  *)
(* is our robust `processing_target`. All previous batches must be         *)
(* awaiting validation".                                                   *)
(***************************************************************************)
RobustTarget ==
    Kept /\ chain.current_processing_batch \notin {None, chain.optimistic_start} =>
        \A e \in Epochs : e < chain.current_processing_batch /\ HasBatch(chain, e) =>
                              chain.batches[e].state = "AwaitingValidation"

EveryEpochHasABatch ==
    Kept => \A e \in chain.processing_target..(chain.to_be_downloaded - 1) :
                e < Target => HasBatch(chain, e)

(***************************************************************************)
(* No epoch is skipped: every epoch between the processing target and the  *)
(* next one to download has its batch, unless the target overtakes the     *)
(* optimistic batch.                                                       *)
(***************************************************************************)
NoSkippedBatch == []~Overtaken => []EveryEpochHasABatch

(***************************************************************************)
(* A batch is Downloading exactly when the request it names is in flight,  *)
(* so it can neither be stuck nor be answered twice.                       *)
(***************************************************************************)
DownloadsAreInFlight ==
    Kept => \A e \in Epochs :
        /\ (chain.batches[e].state = "Downloading") <=> (chain.batches[e].id # None)
        /\ chain.batches[e].id # None => <<e, chain.batches[e].id>> \in chain.requests
        /\ HasBatch(chain, e) =>
              \A request \in chain.requests : request[1] = e => request[2] = chain.batches[e].id

(***************************************************************************)
(* One batch at most is Processing, it is the current one, and the         *)
(* processor holds it: a late result is never taken for another batch's.   *)
(***************************************************************************)
OneBatchProcessing ==
    Kept => /\ \A e \in Epochs : (chain.batches[e].state = "Processing")
                                    <=> (chain.current_processing_batch = e)
            /\ chain.current_processing_batch # None =>
                   chain.current_processing_batch \in chain.segments

(***************************************************************************)
(* The last batch was an empty optimistic one, processed before its turn,  *)
(* and the target has stepped over it.  Nothing is left to request or to   *)
(* process, and only the verdict on a batch checks for the end             *)
(* (on_batch_process_result), so that the chain is kept although no        *)
(* "further processing is required" (the comment of ProcessingResult).     *)
(***************************************************************************)
SteppedOverTheEnd ==
    /\ Kept
    /\ chain.processing_target >= Target
    /\ chain.processing_target - 1 \in chain.attempted_optimistic_starts
    /\ chain.batches[chain.processing_target - 1].state = "AwaitingValidation"
    /\ chain.requests = {} /\ chain.current_processing_batch = None

(***************************************************************************)
(* A chain ends: it is completed, fails or loses its peers, and no stop,   *)
(* lost peer, failed or partial download or late result leaves it waiting  *)
(* for an event that never comes.  The one exception is a chain that       *)
(* stepped over its last batch.                                            *)
(***************************************************************************)
SyncFinishes == <>[](Kept => SteppedOverTheEnd)

=============================================================================
