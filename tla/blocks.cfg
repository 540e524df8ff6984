\* One key and two concurrent sign_block calls over slots 0..3, of which the columns hold 0..2.
SPECIFICATION Spec
CONSTANTS
    d1 = d1
    d2 = d2
    Data = {d1, d2}
    NullData = NullData
    MaxSlot = 3
    MaxEpoch = 3
    SqlMax = 2
    Validators = {k1}
    RemotelyProtected = {}
    AttestationTasks = {}
    BlockTasks = {t1, t2}
    AttestationDuties <- NoVotes
    BlockDuties <- SomeBlocks
    Interchanges <- BlockRecords
    HistoryEpochs = 2
    SlotsPerEpoch = 1
    NoTask = NoTask
INVARIANTS NoDoubleProposal HandoverIsSafe
