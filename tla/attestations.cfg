\* One key over epochs 0..4, of which the columns hold 0..3: pruning, crashes,
\* imports, deletion and re-import around one signing task at a time.
SPECIFICATION Spec
CONSTANTS
    d1 = d1
    d2 = d2
    Data = {d1, d2}
    NullData = NullData
    MaxSlot = 0
    MaxEpoch = 4
    SqlMax = 3
    Validators = {k1}
    RemotelyProtected = {}
    AttestationTasks = {t1}
    BlockTasks = {}
    AttestationDuties <- Votes
    BlockDuties <- NoBlocks
    Interchanges <- AttestationRecords
    HistoryEpochs = 2
    SlotsPerEpoch = 1
    NoTask = NoTask
INVARIANTS NoSlashableAttestations SignedStaysGuarded RowsOrdered HandoverIsSafe
PROPERTY BoundsNeverFall
