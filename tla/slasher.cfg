SPECIFICATION Spec
CONSTANTS
    Validators = {0, 1}
    ValidatorChunkSize = 1
    HistoryLength = 6
    ChunkSize = 2
    MaxDistance = 5
    SlotsPerEpoch = 2
    Attestations <- MCAttestations
    Blocks <- MCBlocks
    MaxEpoch = 7
    MaxArrivals = 3
INVARIANTS
    TypeOK
    SlashableIsCaught
    SlashingsAreValid
    NeverFails
    DoubleProposalIsCaught
    ArraysMatchHistory
CHECK_DEADLOCK FALSE
