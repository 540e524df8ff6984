SPECIFICATION Spec
CONSTANTS
    Block <- FinalityTree
    NumValidators = 2
    SlotsPerEpoch = 1
    ProposerScoreBoost = 40
    PruneThreshold = 1
    Anchor = 1
    AnchorStatus = "Valid"
    BalancesAt <- SwappedBalances
    ValidPayloads = {1, 2, 3, 4, 5, 6}
    ImportStatuses = {"Valid"}
    UnknownHash = 99
    Attestations <- FinalityAttestations
    Slashable = {}
    MaxStaleRestarts = 0
    MaxSlot = 6
    MaxQueue = 1
INVARIANT NoDeltaOverflow
