SPECIFICATION Spec
CONSTANTS
    Block <- PayloadTree
    NumValidators = 2
    SlotsPerEpoch = 2
    ProposerScoreBoost = 40
    PruneThreshold = 1
    Anchor = 1
    AnchorStatus = "Valid"
    BalancesAt <- SameBalances
    ValidPayloads = {1, 2, 4}
    ImportStatuses = {"Valid", "Optimistic"}
    UnknownHash = 99
    Attestations <- PayloadAttestations
    Slashable = {}
    MaxStaleRestarts = 0
    MaxSlot = 3
    MaxQueue = 1
INVARIANT FailsOnlyWithoutViableHead
