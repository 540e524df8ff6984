\* One key, four epochs of two slots.
SPECIFICATION FairSpec
CONSTANTS
    Validators = {v1}
    SlotsPerEpoch = 2
    MaxEpoch = 3
    Unregistered = Unregistered
INVARIANTS ClearedOnlyIfQuiet WaitsForAFullEpoch NoSelfDetection
PROPERTY KeysAreDecided
