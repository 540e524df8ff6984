\* Two keys, up to the detection of a doppelganger of one of them.
SPECIFICATION Spec
CONSTANTS
    Validators = {v1, v2}
    SlotsPerEpoch = 2
    MaxEpoch = 3
    Unregistered = Unregistered
INVARIANT DetectionStopsAllValidators
