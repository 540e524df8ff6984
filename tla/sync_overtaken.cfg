SPECIFICATION Spec
CONSTANTS
    Target = 4
    MaxEpoch = 3
    Peers = {p1}
    BATCH_BUFFER_SIZE = 1
    MAX_BATCH_DOWNLOAD_ATTEMPTS = 2
    MAX_BATCH_PROCESSING_ATTEMPTS = 2
INVARIANT RobustTarget
CHECK_DEADLOCK FALSE
