SPECIFICATION Spec
CONSTANTS
    Target = 2
    MaxEpoch = 2
    Peers = {p1}
    BATCH_BUFFER_SIZE = 1
    MAX_BATCH_DOWNLOAD_ATTEMPTS = 2
    MAX_BATCH_PROCESSING_ATTEMPTS = 2
INVARIANTS TypeOK DownloadsAreInFlight OneBatchProcessing
CHECK_DEADLOCK FALSE
PROPERTIES NoCriticalRemoval ProcessedPrefix NoSkippedBatch SyncFinishes
