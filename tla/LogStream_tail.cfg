SPECIFICATION FairSpec
CONSTANTS
    Readers = {"scanner", "complete"}
    MaxLines = 2
    Chat = {1, 2}
    Backfill = 1
    ChanCap = 1
    WireCap = 1
    InboxCap = 1
    PageLimit = 2
    MaxLogs = 2
    MaxStreams = 2
    MaxSeq = 3
    Plans <- MCPlans
INVARIANTS
    TypeOK
    StreamInOrder
    NothingLost
PROPERTY EventuallyStored
CHECK_DEADLOCK FALSE
