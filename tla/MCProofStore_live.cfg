SPECIFICATION FairSpec
CONSTANTS
    a = a
    b = b
    s1 = s1
    s2 = s2
    Label <- MCLabel
    Serializer <- MCTwoSerializers
    AccountedBytes <- MCAccountedBytes
    GroupCommitBlocks = 3
    GroupCommitDelay = 0
    MaxQueuedBlocks = 2
    MaxQueuedBytes = 3
    Crashes = {"kill"}
    Faults = {"serialize", "wal"}
    MaxHeight = 3
    MaxWal = 5
INVARIANTS
    QueueAccounting
    NoLostWakeup
PROPERTIES
    CallsReturn
