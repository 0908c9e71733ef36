SPECIFICATION Spec
CONSTANTS
    a = a
    b = b
    s1 = s1
    s2 = s2
    Label <- MCLabel
    Serializer <- MCTwoSerializers
    AccountedBytes <- MCAccountedBytes
    GroupCommitBlocks = 2
    GroupCommitDelay = 1
    MaxQueuedBlocks = 2
    MaxQueuedBytes = 2
    Crashes = {"power"}
    Faults = {"data", "index"}
    MaxHeight = 3
    MaxWal = 7
INVARIANTS
    TypeOK
    BaseRecreatable
    AckedSurvives
    WalReplayable
    IndexMatchesWal
    PayloadIntact
PROPERTIES
    ImplementsArchive
    SyncedWalImmutable
SYMMETRY MCSymmetry
