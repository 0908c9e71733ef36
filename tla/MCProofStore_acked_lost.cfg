SPECIFICATION Spec
CONSTANTS
    a = a
    b = b
    s1 = s1
    s2 = s2
    Label <- MCLabel
    Serializer <- MCOneSerializer
    AccountedBytes <- MCAccountedBytes
    GroupCommitBlocks = 2
    GroupCommitDelay = 1
    MaxQueuedBlocks = 2
    MaxQueuedBytes = 2
    Crashes = {"kill", "power"}
    Faults = {}
    MaxHeight = 2
    MaxWal = 4
INVARIANTS
    AckedSurvives
