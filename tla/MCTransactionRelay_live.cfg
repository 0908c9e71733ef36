SPECIFICATION FairSpec
CONSTANTS
    t1 = t1
    t2 = t2
    NONE = NONE
    Txid <- MCTxid
    EntryBytes <- MCEntryBytes
    Digest = {d1}
    Tip = {x, y}
    Waiter = {p1}
    MaxEntries = 1
    MaxBytes = 2
    MaxRegenerations = 1
    RegenerationsPerPoll = 1
    BatchSize = 1
    MaxChanges = 1
    MaxFaults = 1
    MaxIncoming = 1
    MaxMempool = 0
PROPERTIES
    WaitForReturns
    ShutdownCompletes
