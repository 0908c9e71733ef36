SPECIFICATION Spec
CONSTANTS
    t1 = t1
    t2 = t2
    NONE = NONE
    Txid <- MCTxid
    EntryBytes <- MCEntryBytes
    Digest = {d1, d2}
    Tip = {x, y}
    Waiter = {p1}
    MaxEntries = 2
    MaxBytes = 2
    MaxRegenerations = 1
    RegenerationsPerPoll = 1
    BatchSize = 1
    MaxChanges = 1
    MaxFaults = 0
    MaxIncoming = 0
    MaxMempool = 1
INVARIANTS
    AnchorConsistent
    AnchoredAtSyncPoint
    ServedAsAnnounced
    EpochIsAnchor
    CacheExact
