\* RecentProofCache and P2PServer under reorganizations, failures and shutdown.
SPECIFICATION FairSpec
CONSTANTS
    lab1 = lab1
    lab2 = lab2
    i1 = i1
    i2 = i2
    NONE = NONE
    Label <- MCLabel
    ProofBytes <- MCProofBytes
    MaxBlocks = 2
    MaxCacheBytes = 3
    Worker <- MCWorkers
    Address <- MCAddresses
    MaxPeers = 2
    MaxPeersPerIp = 1
    MaxProofRequests = 1
    t1 = t1
    t2 = t2
    t3 = t3
    Tx <- MCTx
    TxBytes <- MCTxBytes
    MaxQueued = 2
    MaxQueueBytes = 3
    MaxInflight = 2
    TakeLimit = 1
    Scope <- MCScope
INVARIANTS
    SocketsOwned
    AdmissionExact
    AnswersMatch
    StatesOneChain
    CacheOnChain
    CoreQueueExact

PROPERTY
    StopReturns
