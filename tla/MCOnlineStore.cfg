SPECIFICATION Spec
CONSTANTS
    BaseChain <- MCBaseChain
    BaseNodes <- MCBaseNodes
    Scope <- MCScope
INVARIANTS
    ForestIsOfChain
    Reopens
    UndoRetained
PROPERTIES
    OpensAtPromised
