SPECIFICATION Spec
CONSTANTS
    BaseChain <- MCBaseChain
    BaseNodes <- MCBaseNodes
    Scope <- UndoScope
INVARIANTS
    TipCanBeUndone
