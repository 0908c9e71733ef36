SPECIFICATION Spec
CONSTANTS
    Width = 6
    MaxLeaves = 9
    MinAdditions = 0
    MaxAdditions = 2
INVARIANTS
    ForestOfHistory
    ProofsVerify
    WireMatches
