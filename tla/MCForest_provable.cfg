SPECIFICATION Spec
CONSTANTS
    Width = 6
    MaxLeaves = 9
    MinAdditions = 1
    MaxAdditions = 2
INVARIANTS
    EachBlockProved
