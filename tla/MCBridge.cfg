CONSTANTS
    lab1 = lab1
    lab2 = lab2
    NONE = NONE
    NOFILE = NOFILE
    TORN = TORN
    Label <- MCLabel
    Scope <- MCScope
SPECIFICATION FairSpec
INVARIANTS RestartAligns OneBranch PassedIsVerified FollowsTogether CheckpointUsable
 
