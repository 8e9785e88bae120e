\* The SYNC poll reads CMD_HEAD and CMD_TAIL apart and can see a lapped ring as drained.
CONSTANTS
    Submitters = {p1, p2}
    RingDw = 8
    CmdDwords = {1, 3}
    FenceDw = 3
    MaxRounds = 1
    SyncPolls = 1
    SpaceInBytes = FALSE
    NoLock = NoLock
    DmaCopiers = {}
    DmaDw = 5
SPECIFICATION Spec
SYMMETRY SubmitterSymmetry
INVARIANT SyncSuccessMeansExecuted
