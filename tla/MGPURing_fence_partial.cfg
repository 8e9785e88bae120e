\* A FENCE-space timeout leaves written commands that a later kick publishes.
CONSTANTS
    Submitters = {p1, p2, p3}
    RingDw = 8
    CmdDwords = {1, 3}
    FenceDw = 3
    MaxRounds = 1
    SyncPolls = 1
    SpaceInBytes = FALSE
    NoLock = NoLock
    DmaCopiers = {}
    DmaDw = 5
SPECIFICATION Spec
SYMMETRY SubmitterSymmetry
INVARIANT ExecutedWereKicked
