\* Correct dword space accounting: the ring keeps its FIFO contract with two
\* threads in mgpu_submit_commands (the SUBMIT ioctl).  mgpu_dma_copy, which
\* waits with the byte-sized space of mgpu_dma.c, is MGPURing_dma_lap.cfg.
CONSTANTS
    Submitters = {p1, p2}
    RingDw = 8
    CmdDwords = {1, 3}
    FenceDw = 3
    MaxRounds = 1
    SyncPolls = 1
    SpaceInBytes = FALSE
    NoLock = NoLock
    DmaCopiers = {}
    DmaDw = 5
SPECIFICATION Spec
SYMMETRY SubmitterSymmetry
INVARIANT TypeOK
INVARIANT FifoExecution
INVARIANT InFlightAccounting
