\* One SUBMIT ioctl thread and one blocking mgpu_dma_copy (the self-test's).
\* The copy waits for space with mgpu_dma.c's mgpu_ring_space, which counts
\* ring->size in bytes against dword indices.
CONSTANTS
    Submitters = {p1, d1}
    RingDw = 8
    CmdDwords = {1, 3}
    FenceDw = 3
    MaxRounds = 1
    SyncPolls = 1
    SpaceInBytes = FALSE
    NoLock = NoLock
    DmaCopiers = {d1}
    DmaDw = 5
SPECIFICATION Spec
INVARIANT WaitedCopyExecuted
