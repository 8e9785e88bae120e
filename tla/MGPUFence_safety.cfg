\* One fence cell: waits end correctly and the wait list stays consistent.
CONSTANTS
    Waiters = {w1, w2}
    Cells = {c1}
    BadAddr = BadAddr
    MaxVal = 2
    SeqBits = 2
SPECIFICATION Spec
INVARIANT WaitListWellFormed
INVARIANT SuccessOnlyWhenSignaled
PROPERTY WakeupNotLost
