\* Two submissions on one queue, callers passing priority 0 (default) or 3.
CONSTANTS
    Jobs = {j1, j2}
    UserPrios = {0, 3}
    QueueDepth = 16
    Poison = Poison
SPECIFICATION Spec
INVARIANT ListsWellFormed
\* mgpu_sched_fini frees the scheduler and an oops stops the kernel: both
\* end every behaviour, so a state with no successor is not an error here.
CHECK_DEADLOCK FALSE
