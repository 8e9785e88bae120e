\* health_work and the monitor kthread both run mgpu_health_check,
\* hang_check_work runs the hang check, the IRQ tasklet handles ERROR
\* interrupts; the device may fault once.  Two polls per reset wait let the
\* device answer before and on the last poll.
CONSTANTS
    HealthCtx = {work, kthread}
    HangCtx = {hangwork}
    Faults = {"hung", "error", "dead"}
    MaxFaults = 1
    ErrorThreshold = 2
    HbMod = 3
    Garbage = Garbage
    TestPattern = TestPattern
    IrqCtx = {tasklet}
    HwPolls = 2
    CorePolls = 2
SPECIFICATION Spec
PROPERTY FaultEventuallyCleared
