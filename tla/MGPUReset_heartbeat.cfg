\* Two contexts run mgpu_health_check on a healthy device.
CONSTANTS
    HealthCtx = {work, kthread}
    HangCtx = {hangwork}
    Faults = {"hung", "error", "dead"}
    MaxFaults = 1
    ErrorThreshold = 2
    HbMod = 3
    Garbage = Garbage
    TestPattern = TestPattern
    IrqCtx = {}
    HwPolls = 2
    CorePolls = 2
SPECIFICATION Spec
PROPERTY HeartbeatMissOnlyWhenDead
