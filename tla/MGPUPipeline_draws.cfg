\* Two threads calling mgpu_pipeline_draw once each (sync or async, valid or
\* not), one calling flush, stall or resume, the pipeline_work kworker, and
\* the driver's init and fini.
CONSTANTS
    Callers = {c1, c2}
    Controllers = {k1}
    None = None
SPECIFICATION Spec
INVARIANT OneFrameAtATime
INVARIANT SyncSuccessRanWholeFrame
PROPERTY DrawReturns
\* Every call returns and the manager may be torn down: a behaviour ends
\* when all calls have returned, so a state with no successor is expected.
CHECK_DEADLOCK FALSE
