\* Two synchronous-or-async draws: a draw's unlocked configuration writes
\* land between two stages of another draw's frame.
CONSTANTS
    Callers = {c1, c2}
    Controllers = {}
    None = None
SPECIFICATION Spec
INVARIANT SyncFrameUsesOwnDraw
CHECK_DEADLOCK FALSE
