\* Two user threads, one MGPU_BO_DESTROY in the whole behaviour: a
\* destroy racing another thread's lookup of the same handle or offset.
CONSTANTS
    Threads = {t1, t2}
    Files = {f1}
    NoFile = NoFile
    MaxOps = 2
    MaxDestroys = 1
SPECIFICATION Spec
INVARIANT NoUseAfterFree
