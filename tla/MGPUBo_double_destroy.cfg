\* One user thread: create, map, and MGPU_BO_DESTROY the handle twice.  The
\* handle stays in the IDR while a mapping keeps the BO alive, so the second
\* destroy finds it and puts the creation reference a second time.
CONSTANTS
    Threads = {t1}
    Files = {f1}
    NoFile = NoFile
    MaxOps = 6
    MaxDestroys = 2
SPECIFICATION Spec
INVARIANT NoUseAfterFree
