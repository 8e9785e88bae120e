\* The refinement of MGPUBoLifecycle under the sequential bounds.  It fails
\* at the second MGPU_BO_DESTROY of a mapped BO: the BO dies while a mapping
\* still owns it.
CONSTANTS
    Threads = {t1}
    Files = {f1, f2}
    NoFile = NoFile
    MaxOps = 6
    MaxDestroys = 2
SPECIFICATION Spec
PROPERTY LifecycleRefined
