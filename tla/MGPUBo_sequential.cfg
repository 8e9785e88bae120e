\* One user thread on two open files of the device: every sequential order
\* of create, destroy (twice, as user space may), the mmap ioctl, mmap, fork
\* and munmap.
CONSTANTS
    Threads = {t1}
    Files = {f1, f2}
    NoFile = NoFile
    MaxOps = 6
    MaxDestroys = 2
SPECIFICATION Spec
INVARIANT TypeOK
INVARIANT NoLeak
