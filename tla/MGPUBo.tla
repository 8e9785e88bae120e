-------------------------------- MODULE MGPUBo --------------------------------
(***************************************************************************)
(* The lifetime of one buffer object (BO) of the mgpu driver              *)
(* (src/unnamed/part_008, the GEM code the ioctl switch of part_007 calls).*)
(* A BO is reachable in two global indexes: the handle IDR (under          *)
(* mgpu_bo_idr_lock) and the mmap-offset rb-tree (under mgpu_mmap_lock).   *)
(* Both lookups take a reference with kref_get; mgpu_bo_put drops one and *)
(* the put that reaches zero runs mgpu_bo_free, which unlinks the BO from *)
(* the device list and the tree, frees the DMA memory, removes the handle *)
(* and kfrees the structure, each under its own lock or none.             *)
(*                                                                         *)
(* Actors are user threads issuing the BO ioctls and mmap/munmap/fork on  *)
(* an open file of the device.  Each syscall is split at the points where *)
(* it drops a lock, so another thread can run between its steps.          *)
(* src/kernel/drivers/gpu/mgpu/mgpu_gem.c holds the same lookup, put,    *)
(* free, create and destroy code without the offset tree and filp; the    *)
(* definitions for that shared code are mapped to its lines there.        *)
(*                                                                         *)
(* The BO's contents, size, flags and offset are abstracted away: there   *)
(* is one BO, one handle and one offset range, and "size too large" and   *)
(* "remap_pfn_range failed" are nondeterministic outcomes.                *)
(***************************************************************************)
EXTENDS Naturals, FiniteSets

CONSTANTS
    Threads,       \* user threads issuing syscalls
    Files,         \* open files of /dev/mgpu the threads use
    NoFile,        \* bo->filp == NULL
    MaxOps,        \* bound on syscalls issued by each thread
    MaxDestroys    \* bound on MGPU_BO_DESTROY calls in a behaviour

ASSUME NoFile \notin Files /\ MaxOps \in Nat /\ MaxDestroys \in Nat

(* Program points of a thread.  The f_* points are mgpu_bo_free, run by   *)
(* the thread whose put dropped the last reference; ret holds the point   *)
(* its caller continues at.                                                *)
IdlePc   == {"idle"}
CallPc   == {"c_offset", "c_list", "d_put1", "d_put2", "m_put", "v_check"}
FreePc   == {"f_unlink", "f_mem", "f_handle", "f_kfree"}
Pcs      == IdlePc \cup CallPc \cup FreePc

(* A reference count the behaviours cannot exceed: the creation reference,*)
(* one per thread inside a lookup, one per VMA (each costs a syscall).    *)
RefBound == 1 + Cardinality(Threads) * (1 + MaxOps)

VARIABLES
    obj,        \* the struct mgpu_bo: "none" (not allocated), "live", "freed"
    mem,        \* its DMA memory: "none", "alloc", "freed"
    ref,        \* bo->refcount
    inIdr,      \* the handle is in mgpu_bo_idr
    inTree,     \* bo->node is in mgpu_mmap_root
    inList,     \* bo->list is on mdev->bo_list
    filp,       \* bo->filp
    vmas,       \* VMAs whose vm_private_data is the BO
    pc,         \* per thread program point
    ret,        \* per thread: where the caller of mgpu_bo_free resumes
    ops,        \* per thread: syscalls issued
    destroys,   \* MGPU_BO_DESTROY calls issued
    handleRef,  \* history: the creation reference has not been dropped
    holders,    \* history: threads holding a lookup reference
    uaf         \* history: a kref operation or access hit a freed BO

vars == <<obj, mem, ref, inIdr, inTree, inList, filp, vmas, pc, ret, ops,
          destroys, handleRef, holders, uaf>>

-----------------------------------------------------------------------------
(* No BO exists yet; every thread is outside the driver.                  *)
Init ==
    /\ obj = "none"
    /\ mem = "none"
    /\ ref = 0
    /\ inIdr = FALSE
    /\ inTree = FALSE
    /\ inList = FALSE
    /\ filp = NoFile
    /\ vmas = 0
    /\ pc = [t \in Threads |-> "idle"]
    /\ ret = [t \in Threads |-> "idle"]
    /\ ops = [t \in Threads |-> 0]
    /\ destroys = 0
    /\ handleRef = FALSE
    /\ holders = {}
    /\ uaf = FALSE

(* Touching the structure after kfree.                                     *)
Touch == uaf' = (uaf \/ obj = "freed")

(* kref_get: refcount_inc on zero warns "addition on 0; use-after-free".  *)
KrefGet ==
    /\ ref' = ref + 1
    /\ uaf' = (uaf \/ obj = "freed" \/ ref = 0)

(* mgpu_bo_put (kref_put): the put that reaches zero enters mgpu_bo_free  *)
(* and the caller resumes at next afterwards.                              *)
BoPut(t, next) ==
    IF obj = "freed" \/ ref = 0
    THEN /\ uaf' = TRUE
         /\ pc' = [pc EXCEPT ![t] = next]
         /\ UNCHANGED <<ref, ret>>
    ELSE /\ ref' = ref - 1
         /\ UNCHANGED uaf
         /\ IF ref = 1
            THEN /\ pc' = [pc EXCEPT ![t] = "f_unlink"]
                 /\ ret' = [ret EXCEPT ![t] = next]
            ELSE /\ pc' = [pc EXCEPT ![t] = next]
                 /\ UNCHANGED ret

(* A new syscall from a thread outside the driver.                         *)
Syscall(t) ==
    /\ pc[t] = "idle"
    /\ ops[t] < MaxOps
    /\ ops' = [ops EXCEPT ![t] = @ + 1]

-----------------------------------------------------------------------------
(* mgpu_bo_create, up to the handle: kzalloc, kref_init, DMA allocation,  *)
(* memset, idr_alloc.  From here the BO is visible by its handle.  The    *)
(* failing allocations return before anything is published.               *)
Create(t) ==
    /\ Syscall(t)
    /\ obj = "none"
    /\ \/ /\ obj' = "live"
          /\ mem' = "alloc"
          /\ ref' = 1
          /\ inIdr' = TRUE
          /\ handleRef' = TRUE
          /\ pc' = [pc EXCEPT ![t] = "c_offset"]
          /\ UNCHANGED <<inTree, inList, filp, vmas, ret, destroys, holders, uaf>>
       \/ UNCHANGED <<obj, mem, ref, inIdr, inTree, inList, filp, vmas, pc,
                      ret, destroys, handleRef, holders, uaf>>

(* mgpu_bo_alloc_mmap_offset: insert bo->node in the offset tree.         *)
CreateOffset(t) ==
    /\ pc[t] = "c_offset"
    /\ inTree' = TRUE
    /\ Touch
    /\ pc' = [pc EXCEPT ![t] = "c_list"]
    /\ UNCHANGED <<obj, mem, ref, inIdr, inList, filp, vmas, ret, ops,
                   destroys, handleRef, holders>>

(* list_add on mdev->bo_list, then args->handle = bo->handle; return 0.   *)
CreateList(t) ==
    /\ pc[t] = "c_list"
    /\ inList' = TRUE
    /\ Touch
    /\ pc' = [pc EXCEPT ![t] = "idle"]
    /\ UNCHANGED <<obj, mem, ref, inIdr, inTree, filp, vmas, ret, ops,
                   destroys, handleRef, holders>>

-----------------------------------------------------------------------------
(* mgpu_bo_destroy: mgpu_bo_lookup (idr_find and kref_get under the IDR   *)
(* lock), or -EINVAL when the handle is not in the IDR.                    *)
Destroy(t) ==
    /\ Syscall(t)
    /\ destroys < MaxDestroys
    /\ destroys' = destroys + 1
    /\ IF inIdr
       THEN /\ KrefGet
            /\ holders' = holders \cup {t}
            /\ pc' = [pc EXCEPT ![t] = "d_put1"]
       ELSE UNCHANGED <<ref, holders, pc, uaf>>
    /\ UNCHANGED <<obj, mem, inIdr, inTree, inList, filp, vmas, ret,
                   handleRef>>

(* Drop the lookup reference.                                              *)
DestroyPut1(t) ==
    /\ pc[t] = "d_put1"
    /\ holders' = holders \ {t}
    /\ BoPut(t, "d_put2")
    /\ UNCHANGED <<obj, mem, inIdr, inTree, inList, filp, vmas, ops,
                   destroys, handleRef>>

(* A destroy that forgets the creation reference.                         *)
DestroyPut2Skip(t) ==
    /\ pc[t] = "d_put2"
    /\ handleRef' = FALSE
    /\ pc' = [pc EXCEPT ![t] = "idle"]
    /\ UNCHANGED <<obj, mem, ref, inIdr, inTree, inList, filp, vmas, ret,
                   ops, destroys, holders, uaf>>

(* Drop the creation reference ("this should free it").                   *)
DestroyPut2(t) ==
    /\ pc[t] = "d_put2"
    /\ handleRef' = FALSE
    /\ BoPut(t, "idle")
    /\ UNCHANGED <<obj, mem, inIdr, inTree, inList, filp, vmas, ops,
                   destroys, holders>>

(* mgpu_bo_mmap (MGPU_BO_MMAP ioctl): look the handle up.                 *)
MmapIoctl(t) ==
    /\ Syscall(t)
    /\ IF inIdr
       THEN /\ KrefGet
            /\ holders' = holders \cup {t}
            /\ pc' = [pc EXCEPT ![t] = "m_put"]
       ELSE UNCHANGED <<ref, holders, pc, uaf>>
    /\ UNCHANGED <<obj, mem, inIdr, inTree, inList, filp, vmas, ret,
                   destroys, handleRef>>

(* if (!bo->filp) bo->filp = filp; return the offset; mgpu_bo_put.        *)
MmapIoctlPut(t) ==
    /\ pc[t] = "m_put"
    /\ \E f \in Files : filp' = IF filp = NoFile THEN f ELSE filp
    /\ holders' = holders \ {t}
    /\ BoPut(t, "idle")
    /\ UNCHANGED <<obj, mem, inIdr, inTree, inList, vmas, ops, destroys,
                   handleRef>>

(* mgpu_mmap: mgpu_bo_lookup_by_offset walks the tree and takes kref_get  *)
(* under mgpu_mmap_lock, or the offset is unknown and it returns -EINVAL.  *)
Mmap(t) ==
    /\ Syscall(t)
    /\ IF inTree
       THEN /\ KrefGet
            /\ holders' = holders \cup {t}
            /\ pc' = [pc EXCEPT ![t] = "v_check"]
       ELSE UNCHANGED <<ref, holders, pc, uaf>>
    /\ UNCHANGED <<obj, mem, inIdr, inTree, inList, filp, vmas, ret,
                   destroys, handleRef>>

(* The error returns of mgpu_mmap: -EPERM when bo->filp is another file, *)
(* -EINVAL when the VMA is larger than the BO, the error of               *)
(* remap_pfn_range; each of them puts the lookup reference.  The last two *)
(* depend on the caller's arguments and the page tables, so this step is  *)
(* always possible.                                                        *)
MmapCheckFail(t) ==
    /\ pc[t] = "v_check"
    /\ holders' = holders \ {t}
    /\ BoPut(t, "idle")
    /\ UNCHANGED <<obj, mem, inIdr, inTree, inList, filp, vmas, ops,
                   destroys, handleRef>>

(* A successful mmap that also takes a reference for the new VMA.         *)
MmapCheckMapGet(t) ==
    /\ pc[t] = "v_check"
    /\ \E f \in Files : filp = NoFile \/ filp = f
    /\ holders' = holders \ {t}
    /\ vmas' = vmas + 1
    /\ ref' = ref + 1
    /\ Touch
    /\ pc' = [pc EXCEPT ![t] = "idle"]
    /\ UNCHANGED <<obj, mem, inIdr, inTree, inList, filp, ret, ops,
                   destroys, handleRef>>

(* Success, on a file f that passes the filp check: the reference moves   *)
(* to the VMA (vm_private_data, vm_ops).                                   *)
MmapCheckMap(t) ==
    /\ pc[t] = "v_check"
    /\ \E f \in Files : filp = NoFile \/ filp = f
    /\ holders' = holders \ {t}
    /\ vmas' = vmas + 1
    /\ Touch
    /\ pc' = [pc EXCEPT ![t] = "idle"]
    /\ UNCHANGED <<obj, mem, ref, inIdr, inTree, inList, filp, ret, ops,
                   destroys, handleRef>>

(* munmap, or exit of the process: mgpu_bo_vm_close puts the VMA's        *)
(* reference.                                                              *)
VmClose(t) ==
    /\ pc[t] = "idle"
    /\ vmas > 0
    /\ vmas' = vmas - 1
    /\ BoPut(t, "idle")
    /\ UNCHANGED <<obj, mem, inIdr, inTree, inList, filp, ops, destroys,
                   handleRef, holders>>

(* fork copies a VMA: mgpu_bo_vm_open takes a reference.                   *)
VmOpen(t) ==
    /\ Syscall(t)
    /\ vmas > 0
    /\ vmas' = vmas + 1
    /\ KrefGet
    /\ UNCHANGED <<obj, mem, inIdr, inTree, inList, filp, pc, ret,
                   destroys, handleRef, holders>>

-----------------------------------------------------------------------------
(* mgpu_bo_free, after the last put: list_del under bo_lock, then         *)
(* mgpu_bo_free_mmap_offset erases the node under mgpu_mmap_lock.          *)
FreeUnlink(t) ==
    /\ pc[t] = "f_unlink"
    /\ inList' = FALSE
    /\ inTree' = FALSE
    /\ Touch
    /\ pc' = [pc EXCEPT ![t] = "f_mem"]
    /\ UNCHANGED <<obj, mem, ref, inIdr, filp, vmas, ret, ops, destroys,
                   handleRef, holders>>

(* dma_free_coherent / dma_free_attrs, sg table and page array.           *)
FreeMem(t) ==
    /\ pc[t] = "f_mem"
    /\ mem' = "freed"
    /\ uaf' = (uaf \/ obj = "freed" \/ mem = "freed")
    /\ pc' = [pc EXCEPT ![t] = "f_handle"]
    /\ UNCHANGED <<obj, ref, inIdr, inTree, inList, filp, vmas, ret, ops,
                   destroys, handleRef, holders>>

(* mgpu_bo_free_handle: idr_remove under the IDR lock, only now.          *)
FreeHandle(t) ==
    /\ pc[t] = "f_handle"
    /\ inIdr' = FALSE
    /\ Touch
    /\ pc' = [pc EXCEPT ![t] = "f_kfree"]
    /\ UNCHANGED <<obj, mem, ref, inTree, inList, filp, vmas, ret, ops,
                   destroys, handleRef, holders>>

(* kfree(bo); the caller of mgpu_bo_put resumes.                           *)
FreeStruct(t) ==
    /\ pc[t] = "f_kfree"
    /\ obj' = "freed"
    /\ Touch
    /\ pc' = [pc EXCEPT ![t] = ret[t]]
    /\ UNCHANGED <<mem, ref, inIdr, inTree, inList, filp, vmas, ret, ops,
                   destroys, handleRef, holders>>

-----------------------------------------------------------------------------
(* Every thread has issued its syscalls, returned, and unmapped.           *)
Quiescent == \A t \in Threads : pc[t] = "idle"

Terminated ==
    /\ Quiescent
    /\ \A t \in Threads : ops[t] = MaxOps
    /\ vmas = 0
    /\ UNCHANGED vars

Thread(t) ==
    \/ Create(t) \/ CreateOffset(t) \/ CreateList(t)
    \/ Destroy(t) \/ DestroyPut1(t) \/ DestroyPut2(t)
    \/ MmapIoctl(t) \/ MmapIoctlPut(t)
    \/ Mmap(t) \/ MmapCheckFail(t) \/ MmapCheckMap(t)
    \/ VmClose(t) \/ VmOpen(t)
    \/ FreeUnlink(t) \/ FreeMem(t) \/ FreeHandle(t) \/ FreeStruct(t)

Next == (\E t \in Threads : Thread(t)) \/ Terminated

Spec == Init /\ [][Next]_vars

-----------------------------------------------------------------------------
TypeOK ==
    /\ obj \in {"none", "live", "freed"}
    /\ mem \in {"none", "alloc", "freed"}
    /\ ref \in 0..RefBound
    /\ inIdr \in BOOLEAN /\ inTree \in BOOLEAN /\ inList \in BOOLEAN
    /\ filp \in Files \cup {NoFile}
    /\ vmas \in 0..(MaxOps * Cardinality(Threads))
    /\ pc \in [Threads -> Pcs]
    /\ ret \in [Threads -> IdlePc \cup CallPc]
    /\ ops \in [Threads -> 0..MaxOps]
    /\ destroys \in 0..MaxDestroys
    /\ handleRef \in BOOLEAN
    /\ holders \subseteq Threads
    /\ uaf \in BOOLEAN

(* The reference count equals the references somebody owns: the creation *)
(* reference until MGPU_BO_DESTROY drops it, one per syscall between its *)
(* lookup and its put, one per VMA (mgpu_mmap, vm_open, vm_close).  Every *)
(* kref_get and mgpu_bo_put in the driver must pair with one of these.    *)
RefcountMatchesHolders ==
    obj = "live" =>
        ref = (IF handleRef THEN 1 ELSE 0) + Cardinality(holders) + vmas

(* No kref operation and no access of the driver reaches a BO whose       *)
(* refcount is zero or that has been kfreed (mgpu_bo_lookup's kref_get,  *)
(* the puts of destroy, mmap and vm_close, the free path itself).         *)
NoUseAfterFree == ~uaf

(* The refinement mapping onto MGPUBoLifecycle: the BO is live from its  *)
(* creation until its refcount reaches zero; the handle's reference, the  *)
(* lookup references and the VMAs are its owners.                          *)
Life == INSTANCE MGPUBoLifecycle WITH
    life <- IF obj = "none" THEN "unborn"
            ELSE IF obj = "live" /\ ref > 0 THEN "live" ELSE "dead",
    handle <- handleRef,
    users <- holders,
    maps <- vmas

(* Every step of the driver's BO code is a step of the lifecycle: a       *)
(* lookup (mgpu_bo_lookup, mgpu_bo_lookup_by_offset) succeeds only on a   *)
(* live BO, mgpu_mmap hands the lookup reference to the VMA, and the put *)
(* that drops the refcount to zero (mgpu_bo_put in destroy, in the error *)
(* paths of mgpu_mmap, in vm_close) is exactly the one that removes the   *)
(* last owner; a dead BO never becomes live again.                         *)
LifecycleRefined == Life!Spec

(* Once the handle is destroyed and every mapping is gone, with all      *)
(* threads back in user space, the BO is freed: nothing is leaked         *)
(* (mgpu_bo_destroy's second put, the error puts of mgpu_mmap,            *)
(* mgpu_bo_vm_close).                                                     *)
NoLeak ==
    (Quiescent /\ obj # "none" /\ ~handleRef /\ vmas = 0)
        => (obj = "freed" /\ mem = "freed" /\ ~inIdr /\ ~inTree /\ ~inList)
=============================================================================
