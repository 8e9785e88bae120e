# TLA+ models of the mgpu driver

This directory holds TLA+ models of the `mgpu` Linux driver for the FPGA
GPU (sources under `src/`), the TLC configurations that check them, and
`PROJECT.json`, which records every run, the source lines each definition
models, the mutants that show each property can fail, the findings and the
hazards of the code.

Run a model from this directory:

    tlc -workers 2 -config MGPURing_safety.cfg MC_MGPURing

## 1. The system

The driver moves opaque command streams from user space to the device:

    ioctl SUBMIT -> (validator) -> command ring + doorbell -> device fetches
                 -> fence cell / FENCE_VALUE written -> IRQ -> tasklet
                 -> fence waiters woken, scheduler jobs completed
    health monitor / timeouts / IRQ ERROR -> reset work -> core reset
                 -> command queue and IRQ resumed

| Part | Source | State | Operations | Concurrency |
|------|--------|-------|------------|-------------|
| Command ring | `src/unnamed/part_000` (mgpu_cmdq.c); `mgpu_dma.c` 40-101 carries the first definitions of its helpers line for line | ring memory, host-private `ring->tail`, registers CMD_HEAD (device) and CMD_TAIL, `mdev->cmd_lock` | ring_create/destroy, ring_space, wait_space, write, kick, submit_commands (incl. SYNC poll), cmdq_suspend/resume | many ioctl threads, `mgpu_dma_copy`, the device |
| Fence engine | `src/kernel/drivers/gpu/mgpu/mgpu_gem.c` 353-588 | atomic `seqno`, fence page cells, wait list with per-entry `signaled`, wait queue | fence_next, fence_signaled, fence_process, wait_fence, fence_emit | waiters (ioctl WAIT_FENCE), the IRQ tasklet, the device writing cells |
| Interrupts | `src/unnamed/part_002` (mgpu_irq.c) and the top halves in `part_006`, `part_007` | `mdev->irq_status` accumulator, `irq_lock`, IRQ_STATUS/ENABLE registers | top half, tasklet, irq_enable/disable/suspend/resume/force/wait | hard IRQ on any CPU vs tasklet on another |
| Reset and recovery | `src/unnamed/part_007` 569-789, `mgpu_core.c` | `in_reset`, `reset_count`, delayed `reset_work`, `reset_wait` | reset_schedule, reset_work, reset_hw, reset_wait, reset_needed, reset_on_error; core_init/core_reset | health work, hang work, monitor thread, sched timeout work, IRQ ERROR path, debugfs |
| Health monitor | `src/unnamed/part_004` (mgpu_health.c) | last heartbeat, last head / fence / activity time, consecutive errors | check_heartbeat, check_hang, check_errors, health_check | two delayed works and a kthread running health_check concurrently |
| Scheduler | `src/kernel/drivers/gpu/mgpu/mgpu_sched.c` | jobs with state PENDING/QUEUED/RUNNING/COMPLETED/ABORTED/TIMEOUT, four priority buckets per queue, `pending_starts`, `current_job`, dependencies | job_alloc/free, add_dependency, sched_submit_job, process_queue, queue_submit_job, job_complete, wait_job, cancel_job, timeout_work | submitters, scheduler kthread, timeout work, waiters |
| Command validator | `src/kernel/drivers/gpu/mgpu/mgpu_mmio.h` 368-629 | the kernel copy of the user buffer and the walk pointer (pure walk; rewrites privileged opcodes to NOP) | mgpu_validate_commands, validate_draw/dma/fence, submit_validated | called only by KUnit |
| Buffer objects | `src/unnamed/part_008` 290-866 (called by the ioctl switch of `part_007`); `mgpu_gem.c` 1-352 has the same lookup, create, destroy and free code without the offset tree | per BO: `kref`, handle in the global IDR, node in the global mmap-offset rb-tree, `bo_list` link, `filp`, DMA memory | bo_create, bo_destroy, MGPU_BO_MMAP, mgpu_mmap, vm_open/vm_close, bo_free, gem_cleanup | any number of user threads and processes, unserialised ioctls, mmap and fork |
| Pipeline manager | `src/kernel/drivers/gpu/mgpu/mgpu_pipeline.c` | `mgr->state`, `state_lock`, the draw configuration, `pipeline_work` | pipeline_init, pipeline_draw, pipeline_execute and its stages, flush, stall, resume, the work handler, pipeline_fini | drawing threads, controlling threads and the kworker; `mgpu_pipeline_init` has no caller in the tree |
| Power management | `src/unnamed/part_003` | `pm->suspended`, saved registers, power state | pm_suspend, pm_resume, runtime PM | none: the PM callbacks are never registered |

Interactions that matter: the ring's CMD_HEAD is read by the SYNC poll, the
health hang check; reset_work calls core_init (which re-requests the IRQ)
and cmdq_resume (which restores a head only the unregistered PM code
saves);
health_check, the hang work, the scheduler's timeout work and the IRQ
ERROR path all call reset_schedule.

Parts not modelled, and why: the DRM/display, AXI and coredump code of
`part_005`, debugfs (`part_001`, only formatting apart from a call to
reset_schedule), the shader manager (`part_008` 1-290: allocation and
copying), the parts of `mgpu_gem.c`'s buffer-object copy that differ from
`part_008` (vmap, cpu_prep/fini, `mgpu_gem_cleanup`: no caller or no
shared state), the pipeline's statistics and monitor work (the statistics are data the model abstracts away; the monitor is never scheduled), power management (`part_003`: `mgpu_pm_ops` is referenced by no driver structure and `mgpu_pm_init` has no caller, so suspend and resume never run), the register, context, render, perf-counter and debug helpers of `mgpu_mmio.h` (single register accesses or sequences of them with no caller outside the file and KUnit),
the KUnit and self tests, the user-space status tool, the shader assembly
examples, the RTL and the build script. They either hold no concurrent
state or are pure I/O; see `PROJECT.json` for each.

## 2. Modules and what they correspond to

### MGPURing (done)

Models `mgpu_submit_commands` (part_000 171-276) with its helpers
`mgpu_ring_space`, `mgpu_ring_wait_space`, `mgpu_ring_write` and
`mgpu_ring_kick`, run by several user threads, and the device fetching the
ring.

* State: `ring` (the slots), `tail` (`ring->tail`), `hwTail` (CMD_TAIL),
  `head` (CMD_HEAD), `lock` (`cmd_lock`), `pc` per submitter, the request
  per submission, the SYNC poll counter and the head value it read, and the
  result returned to user space.  History variables `written`, `kicked` and
  `executed` record which submission wrote each dword, which submissions
  kicked, and which dwords the device fetched.
* Data abstraction: a dword is its serial number (the n-th dword written
  carries n).  Opcodes and payloads play no role in the ring's correctness.
* Actions: `Begin` (entry, with the -ENOMEM/-EFAULT exits before the lock),
  `Lock`, `WriteCmds` / `CmdSpaceTimeout` (the first wait_space and
  write), `WriteFence` / `FenceSpaceTimeout` (the FENCE packet),
  `Kick` (kick + unlock, then return or enter the SYNC poll), `PollHead`,
  `PollDrained`, `PollAgain`, `PollExpired` (the poll loop, one action
  per register read and per exit), and `DeviceFetch`.
* The file defines `mgpu_ring_space` twice: once with `ring->size` in
  bytes (line 104) and once converted to dwords (line 299).  The constant
  `SpaceInBytes` selects which one the ioctl submit path uses.
  `SpaceFor(p, h, t)` is the space a submitter's wait sees: a DMA copier
  always gets the byte version, because `mgpu_dma.c` has no other.
* `mgpu_dma.c` repeats `mgpu_ring_space` (byte version),
  `mgpu_ring_wait_space`, `mgpu_ring_write` and `mgpu_ring_kick` line for
  line; `PROJECT.json` maps those definitions to that file.
* The wait for space is abstracted: while space is short the holder keeps
  the lock and may at any time give up with -ETIMEDOUT (the 1000 x msleep(1)
  budget), and the device may advance head meanwhile.
* `mgpu_dma_copy` (`mgpu_dma.c` 169-206; its only caller is the self-test,
  which passes `wait = true`) is a second kind of submitter, in the set
  `DmaCopiers`; `Next` gives it the actions of `Copier(p)` and the ioctl
  submitters those of `Submitter(p)`.  `DmaCopy` builds the 5-dword DMA packet and goes to
  `Lock`.  From there it takes the submit path without the FENCE packet.
  With `wait`, `Kick` leads to `mgpu_core_wait_idle`: `WaitIdle` returns 0
  when STATUS shows the device idle, which is when it has fetched up to
  CMD_TAIL.  `WaitIdleTimeout` returns -ETIMEDOUT while it has not.
  STATUS_ERROR (-EIO) belongs to `MGPUReset`.
* Fairness: weak fairness on `DeviceFetch` only; user threads need not
  progress.  No liveness property is checked on this module.

### MGPUFence (done)

Models the fence engine of `mgpu_gem.c` (353-588): `mgpu_fence_init`,
`mgpu_fence_next`, `mgpu_fence_signaled`, `mgpu_fence_process` (run by
the IRQ tasklet on CMD_COMPLETE) and `mgpu_wait_fence` (the WAIT_FENCE
ioctl), against a device that writes fence cells and the FENCE_VALUE
register.

* State: `cell` (the fence page cells), `fenceReg` (FENCE_VALUE),
  `irqPending` (a tasklet run scheduled), `waitList` (the list of on-stack
  `mgpu_fence_wait_entry`s, in list order), `signaled` per entry, the
  waiter's `wpc`, address, value, timeout choice and result, the tasklet's
  `tpc`, its list cursor `scanIdx` and `wake` flag, and the `seqno` counter
  with the last value `mgpu_fence_next` returned.
* Actions: `WaitBegin` (ENODEV / fast path / entry setup), `Enroll`
  (list_add under `wait_lock`), `CheckCond` / `TimeoutExpire` /
  `Interrupted` (the `wait_event_interruptible[_timeout]` steps: condition
  check, sleep, timer expiry with its final condition check, signal),
  `RemoveEntry` (list_del and the return code); `ProcessBegin`,
  `ProcessEntry` (one list entry per step, under `wait_lock`),
  `ProcessEnd` (unlock, wake_up_all); `DeviceFence`; `FenceNext`.
* `wait_lock` is held by the tasklet across the whole scan, so `Enroll`
  and `RemoveEntry` require the tasklet to be idle.
* Fairness: weak fairness on the tasklet's steps (a scheduled tasklet
  runs), on the waiter's kernel steps (enroll, the woken re-check, list
  removal) and on the timer; `Interrupted` (a user signal) is unfair.

### MGPUIrq (done)

Models the interrupt core of `part_002` (mgpu_irq.c): the top half
`mgpu_irq_handler`, the tasklet `mgpu_irq_tasklet_func` and
`mgpu_irq_init`.  The constant `SMP` says whether the top half may run on
another CPU than the tasklet.

* State: `hw` (IRQ_STATUS), `accum` (`mdev->irq_status`), the top half's
  `thPc`, its local `status` and the value its `|=` loaded, `sched`
  (TASKLET_STATE_SCHED), the tasklet's `tkPc`, and the history `owed` of
  bits acknowledged and not yet read by the tasklet.
* Status words are sets of interrupt causes.  The handlers the tasklet
  dispatches to (`mgpu_fence_process`, ...) are abstracted to "the tasklet
  read the bit".
* Actions: `ThRead`, `ThAck`, `ThLoad`, `ThStore` (the `|=` is a load and
  a store); `TkRead` (clear SCHED, read), `TkClear`; `DeviceRaise`.
* On one CPU (`SMP = FALSE`) the top half is not interleaved with the
  tasklet and cannot enter its irqsave section.
* The mgpu_drv.c top halves (`part_006`, `part_007`) store
  `irq_status = status` instead of `|=`.  That store is the mutant
  `ThStoreOverwrite`, which `NoLostInterrupt` rejects on one CPU.
* Suspend and resume (`mgpu_irq_suspend` / `mgpu_irq_resume`) are not
  modelled: see the hazards.
* Fairness: weak fairness on the top half (a hard interrupt is taken while
  the line is asserted) and on the tasklet (a scheduled softirq runs).

### MGPUReset (done)

Models the health monitor of `part_004` (mgpu_health.c) and the reset of
`part_007` (mgpu_reset.c) with `mgpu_core_init` (mgpu_core.c).
`mgpu_health_check` runs in two contexts, `health_work` and the kthread
`mgpu_monitor_thread` (the constant `HealthCtx`).  `hang_check_work`
runs only the hang check (`HangCtx`).  No lock protects the monitor.

* State:
  * the device's condition `dev`: ok, hung, error (STATUS_ERROR latched) or dead;
  * the SCRATCH register and `heartbeat_counter`, modulo `HbMod`;
  * `consecutive_errors`, saturated at the threshold, since the code only
    compares it with `>=` and sets it to 0;
  * each context's program counter, the SCRATCH value it read and its
    `needs_reset`;
  * `in_reset`, whether reset_work is queued, and the work's program counter.
* Actions:
  * heartbeat `HbWrite` (counter++ and write), `HbRead`, `HbCompare`
    (compare with the counter, re-read);
  * `ChkErrors`, `ChkHang` (hang check and decision), `HangCheck`;
  * `mgpu_reset_schedule` as `SchedCheck` (the `in_reset` test) and
    `SchedQueue` (queue the work);
  * the reset work: `WorkDequeue`, `WorkStart` (in_reset = 1, stop,
    wait_idle, irq_disable), `WorkResetHw` (fails on a dead device),
    `WorkReinit` (core_init and cmdq_resume), `WorkOut` (in_reset = 0 on
    every path);
  * `DeviceFault`.
* The poll loops of `mgpu_reset_hw` (part_007) and `mgpu_core_reset`
  (mgpu_core.c 105-141) are the operator `PollLoop`, a RECURSIVE
  translation of `while (timeout--) { if (idle) break; ... }` followed by
  `if (timeout <= 0)`.  The device goes idle on some poll `k` in
  `IdlePolls` (never, when dead); the constants `HwPolls` and `CorePolls`
  stand for the code's budgets.  Idle on the last poll leaves `timeout` at
  0, so the reset reports -ETIMEDOUT although the device recovered: the
  off-by-one is modelled, and in `WorkReinit` it leaves the IRQs off.
* `irqOn` is IRQ_ENABLE: `WorkStart` clears it (`mgpu_irq_disable`; the
  failure of `mgpu_core_wait_idle` is only logged) and `WorkReinit` sets it
  again only when `mgpu_core_init` gets past its core reset
  (`mgpu_irq_init` zeroes `irq_status`).  `errIrq` is an ERROR interrupt
  raised while IRQs are on.  `HandleError`, run by the tasklet context of
  `IrqCtx`, is the ERROR branch of the tasklet with
  `mgpu_core_handle_error`, which calls `mgpu_reset_schedule` unless a
  reset is in progress.
* `mgpu_core_test_alive` (`TestAlive`), called in the reset, leaves
  `~0xDEADBEEF` (`TestPattern`) in SCRATCH.  A dead device reads back
  `Garbage`.
* `reset_count` and the statistics are left out: no control flow reads them.
* Fairness: weak fairness on each checking context (each work re-arms
  itself and the kthread loops), and on the reset work (the system
  workqueue runs queued work), and on the tasklet (a scheduled softirq
  runs).  Faults are not forced.
* `mgpu_health_init` (part_004 338) has no caller in the tree, so in the
  loaded driver `health_work`, the monitor kthread and `hang_check_work`
  never start.  The heartbeat race and the health contexts are therefore
  the file's own contract, checked as written; of this module only the
  tasklet's ERROR path into `mgpu_core_handle_error` (`HandleError`) and
  the reset work it schedules are live.

### MGPUSched (done)

Models the job scheduler `mgpu_sched.c` for one queue.  Nothing outside
the file calls it, so the model follows the code as written, through the
public entry points (`mgpu_sched_submit`, `mgpu_sched_cancel_job`), the
scheduler thread and the timeout work.

* The lists are modelled at pointer level.  `lnk` holds the `next` and
  `prev` of every job's single `list` node and of every list head
  (`all_jobs`, `completed_jobs`, `pending[0..3]`).  `ListAddTail`,
  `ListAdd`, `ListDel` (which poisons) and `ListMoveTail` are the
  `<linux/list.h>` operations.  `Walk` is `list_for_each_entry`: it stops
  at the head, at the first node that is not a job, or after more jobs
  than exist.
* Dereferencing a poisoned node is an oops.  A walk that leaves its list
  reads a list head as a job, which is undefined behaviour.  Both stop the
  model (`broken`).
* Actions:
  * the submitting thread's `SubAlloc`, `SubCopy` (kmemdup may fail),
    `SubQueue` (`cmd_size == 0` fails) and `SubWait` (timeout sets
    TIMEOUT);
  * `ProcessQueue` with `Scan` and `QueueSubmitJob` (ring submission
    succeeds or fails);
  * `TimeoutSweep`, `CancelFind` and `CancelComplete`.
* `Fini` is `mgpu_sched_fini` with `mgpu_queue_destroy` (`QueueDestroy`),
  taken once no submission or cancel is in flight: the first job left in a
  priority bucket is `list_del`'d and then `list_move_tail`'d by
  `mgpu_job_complete`, an oops; with empty buckets every job is freed and
  the scheduler is gone.  The run does not check deadlock, since a freed
  scheduler and an oops both end a behaviour.
* Dependencies and `mgpu_queue_irq_handler` are left out: they have no
  caller.  `mgpu_sched_get_stats` only reads.

### MGPUBo (done)

Models the lifetime of one buffer object as `part_008` manages it: the
functions the ioctl switch of `part_007` and `mgpu_fops.mmap` call.  The
file does not compile as it stands (it defines `mgpu_bo_vm_open` and
`mgpu_bo_vm_close` twice, 668-680 and 774-786, identically), so the model
takes the single behaviour both copies share.

* State: `obj` (the `kzalloc`ed structure: none, live, kfreed), `mem`
  (its DMA memory), `ref` (`bo->refcount`), `inIdr`, `inTree`, `inList`
  (membership of the handle IDR, the offset tree and `mdev->bo_list`),
  `filp`, and `vmas`, the number of VMAs whose `vm_private_data` is the
  BO.  Sizes, flags, addresses and offsets are left out; the BO has one
  handle and one offset range.
* Threads issue syscalls (`Syscall`, bounded by `MaxOps`); each syscall
  is split where it drops a lock, because nothing serialises the ioctls
  (`unlocked_ioctl`, no driver mutex):
  * `Create` (up to `idr_alloc`), `CreateOffset` and `CreateList`;
  * `Destroy` (the lookup), `DestroyPut1` and `DestroyPut2`;
  * `MmapIoctl` (the lookup) and `MmapIoctlPut` (sets `filp`, puts);
  * `Mmap` (`mgpu_bo_lookup_by_offset`), then `MmapCheckFail` (the
    -EPERM, size and `remap_pfn_range` error returns, each of which
    puts) or `MmapCheckMap`;
  * `VmOpen` (fork) and `VmClose` (munmap or exit).
* `BoPut` is `kref_put`.  The put that reaches zero sends its thread
  through `mgpu_bo_free` in the order of the code: `FreeUnlink` (list
  and tree, each under its own lock), `FreeMem`, `FreeHandle` (the
  IDR, under the IDR lock) and `FreeStruct` (`kfree`).  Then the caller
  resumes (`ret`).
* `uaf` records any `kref_get` on a count of zero and any access to a
  kfreed structure.  These are the events KASAN or the refcount
  warnings report.
* `handleRef` and `holders` are history variables.  They record who
  owns each reference: the handle until a destroy drops it, and a thread
  between its lookup and its put.
* `mgpu_gem.c` has the same lookup, alloc/free handle, create, destroy,
  put and free code as `part_008`, less the offset tree and `filp`;
  `PROJECT.json` maps the shared definitions to that file.

### MGPUBoLifecycle (abstract specification)

What the reference count of a BO promises, with no locks, indexes or free
steps: a BO is created live, owned by its handle; a live BO gains owners
(`Acquire`: a lookup, `MapFrom`: a mapping made from a lookup, `CopyMap`:
fork); owners let go one at a time (`Release`, `Unmap`, `DropHandle`), and
the step that removes the last owner is the one that makes it dead.  A
dead BO gains no owner.

`MGPUBo` is meant to implement it under the refinement mapping `Life` (in
`MGPUBo.tla`): `life` is unborn before `kzalloc`, live while the structure
exists with a positive count, dead otherwise; `handle`, `users` and `maps`
are the history variables `handleRef`, `holders` and `vmas`.  The steps of
`mgpu_bo_free` after the last put are stuttering steps of the abstract
specification.  The check (`MGPUBo_refine.cfg`, `LifecycleRefined`) holds
with one destroy but fails with two: the second destroy of a mapped BO's
handle is a `DropHandle` with no handle left to drop.

### MGPUValidator (done)

One call of `mgpu_submit_validated` on a user buffer `in` (a sequence of
32-bit dwords) and a byte size `cmdSize`.  Headers are decoded through the
bitfields of `struct mgpu_cmd_header` (`Opcode`, `HdrSize`).  The table
`cmd_validators` is the set `CmdValidators`.  The DRAW, DMA and FENCE
checks are `DrawOK`, `DmaOK` and `FenceOK`.

* `Entry` models the sanity checks on the size (0, above
  `MGPU_RING_SIZE_MAX`, not a multiple of 4), the `kmalloc` (may fail) and
  `copy_from_user` (may fault).
* `WalkStep` models one iteration of the `while` loop of
  `mgpu_validate_commands`, in the code's order:
  1. the lookup;
  2. the min/max size check;
  3. the truncation check (`ptr + size > count + 1`, read as the code
     writes it);
  4. the per-opcode validator;
  5. the rewrite of REG_WRITE/REG_READ to NOP in the kernel copy;
  6. the advance.
* `WalkDone` is the loop exit.
* `Submit` hands the copy to `mgpu_submit_commands`.  That function
  performs `copy_from_user` on its argument, and here the argument is a
  kernel pointer, so the call always fails with -EFAULT.  The model
  returns -EFAULT for that reason, and nothing after validation is
  reachable.

The reference `WellFormed(b, vb)` is written from section 4.G, not from
the code.  It holds when some set of record starts tiles the buffer.
Each record has a known opcode and a size within the bounds section 4.G
gives (`SpecSizes`: REG_READ 3..3, where the code's table has 2..3), and
satisfies the spec's extra rules (`SpecRule`):
* DRAW: vertex count 1..65536, instance count at least 1, and VERTEX_BASE
  programmed;
* DMA: size 1..2^24 and 4-byte aligned addresses;
* FENCE: an aligned address.

`Disarmed` is the expected copy after the rewrite, with the privileged
opcodes of section 4.G (`SpecPrivileged`: REG_WRITE and REG_READ).

### MGPUPipeline (done)

`mgpu_pipeline.c` among two threads calling `mgpu_pipeline_draw` once each
(`Callers`), one thread calling `mgpu_pipeline_flush`, `_stall` or
`_resume` once (`Controllers`), the kworker running `pipeline_work` (`Worker`), and the
driver's init and fini.  `mgpu_pipeline_init` has no caller anywhere in
the tree, and `mgpu_pipeline_draw` is called only by a self-test that
finds no manager.  The module therefore checks the contract the file
offers its callers, not a path the loaded driver takes.

* State: `mgr` (`mdev->pipeline_mgr`: unprobed, live, failed allocation,
  freed), `pstate` (`mgr->state`), `lock` (`state_lock`), `cfg` (the
  configuration fields a stage reads, each holding the caller that wrote
  it), `pending` (`pipeline_work` queued), `pc`/`async`/`ret` per caller,
  and `epc` per executor of `mgpu_pipeline_execute`.  The history variables
  `ran` and `reads` record the stages a frame completed and whose
  configuration it read.  `control` is the CONTROL register as the set of
  its bits the driver sets (ENABLE, PAUSE, FLUSH_CACHE; core init leaves
  ENABLE).  `kpc`/`kop` are a controller's place and call, and `saved` is
  the CONTROL value an executor or controller read.
* Actions:
  * `MgrInit` is `mgpu_pipeline_init`, where the kzalloc may fail.
  * `DrawBegin` is the -ENODEV check and `config_vertex_fetch`, with -EINVAL.
  * `DrawShaders` writes the shader slots, unlocked.
  * `DrawOther` is the rasterizer, fragment and framebuffer config, which
    no stage reads.
  * `DrawDispatch` queues the work and returns 0, or calls execute.
  * `ExecLock` takes the lock and is -EBUSY unless the state is PIPE_IDLE.
  * `FetchRead` is the vertex fetch's read of CONTROL, under the lock.
  * `ExecStage` runs one stage with its outcomes: -ETIMEDOUT from the
    vertex poll, -EIO from a halted shader.  A vertex fetch first writes
    back what `FetchRead` read, with ENABLE set.
  * `CtlRead` is the unlocked read of CONTROL that starts flush, stall or
    resume.  `CtlWrite` writes back the read value with FLUSH_CACHE set,
    PAUSE set, or PAUSE cleared.  resume's `wake_up_all(&stage_wait)`
    wakes nobody, since nothing waits on `stage_wait`.
  * `FlushRestore` is flush's IDLE poll, then its write of the value it
    read before the flush.  The poll outcome changes only flush's return
    value, which nobody uses.
  * `ExecRelock` takes the lock again after `cond_resched`.
  * `WorkStart` is the work handler.
  * `Fini` is `cancel_work_sync`, then kfree, once no draw or control is
    in progress.
* Execute drops `state_lock` between stages.  The only thing that keeps a
  second frame out is the PIPE_IDLE check.
* Fairness: weak fairness on each caller's steps inside a draw or a
  control, on each executor's steps in execute, and on the workqueue
  starting queued work.
  A thread in a system call keeps running, and the workqueue runs queued
  work.  Nothing forces a draw to be made, or init or fini to run.

## 3. Runs

| Run | Expect | What it shows |
|-----|--------|---------------|
| `ring_safety` | pass | With the dword space function the ring is a FIFO: every dword written is fetched once, in order, never overwritten (`FifoExecution`), and `written - fetched = (tail - head) mod N` (`InFlightAccounting`). Two ioctl submitters, no DMA copier (the copier's byte space is the lap below). |
| `fence_one_cell` | pass | With one fence cell: WAIT_FENCE returns 0 only if the cell reached the value (`SuccessOnlyWhenSignaled`); the wait list holds exactly the enrolled entries, each once (`WaitListWellFormed`); a waiter whose cell was written is eventually released (`WakeupNotLost`). |
| `fence_lost_wakeup` | violation | With two cells, a FENCE_VALUE for one cell marks the other cell's waiter; it re-checks, sleeps again, and is never woken when its own cell is written (hangs forever with timeout 0). |
| `irq_one_cpu` | pass | With the mgpu_irq.c pair on one CPU, every acknowledged cause reaches the tasklet (`NoLostInterrupt`) and is eventually dispatched (`DispatchEventually`). |
| `irq_smp_race` | violation | On SMP the top half's unlocked `irq_status \|= status` is interleaved with the tasklet's read-and-clear, and the clear erases a bit just stored. |
| `ring_sync_stale_head` | violation | The SYNC poll of `mgpu_submit_commands` reads CMD_HEAD and then CMD_TAIL, without `cmd_lock`. Between the two reads another submitter brings CMD_TAIL onto the stale head value, and the call returns 0 while its commands are still in the ring (`SyncSuccessMeansExecuted`). |
| `reset_recovery` | pass | With the two health contexts, hang_check_work, the tasklet's ERROR path and the reset work racing, and the reset's poll loops taking any number of polls, a hung or error-latched device is always detected and reset back to ok (`FaultEventuallyCleared`); a request dropped while `in_reset` is set is retried by the next check. |
| `reset_heartbeat_race` | violation | health_work and the monitor kthread share the unlocked heartbeat: one reads back its own value, the other increments the counter, and the first reports a miss on a healthy device (`HeartbeatMissOnlyWhenDead`), scheduling a GPU reset. |
| `bo_sequential` | pass | A single thread on two open files, through every order of create, up to two destroys, the mmap ioctl, mmap (all error returns), fork and munmap. Once the handle is destroyed and the mappings are gone, the BO, its memory, handle, tree node and list link are all released (`NoLeak`). |
| `bo_double_destroy` | violation | One thread creates a BO, maps it and destroys the handle twice. The handle is still in the IDR (only `mgpu_bo_free` removes it), so the second destroy puts the creation reference again; the BO is freed while mapped and the later munmap puts freed memory (`NoUseAfterFree`). |
| `pipeline_draws` | pass | With two drawing threads (sync or async, valid or not), a thread calling flush, stall or resume, the kworker, init and fini: at most one execute is inside a frame, and the state is PIPE_IDLE exactly when none is (`OneFrameAtATime`); a synchronous draw returning 0 ran the four stages in order (`SyncSuccessRanWholeFrame`); every draw call returns (`DrawReturns`). |
| `bo_destroy_race` | violation | One MGPU_BO_DESTROY drops the last reference. Before `mgpu_bo_free` removes the handle, another thread's MGPU_BO_MMAP looks it up and `kref_get`s a count of zero; the BO is kfreed under it (`NoUseAfterFree`). The same window lets a destroy of a freshly published handle free a BO that `mgpu_bo_create` is still initialising. |

Bounds: a ring of 8 dwords (the code's minimum is 1024; the accounting is
the same modulo N), command sizes {1, 3} dwords plus the 3-dword FENCE
packet, so a single submission can occupy up to 6 of the 7 usable slots
and two submissions lap the ring; two submitters with one submission
each, under symmetry (68,873 distinct states; three submitters take
14.6 million states and more than three minutes, and add no interleaving
the properties tell apart from two); a SYNC budget of 1 (the code's 1000) so that the last
iteration is reachable.  All submitter actions fire in `ring_safety`; the copier's actions fire in
`MGPURing_dma_lap.cfg`.  The pipeline
has two drawers (enough for one to meet another's running frame and for
unlocked configuration writes to cross a frame) and one controller: a
single flush, stall or resume already overlaps a frame's vertex fetch.
`pipeline_draws` reaches 62,540 distinct states and fires every action.

Fence bounds: two waiters, fence values 1..2 (so a waiter can see the
cell short of its value and then reached), one cell for the passing run
and two for the lost wake-up (the bug needs a second cell), and a 2-bit
seqno in place of 32 bits (the wrap is the same at any width).

IRQ bounds: two interrupt causes (a loss needs two distinct causes: with
one, a lost bit is always re-delivered by the same store), 3 or 4 device
events (enough for two top halves around one tasklet run).  Symmetry over
the causes is used only in the safety-only run.

Scheduler bounds: two jobs (the second is needed to see a job reached
through another's links), caller priorities 0 and 3 (default and
realtime), queue depth 16 as in the code.

Reset bounds: two health contexts and one hang context (the race needs two
contexts doing heartbeats).  One device fault, of any kind.  A spurious
reset can happen before it, so a reset that left `in_reset` set would
still be caught.  An error threshold of 2 (the code's 10; the counter
saturates at it either way).  One tasklet context for the ERROR
interrupt.  Poll budgets of 2 for both loops: the device can go idle on the
first poll (success) or the last (the off-by-one); a dead device never.
Heartbeat values modulo 3: a compare sees the
counter at most one step per other context ahead of its write, so values
modulo a number greater than the number of contexts never collide falsely.

Buffer-object bounds: one thread and six syscalls for the sequential run,
with up to two destroys (enough for create, mmap, fork, a destroy and a
lookup, and two files so that the -EPERM return is taken); two threads with two syscalls each and
one destroy for the race (the race needs only a destroy and one lookup;
the second destroy of the same handle is its own run,
`bo_double_destroy`).

Validator bounds: buffers of 0 to 5 dwords over 8 dword values.  The
values are a NOP, a size-0 header, REG_WRITE and REG_READ headers of a
size that fits, DRAW, DMA and FENCE headers, and one data value above
2^24.  Sizes of 5 dwords cover a DRAW record (4 dwords) followed by another
record, and a DMA record (4 dwords) that is truncated or cut short.  The
data values 0 and 256 serve as the out-of-range and aligned values of
every field.  The byte size is the exact size, the exact size plus 2
(unaligned) and `MGPU_RING_SIZE_MAX + 4`, which is the code's real
constant.

Pipeline bounds: two callers, one call each.  Two are needed for -EBUSY,
for a sync frame racing the kworker, and for the torn configuration.
A second call by the same thread adds nothing that another caller does
not.  Every stage outcome the code can produce is enumerated.

Issues found while modelling and kept as hazards without a run (see
`PROJECT.json`): the file defines `mgpu_ring_space` twice, and the byte
version (the constant `SpaceInBytes`, and the only one `mgpu_dma.c` has)
lets tail lap head; the SYNC poll
reports -ETIMEDOUT when the ring drains on its last iteration; the 32-bit
fence seqno wraps to 0; `mgpu_reset_work` calls `mgpu_cmdq_stop`, which no
file defines, and `mgpu_cmdq_resume`, which restores CMD_HEAD to a
`last_head` only `mgpu_cmdq_suspend` saves; `mgpu_gem_cleanup` puts each
BO after `list_del` and then reads the freed refcount; the poll loops of
`mgpu_reset_hw` and `mgpu_core_reset` report -ETIMEDOUT when the device
goes idle on the last poll, and a reset failing in `mgpu_core_init` leaves
IRQ_ENABLE cleared, so no further interrupt (fence completion or ERROR) is
delivered until the next reset.  These are modelled in `MGPUReset` but not
checked by a property of their own.

More issues, recorded here without a run:
* `mgpu_dma_copy` waits for space with the byte `mgpu_ring_space` of
  `mgpu_dma.c`, so its 5-dword packet can take tail onto head: the ring
  looks empty, `mgpu_core_wait_idle` sees the device idle and the copy
  returns 0 with nothing executed.  `MGPURing_dma_lap.cfg` shows it with
  `WaitedCopyExecuted`.  Only the self-test calls `mgpu_dma_copy`.
* `MGPUBo` does not refine `MGPUBoLifecycle`: `MGPUBo_refine.cfg` fails
  `LifecycleRefined` at the second destroy of `bo_double_destroy`, which
  drops a reference the handle no longer owns.
* `MGPUValidator_walk.cfg` (every buffer of up to 5 dwords) passes
  `CopyDisarmed` and `Terminates`; it is not a recorded run because only
  KUnit calls the validator.
* When the write of the FENCE packet in `mgpu_submit_commands` times out
  waiting for space, the commands already written stay in the ring and are
  executed after another submitter's kick, although the caller got
  -ETIMEDOUT.  `MGPURing_fence_partial.cfg` (three submitters) shows it
  with `ExecutedWereKicked`.
* The first `mgpu_sched_submit` links `job->list` into `all_jobs` and
  then, without unlinking it, into its priority bucket, so `all_jobs` no
  longer leads back to its head.  `MGPUSched_lists.cfg` shows it with
  `ListsWellFormed`.  No run records it, because nothing outside
  `mgpu_sched.c` calls the scheduler.
* `mgpu_pipeline_flush`, `_stall` and `_resume` read-modify-write CONTROL
  without `state_lock`, and the vertex fetch does so under it.  A fetch
  that reads CONTROL during a flush writes FLUSH_CACHE back after the
  flush has cleared it.  A flush or fetch that read CONTROL before a
  concurrent stall wrote PAUSE writes it back without PAUSE.
  `MGPUPipeline_control.cfg` shows the first with `FlushBitCleared`.  No
  run records it, because `mgpu_pipeline_init` has no caller.
* `mgpu_pipeline_draw` writes the vertex-fetch and shader configuration
  without `state_lock`.  Another draw can therefore overwrite it between
  two stages of a running frame, and a synchronous draw then returns 0
  for a frame that rendered a mix of two draws.
  `MGPUPipeline_torn.cfg` shows it with `SyncFrameUsesOwnDraw`.
* An async draw returns 0, yet its frame is never rendered in three cases:
  * the work item is already queued;
  * the work meets -EBUSY;
  * `mgpu_pipeline_fini` cancels it.
* In `mgpu_pipeline_execute`:
  * `complete(&pipeline_complete)` is never reached, because the loop
    exits on PIPE_DONE first;
  * `frames_rendered` also counts failed frames.
* `mgpu_submit_validated` always fails with -EFAULT (see `MGPUValidator`).
* The code's table gives REG_READ 2..3 dwords where section 4.G gives
  3..3.  `MGPUValidator_grammar.cfg` shows it with
  `ValidationDecidesGrammar`: the walk accepts `<<519, 0>>`.
* A rewritten privileged record keeps its size, so NOPs of 2 or 3 dwords
  reach the ring, where section 4.G allows only 1.
* `mgpu_irq_wait` compares `last_irq` without the lock that the tasklet
  holds when it writes it.

## 4. Plan

Modules, in the order they are built (the ring first, as every other part
feeds or reads it):

1. `MGPURing` — done (above).
2. `MGPUFence` — done (above): seqno allocation, `mgpu_fence_signaled`,
   `mgpu_fence_process` driven by the tasklet and `mgpu_wait_fence` with a
   timeout, against a device writing fence cells and FENCE_VALUE.
   Properties: a waiter whose fence has been written is eventually woken
   (liveness under fair tasklet scheduling; expected to fail with more
   than one fence cell, since fence_process compares the FENCE_VALUE
   register, not the waiter's cell); seqno never 0; signaled only after the
   device reached the value, with a reduced counter width to reach the
   wrap.
3. `MGPUIrq` — done (above): the top half and the tasklet on two CPUs: every status bit
   acknowledged in IRQ_STATUS is eventually dispatched (fails when the top
   half's unlocked `|=` races with the tasklet's read-and-clear, and with
   the overwriting top halves of `part_006`/`part_007`).
4. `MGPUReset` — done (above): the health checks from several contexts,
   reset_schedule and reset_work's steps and failure exits.
5. `MGPUSched` — done (above).  The job lifecycle of the spec could not
   be checked as a refinement: every behaviour reaches the list corruption
   at the first submission.
6. `MGPUBo` — done (above).  The refinement of `MGPUBoLifecycle` fails
   on the double destroy (`MGPUBo_refine.cfg`).
7. `MGPUSubmit` — composition of ring, fence and IRQ: a fenced submission
   is eventually observed complete by its waiter.
8. `MGPUValidator` — done (above).  The walk is modelled step by step
   rather than as an operator, since its failure exits and the rewrite of
   the copy are interleaved with the checks.
9. `MGPUPipeline` — done (above), with flush, stall and resume.  The
   monitor work (never scheduled) and the statistics calls are left out.
10. `MGPUPower` — not built.  `mgpu_pm_ops` is referenced by no driver
   structure and `mgpu_pm_init` has no caller, so no suspend or resume
   ever runs.  What it would have checked on the live path,
   reset_work's call of `mgpu_cmdq_resume` with a `last_head` of 0, is
   noted under the issues above.
