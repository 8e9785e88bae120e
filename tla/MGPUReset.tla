------------------------------ MODULE MGPUReset ------------------------------
(***************************************************************************)
(* Health monitoring and GPU reset.                                        *)
(*                                                                         *)
(* src/unnamed/part_004 (mgpu_health.c): mgpu_health_check, run both by   *)
(* the delayed work health_work and by the kthread mgpu_monitor_thread,    *)
(* and mgpu_health_check_hang, run alone by hang_check_work.  None of them *)
(* takes a lock on the monitor.                                            *)
(* src/unnamed/part_007 (mgpu_reset.c): mgpu_reset_schedule and the        *)
(* delayed work mgpu_reset_work.                                           *)
(* src/kernel/drivers/gpu/mgpu/mgpu_core.c: mgpu_core_init, core_reset,   *)
(* test_alive and wait_idle, which the reset work calls, and              *)
(* mgpu_core_handle_error, which the IRQ tasklet (part_002) calls on an   *)
(* ERROR interrupt.                                                        *)
(*                                                                         *)
(* The device is abstracted to its condition: "ok", "hung" (busy with      *)
(* CMD_HEAD and FENCE_VALUE unchanged for longer than the hang timeout),   *)
(* "error" (STATUS_ERROR latched; STATUS is read-only, so the monitor's   *)
(* write clearing it has no effect) or "dead" (SCRATCH no longer reads     *)
(* back what was written, and the device never leaves reset).             *)
(***************************************************************************)
EXTENDS Integers, FiniteSets

CONSTANTS
    HealthCtx,       \* contexts running mgpu_health_check (work, kthread)
    HangCtx,         \* contexts running only mgpu_health_check_hang
    IrqCtx,          \* the IRQ tasklet, whose error branch runs mgpu_core_handle_error
    Faults,          \* conditions the device may fall into
    MaxFaults,       \* bound on device faults
    ErrorThreshold,  \* MGPU_ERROR_THRESHOLD (10 in the code)
    HbMod,           \* heartbeat values are kept modulo HbMod
    Garbage,         \* what SCRATCH reads on a dead device
    TestPattern,     \* ~0xDEADBEEF, left in SCRATCH by mgpu_core_test_alive
    HwPolls,         \* STATUS polls of mgpu_reset_hw (1000 in the code)
    CorePolls        \* STATUS polls of mgpu_core_reset (100 in the code)

ASSUME Faults \subseteq {"hung", "error", "dead"}
ASSUME ErrorThreshold \in Nat \ {0} /\ MaxFaults \in Nat
ASSUME HwPolls \in Nat \ {0} /\ CorePolls \in Nat \ {0}
(* Between a context's SCRATCH write and its compare, the counter moves by *)
(* at most one step per other context: values modulo HbMod stay distinct.  *)
ASSUME HbMod > Cardinality(HealthCtx)

Ctx == HealthCtx \cup HangCtx

CapAt(n, cap) == IF n > cap THEN cap ELSE n

VARIABLES
    dev,         \* device condition
    scratch,     \* SCRATCH register
    hbCounter,   \* monitor->heartbeat_counter
    consec,      \* monitor->consecutive_errors, saturated at ErrorThreshold
    pc,          \* per context: "idle", "hb_read", "hb_cmp", "errors",
                 \*   "hang", "decide", "sched"
    hbVal,       \* per context: the SCRATCH value it read back
    needs,       \* per context: needs_reset
    inReset,     \* mdev->in_reset
    pending,     \* reset_work queued
    wpc,         \* reset work: "idle", "start", "hw", "reinit", "out"
    faults,      \* number of faults so far
    irqOn,       \* IRQ_ENABLE holds the driver's mask (mgpu_irq_enable)
    errIrq       \* an ERROR interrupt cause is waiting for the tasklet

vars == <<dev, scratch, hbCounter, consec, pc, hbVal, needs,
          inReset, pending, wpc, faults, irqOn, errIrq>>

monitorVars == <<hbCounter, consec, pc, hbVal, needs>>
resetVars == <<inReset, pending, wpc>>
irqVars == <<irqOn, errIrq>>

-----------------------------------------------------------------------------
(* mgpu_health_init (part_004 338-377) and mgpu_reset_init (part_007      *)
(* 635-646): counters zero, no reset in progress.                          *)
Init ==
    /\ dev = "ok"
    /\ scratch = 0
    /\ hbCounter = 0
    /\ consec = 0
    /\ pc = [c \in Ctx |-> "idle"]
    /\ hbVal = [c \in Ctx |-> 0]
    /\ needs = [c \in Ctx |-> FALSE]
    /\ inReset = FALSE
    /\ pending = FALSE
    /\ wpc = "idle"
    /\ faults = 0
    /\ irqOn = TRUE
    /\ errIrq = FALSE

(* The device develops a fault.  Latching STATUS_ERROR raises the ERROR   *)
(* interrupt when IRQ_ENABLE lets it through; the top half hands the      *)
(* cause to the tasklet (MGPUIrq models that hand-over).                   *)
DeviceFault ==
    /\ dev = "ok"
    /\ faults < MaxFaults
    /\ \E f \in Faults :
          /\ dev' = f
          /\ errIrq' = (errIrq \/ (f = "error" /\ irqOn))
    /\ faults' = faults + 1
    /\ UNCHANGED <<scratch, monitorVars, resetVars, irqOn>>

-----------------------------------------------------------------------------
(* mgpu_health_check_heartbeat (part_004 100-122): counter++ and the       *)
(* write of the counter to SCRATCH (a dead device ignores the write).      *)
HbWrite(c) ==
    /\ pc[c] = "idle"
    /\ hbCounter' = (hbCounter + 1) % HbMod
    /\ scratch' = IF dev = "dead" THEN scratch ELSE (hbCounter + 1) % HbMod
    /\ pc' = [pc EXCEPT ![c] = "hb_read"]
    /\ needs' = [needs EXCEPT ![c] = FALSE]
    /\ UNCHANGED <<dev, consec, hbVal, resetVars, faults, irqVars>>

(* scratch = mgpu_read(SCRATCH).                                           *)
HbRead(c) ==
    /\ pc[c] = "hb_read"
    /\ hbVal' = [hbVal EXCEPT ![c] = IF dev = "dead" THEN Garbage ELSE scratch]
    /\ pc' = [pc EXCEPT ![c] = "hb_cmp"]
    /\ UNCHANGED <<dev, scratch, hbCounter, consec, needs, resetVars, faults, irqVars>>

(* if (scratch != monitor->heartbeat_counter): the counter is read again   *)
(* here; a miss sets needs_reset (part_004 234-237).                       *)
HbCompare(c) ==
    /\ pc[c] = "hb_cmp"
    /\ needs' = [needs EXCEPT ![c] = hbVal[c] # hbCounter]
    /\ pc' = [pc EXCEPT ![c] = "errors"]
    /\ UNCHANGED <<dev, scratch, hbCounter, consec, hbVal, resetVars, faults, irqVars>>

(* mgpu_health_check_errors (part_004 176-221), with the threshold test    *)
(* of mgpu_health_check (240-250).  consecutive_errors only meets          *)
(* ">= MGPU_ERROR_THRESHOLD" and "= 0", so it saturates at the threshold.  *)
(* The write clearing STATUS_ERROR hits a read-only register: the error    *)
(* stays latched.                                                          *)
ChkErrors(c) ==
    /\ pc[c] = "errors"
    /\ consec' = IF dev = "error" THEN CapAt(consec + 1, ErrorThreshold) ELSE 0
    /\ needs' = [needs EXCEPT ![c] = @ \/ (dev = "error" /\ consec + 1 >= ErrorThreshold)]
    /\ pc' = [pc EXCEPT ![c] = "hang"]
    /\ UNCHANGED <<dev, scratch, hbCounter, hbVal, resetVars, faults, irqVars>>

(* mgpu_health_check_hang (part_004 125-173) and the decision at 252-263:  *)
(* a hung device (busy, head and fence stuck past the timeout) is          *)
(* reported; needs_reset leads to mgpu_reset_schedule.                     *)
ChkHang(c) ==
    /\ pc[c] = "hang"
    /\ pc' = [pc EXCEPT ![c] = IF needs[c] \/ dev = "hung" THEN "sched" ELSE "idle"]
    /\ UNCHANGED <<dev, scratch, hbCounter, consec, hbVal, needs, resetVars, faults, irqVars>>

(* mgpu_hang_check_work_func (part_004 283-299): only the hang check.      *)
HangCheck(c) ==
    /\ pc[c] = "idle"
    /\ dev = "hung"
    /\ pc' = [pc EXCEPT ![c] = "sched"]
    /\ UNCHANGED <<dev, scratch, hbCounter, consec, hbVal, needs, resetVars, faults, irqVars>>

(* The tasklet's MGPU_IRQ_ERROR branch (part_002 54-56) calls              *)
(* mgpu_core_handle_error (mgpu_core.c 212-224): it reads STATUS and, if ERROR is set, calls    *)
(* mgpu_reset_schedule, whose in_reset test and queueing the tasklet runs *)
(* without sleeping between them.                                          *)
HandleError(c) ==
    /\ errIrq
    /\ errIrq' = FALSE
    /\ pending' = (pending \/ (dev = "error" /\ ~inReset))
    /\ UNCHANGED <<dev, scratch, monitorVars, inReset, wpc, faults, irqOn>>

(* mgpu_reset_schedule (part_007 656-669), first half: if in_reset is set  *)
(* the request is dropped.                                                 *)
SchedCheck(c) ==
    /\ pc[c] = "sched"
    /\ pc' = [pc EXCEPT ![c] = IF inReset THEN "idle" ELSE "queue"]
    /\ UNCHANGED <<dev, scratch, hbCounter, consec, hbVal, needs, resetVars, faults, irqVars>>

(* Second half: reset_count++ (statistics, not modelled) and               *)
(* schedule_delayed_work, a no-op when the work is already queued.        *)
SchedQueue(c) ==
    /\ pc[c] = "queue"
    /\ pending' = TRUE
    /\ pc' = [pc EXCEPT ![c] = "idle"]
    /\ UNCHANGED <<dev, scratch, hbCounter, consec, hbVal, needs, inReset, wpc, faults, irqVars>>

HealthStep(c) ==
    \/ HbWrite(c) \/ HbRead(c) \/ HbCompare(c) \/ ChkErrors(c) \/ ChkHang(c)
    \/ SchedCheck(c) \/ SchedQueue(c)

HangStep(c) == HangCheck(c) \/ SchedCheck(c) \/ SchedQueue(c)

IrqStep(c) == HandleError(c)

-----------------------------------------------------------------------------
(* The workqueue takes the queued reset_work off the queue.               *)
WorkDequeue ==
    /\ pending
    /\ wpc = "idle"
    /\ pending' = FALSE
    /\ wpc' = "start"
    /\ UNCHANGED <<dev, scratch, monitorVars, inReset, faults, irqVars>>

(* mgpu_reset_work 583-598: in_reset = 1, then cmdq_stop, mgpu_core_wait_ *)
(* idle (mgpu_core.c 189-209: it polls STATUS for IDLE and not BUSY,      *)
(* gives up on ERROR or after 1000 ms; its failure is only logged),       *)
(* dump_state and mgpu_irq_disable, which clears IRQ_ENABLE.              *)
WorkStart ==
    /\ wpc = "start"
    /\ inReset' = TRUE
    /\ irqOn' = FALSE
    /\ wpc' = "hw"
    /\ UNCHANGED <<dev, scratch, monitorVars, pending, faults, errIrq>>

(* The value of timeout after "while (timeout--) { if (STATUS & IDLE)      *)
(* break; msleep(1); }", from poll i on, when the device first reads IDLE *)
(* at poll k (k = 0: never).  The caller reports -ETIMEDOUT when it is    *)
(* <= 0.                                                                   *)
RECURSIVE PollLoop(_, _, _)
PollLoop(timeout, i, k) ==
    IF timeout = 0 THEN -1
    ELSE IF k # 0 /\ i >= k THEN timeout - 1
    ELSE PollLoop(timeout - 1, i + 1, k)

(* mgpu_core_reset (mgpu_core.c 105-141): CONTROL = RESET, 10 ms,        *)
(* CONTROL = 0, then the wait for IDLE; it succeeds when the loop leaves  *)
(* timeout above zero, and then writes IRQ_ACK.                            *)
CoreReset(k) == PollLoop(CorePolls, 1, k) > 0

(* mgpu_core_test_alive (mgpu_core.c 144-173): SCRATCH = 0xDEADBEEF, read *)
(* back, SCRATCH = ~0xDEADBEEF, read back.  A device that answered the    *)
(* reset poll reads back what was written, and the inverted pattern stays *)
(* in SCRATCH.                                                             *)
TestAlive == scratch' = TestPattern

(* The poll at which a device that was just pulsed through reset reads    *)
(* IDLE: a dead device never does, a live one within the polls.           *)
IdlePolls(polls) == IF dev = "dead" THEN {0} ELSE 1 .. polls

(* mgpu_reset_hw (part_007 672-717): reset pulse, which brings a live     *)
(* device back to "ok", and the wait for IDLE; on -ETIMEDOUT the work     *)
(* jumps to out.  Otherwise IRQ_ACK and mgpu_core_test_alive.             *)
WorkResetHw ==
    /\ wpc = "hw"
    /\ \E k \in IdlePolls(HwPolls) :
          IF PollLoop(HwPolls, 1, k) <= 0
          THEN /\ dev' = IF dev = "dead" THEN dev ELSE "ok"
               /\ wpc' = "out"
               /\ UNCHANGED scratch
          ELSE /\ dev' = "ok"
               /\ TestAlive
               /\ wpc' = "reinit"
    /\ UNCHANGED <<monitorVars, inReset, pending, faults, irqVars>>

(* 608-622: mgpu_core_init (mgpu_core.c 13-84).  mgpu_core_reset pulses  *)
(* reset again and polls CorePolls times; on -ETIMEDOUT the               *)
(* work jumps to out with interrupts still disabled.  Otherwise            *)
(* mgpu_irq_init (part_002 81-113) zeroes irq_status, dropping a cause    *)
(* the tasklet has not taken, and enables interrupts; CONTROL = ENABLE;   *)
(* mgpu_core_test_alive cannot fail, as a device that died since the      *)
(* hardware reset never reads IDLE.  Then mgpu_cmdq_resume (part_000     *)
(* 357-381) writes CMD_HEAD back from last_head, 0 as nothing suspends the *)
(* queue, and ends without a return statement: the work's test of its     *)
(* value is undefined, and either way interrupts are already on from      *)
(* mgpu_irq_init, which is all mgpu_irq_enable would do.  Ring positions   *)
(* are not part of this module.                                            *)
WorkReinit ==
    /\ wpc = "reinit"
    /\ \E k \in IdlePolls(CorePolls) :
          IF ~CoreReset(k)
          THEN /\ dev' = IF dev = "dead" THEN dev ELSE "ok"
               /\ UNCHANGED <<scratch, irqVars>>
          ELSE /\ dev' = "ok"
               /\ TestAlive
               /\ irqOn' = TRUE
               /\ errIrq' = FALSE
    /\ wpc' = "out"
    /\ UNCHANGED <<monitorVars, inReset, pending, faults>>

(* The exit path without the atomic_set(&mdev->in_reset, 0).             *)
WorkOutNoClear ==
    /\ wpc = "out"
    /\ wpc' = "idle"
    /\ UNCHANGED <<dev, scratch, monitorVars, inReset, pending, faults, irqVars>>

(* out: in_reset = 0; wake_up_all(reset_wait).  Reached on success and on  *)
(* every failure.                                                          *)
WorkOut ==
    /\ wpc = "out"
    /\ inReset' = FALSE
    /\ wpc' = "idle"
    /\ UNCHANGED <<dev, scratch, monitorVars, pending, faults, irqVars>>

ResetWork == WorkDequeue \/ WorkStart \/ WorkResetHw \/ WorkReinit \/ WorkOut

Next ==
    \/ DeviceFault
    \/ \E c \in HealthCtx : HealthStep(c)
    \/ \E c \in HangCtx : HangStep(c)
    \/ \E c \in IrqCtx : IrqStep(c)
    \/ ResetWork

(* health_work and hang_check_work re-arm themselves and the monitor       *)
(* kthread loops: each context runs again after its interval; the system   *)
(* workqueue runs a queued work.  Device faults are not forced.            *)
Fairness ==
    /\ \A c \in HealthCtx : WF_vars(HealthStep(c))
    /\ \A c \in HangCtx : WF_vars(HangStep(c))
    /\ \A c \in IrqCtx : WF_vars(IrqStep(c))
    /\ WF_vars(ResetWork)

Spec == Init /\ [][Next]_vars /\ Fairness

-----------------------------------------------------------------------------
TypeOK ==
    /\ dev \in {"ok", "hung", "error", "dead"}
    /\ scratch \in (0 .. HbMod - 1) \cup {TestPattern}
    /\ hbCounter \in 0 .. HbMod - 1
    /\ consec \in 0 .. ErrorThreshold
    /\ pc \in [Ctx -> {"idle", "hb_read", "hb_cmp", "errors", "hang", "sched", "queue"}]
    /\ hbVal \in [Ctx -> (0 .. HbMod - 1) \cup {Garbage, TestPattern}]
    /\ needs \in [Ctx -> BOOLEAN]
    /\ inReset \in BOOLEAN /\ pending \in BOOLEAN
    /\ wpc \in {"idle", "start", "hw", "reinit", "out"}
    /\ faults \in 0 .. MaxFaults
    /\ irqOn \in BOOLEAN /\ errIrq \in BOOLEAN

(* A hung or error-latched device is eventually back to "ok": the health   *)
(* checks detect it, mgpu_reset_schedule queues reset_work and the work    *)
(* resets it, even when detection races a reset already under way.        *)
FaultEventuallyCleared == \A f \in {"hung", "error"} : (dev = f) ~> (dev = "ok")

(* mgpu_health_check reports a heartbeat miss (SCRATCH read back differs   *)
(* from heartbeat_counter) only when the device is really dead.           *)
HeartbeatMissOnlyWhenDead ==
    [][\A c \in HealthCtx :
         (pc[c] = "hb_cmp" /\ pc'[c] = "errors" /\ needs'[c]) => dev = "dead"]_vars
=============================================================================
