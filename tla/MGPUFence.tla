------------------------------ MODULE MGPUFence ------------------------------
(***************************************************************************)
(* The fence engine of the mgpu driver (mgpu_gem.c, fence part):          *)
(* mgpu_wait_fence run by user threads, mgpu_fence_process run by the IRQ  *)
(* tasklet, mgpu_fence_next, and the device writing fence cells and the   *)
(* FENCE_VALUE register.                                                   *)
(*                                                                         *)
(* wait_event_interruptible_timeout is modelled by its loop: the waiter   *)
(* evaluates mgpu_fence_signaled, sleeps if it is false, and re-evaluates *)
(* it after every wake_up_all, at the timeout and on a signal.  Its check *)
(* and going to sleep are one step, as prepare_to_wait makes them.        *)
(***************************************************************************)
EXTENDS Integers, Sequences, SequencesExt

CONSTANTS
    Waiters,    \* user threads in the WAIT_FENCE ioctl
    Cells,      \* fence cells of the fence page the device writes
    BadAddr,    \* a fence_addr outside the fence page
    MaxVal,     \* bound: the largest value the device writes to a cell
    SeqBits     \* width of the atomic seqno (32 in the code)

ASSUME MaxVal \in Nat \ {0} /\ SeqBits \in Nat \ {0}
ASSUME BadAddr \notin Cells

VARIABLES
    cell,       \* the fence page: current value of each cell
    fenceReg,   \* FENCE_VALUE register: the value last written to any cell
    irqPending, \* a fence interrupt is waiting for the tasklet
    waitList,   \* ctx->wait_list, in list order
    signaled,   \* wait_entry.signaled of each waiter
    wpc,        \* where each waiter is in mgpu_wait_fence
    addr, val,  \* args->fence_addr and args->fence_value of each waiter
    forever,    \* args->timeout_ms == 0: MAX_SCHEDULE_TIMEOUT
    ret,        \* the value wait_event_interruptible_timeout returned
    result,     \* what mgpu_wait_fence returned
    tpc,        \* the tasklet: idle, or scanning the wait list under wait_lock
    scanIdx,    \* the list position mgpu_fence_process looks at next
    wake,       \* mgpu_fence_process's local `wake`
    seqno,      \* ctx->seqno
    lastNext    \* the value the last mgpu_fence_next returned

vars == <<cell, fenceReg, irqPending, waitList, signaled, wpc, addr, val,
          forever, ret, result, tpc, scanIdx, wake, seqno, lastNext>>
waiterVars == <<waitList, signaled, wpc, addr, val, forever, ret, result>>
taskletVars == <<tpc, scanIdx, wake>>
deviceVars == <<cell, fenceReg, irqPending>>

Values == 1..MaxVal
SeqnoMod == 2 ^ SeqBits
Addrs  == Cells \cup {BadAddr}
\* wait_lock is held by the tasklet while it scans.
WaitLockFree == tpc = "idle"
\* The waiters that wait_event has not let go yet.
Enrolled == {w \in Waiters : wpc[w] \in {"check", "sleep", "remove"}}

\* Variant: the comparison is off by one.
FenceSignaledEarly(a, v) == IF a = BadAddr THEN TRUE ELSE cell[a] + 1 >= v

(***************************************************************************)
(* mgpu_fence_signaled: an address outside the fence page counts as       *)
(* signaled; otherwise READ_ONCE(cell) >= value.                           *)
(***************************************************************************)
FenceSignaled(a, v) == IF a = BadAddr THEN TRUE ELSE cell[a] >= v

-----------------------------------------------------------------------------

Init ==
    /\ cell = [c \in Cells |-> 0]
    /\ fenceReg = 0
    /\ irqPending = FALSE
    /\ waitList = << >>
    /\ signaled = [w \in Waiters |-> FALSE]
    /\ wpc = [w \in Waiters |-> "idle"]
    /\ addr = [w \in Waiters |-> BadAddr]
    /\ val = [w \in Waiters |-> 1]
    /\ forever = [w \in Waiters |-> FALSE]
    /\ ret = [w \in Waiters |-> "none"]
    /\ result = [w \in Waiters |-> "none"]
    /\ tpc = "idle" /\ scanIdx = 1 /\ wake = FALSE
    /\ seqno = 0 /\ lastNext = 0

(***************************************************************************)
(* mgpu_wait_fence entry: the fast path returns 0 when the fence already *)
(* reads as signaled; otherwise the waiter goes on to enroll.             *)
(***************************************************************************)
WaitBegin(w) ==
    /\ wpc[w] = "idle"
    /\ \E a \in Addrs, v \in Values, f \in BOOLEAN :
          /\ addr' = [addr EXCEPT ![w] = a]
          /\ val' = [val EXCEPT ![w] = v]
          /\ forever' = [forever EXCEPT ![w] = f]
          /\ \/ /\ FenceSignaled(a, v)
                /\ wpc' = [wpc EXCEPT ![w] = "done"]
                /\ result' = [result EXCEPT ![w] = "ok"]
             \/ /\ ~FenceSignaled(a, v)
                /\ wpc' = [wpc EXCEPT ![w] = "enroll"]
                /\ UNCHANGED result
    /\ UNCHANGED <<waitList, signaled, ret>>
    /\ UNCHANGED <<deviceVars, taskletVars, seqno, lastNext>>

\* list_add_tail of the on-stack wait_entry under wait_lock.
Enroll(w) ==
    /\ wpc[w] = "enroll"
    /\ WaitLockFree
    /\ waitList' = Append(waitList, w)
    /\ signaled' = [signaled EXCEPT ![w] = FALSE]
    /\ wpc' = [wpc EXCEPT ![w] = "check"]
    /\ UNCHANGED <<addr, val, forever, ret, result>>
    /\ UNCHANGED <<deviceVars, taskletVars, seqno, lastNext>>

\* wait_event evaluates the condition; false puts the waiter to sleep.
CheckCond(w) ==
    /\ wpc[w] = "check"
    /\ \/ /\ FenceSignaled(addr[w], val[w])
          /\ ret' = [ret EXCEPT ![w] = "cond"]
          /\ wpc' = [wpc EXCEPT ![w] = "remove"]
       \/ /\ ~FenceSignaled(addr[w], val[w])
          /\ wpc' = [wpc EXCEPT ![w] = "sleep"]
          /\ UNCHANGED ret
    /\ UNCHANGED <<waitList, signaled, addr, val, forever, result>>
    /\ UNCHANGED <<deviceVars, taskletVars, seqno, lastNext>>

(***************************************************************************)
(* The jiffies run out (never with timeout_ms == 0): the condition is    *)
(* evaluated one last time, and wait_event returns 1 if it holds, else 0.*)
(***************************************************************************)
TimeoutExpire(w) ==
    /\ wpc[w] = "sleep"
    /\ ~forever[w]
    /\ ret' = [ret EXCEPT ![w] = IF FenceSignaled(addr[w], val[w])
                                 THEN "cond" ELSE "timeout"]
    /\ wpc' = [wpc EXCEPT ![w] = "remove"]
    /\ UNCHANGED <<waitList, signaled, addr, val, forever, result>>
    /\ UNCHANGED <<deviceVars, taskletVars, seqno, lastNext>>

\* A signal wakes the sleeper; the condition is checked before -ERESTARTSYS.
Interrupted(w) ==
    /\ wpc[w] = "sleep"
    /\ ret' = [ret EXCEPT ![w] = IF FenceSignaled(addr[w], val[w])
                                 THEN "cond" ELSE "intr"]
    /\ wpc' = [wpc EXCEPT ![w] = "remove"]
    /\ UNCHANGED <<waitList, signaled, addr, val, forever, result>>
    /\ UNCHANGED <<deviceVars, taskletVars, seqno, lastNext>>

\* The errno mgpu_wait_fence derives from wait_event's return value.
WaitResult(r) ==
    CASE r = "timeout" -> "etimedout"
      [] r = "intr"    -> "erestartsys"
      [] r = "cond"    -> "ok"

\* Variant: mgpu_wait_fence returns without list_del.
RemoveEntryNoDel(w) ==
    /\ wpc[w] = "remove"
    /\ result' = [result EXCEPT ![w] = WaitResult(ret[w])]
    /\ wpc' = [wpc EXCEPT ![w] = "done"]
    /\ UNCHANGED <<waitList, signaled, addr, val, forever, ret>>
    /\ UNCHANGED <<deviceVars, taskletVars, seqno, lastNext>>

\* list_del of the wait entry under wait_lock, then return.
RemoveEntry(w) ==
    /\ wpc[w] = "remove"
    /\ WaitLockFree
    /\ waitList' = Remove(waitList, w)
    /\ result' = [result EXCEPT ![w] = WaitResult(ret[w])]
    /\ wpc' = [wpc EXCEPT ![w] = "done"]
    /\ UNCHANGED <<signaled, addr, val, forever, ret>>
    /\ UNCHANGED <<deviceVars, taskletVars, seqno, lastNext>>

(***************************************************************************)
(* The tasklet's FENCE branch calls mgpu_fence_process: under wait_lock   *)
(* it walks the wait list; each entry not yet signaled reads FENCE_VALUE  *)
(* and is marked signaled when that register is >= its value.  After the *)
(* walk, wake_up_all runs if some entry was marked.                        *)
(***************************************************************************)
ProcessBegin ==
    /\ tpc = "idle"
    /\ irqPending
    /\ irqPending' = FALSE
    /\ tpc' = "scan"
    /\ scanIdx' = 1
    /\ wake' = FALSE
    /\ UNCHANGED <<cell, fenceReg, waiterVars, seqno, lastNext>>

ProcessEntry ==
    /\ tpc = "scan"
    /\ scanIdx <= Len(waitList)
    /\ LET w == waitList[scanIdx] IN
          \/ /\ ~signaled[w]
             /\ fenceReg >= val[w]
             /\ signaled' = [signaled EXCEPT ![w] = TRUE]
             /\ wake' = TRUE
          \/ /\ signaled[w] \/ fenceReg < val[w]
             /\ UNCHANGED <<signaled, wake>>
    /\ scanIdx' = scanIdx + 1
    /\ UNCHANGED <<deviceVars, tpc, waitList, wpc, addr, val, forever, ret,
                   result, seqno, lastNext>>

\* Variant: the scan ends without wake_up_all.
ProcessEndNoWake ==
    /\ tpc = "scan"
    /\ scanIdx > Len(waitList)
    /\ tpc' = "idle"
    /\ UNCHANGED <<deviceVars, scanIdx, wake, waiterVars, seqno, lastNext>>

\* spin_unlock, then wake_up_all(&ctx->wait_queue) if `wake`.
ProcessEnd ==
    /\ tpc = "scan"
    /\ scanIdx > Len(waitList)
    /\ tpc' = "idle"
    /\ wpc' = [w \in Waiters |-> IF wake /\ wpc[w] = "sleep" THEN "check"
                                                            ELSE wpc[w]]
    /\ UNCHANGED <<deviceVars, scanIdx, wake, waitList, signaled, addr, val,
                   forever, ret, result, seqno, lastNext>>

(***************************************************************************)
(* The device executes a FENCE command: it writes a larger value to a     *)
(* cell (cells advance monotonically), FENCE_VALUE takes that value, and  *)
(* the FENCE interrupt is raised.                                          *)
(***************************************************************************)
DeviceFence ==
    /\ \E c \in Cells, v \in Values :
          /\ v > cell[c]
          /\ cell' = [cell EXCEPT ![c] = v]
          /\ fenceReg' = v
    /\ irqPending' = TRUE
    /\ UNCHANGED <<waiterVars, taskletVars, seqno, lastNext>>

\* mgpu_fence_next: atomic_inc_return(&ctx->seqno) on a SeqBits-wide counter.
FenceNext ==
    /\ seqno' = (seqno + 1) % SeqnoMod
    /\ lastNext' = (seqno + 1) % SeqnoMod
    /\ UNCHANGED <<deviceVars, waiterVars, taskletVars>>

Terminated ==
    /\ \A w \in Waiters : wpc[w] = "done"
    /\ tpc = "idle" /\ ~irqPending
    /\ UNCHANGED vars

Waiter(w) ==
    \/ WaitBegin(w) \/ Enroll(w) \/ CheckCond(w)
    \/ TimeoutExpire(w) \/ Interrupted(w) \/ RemoveEntry(w)

Next ==
    \/ \E w \in Waiters : Waiter(w)
    \/ ProcessBegin \/ ProcessEntry \/ ProcessEnd
    \/ DeviceFence
    \/ FenceNext
    \/ Terminated

(***************************************************************************)
(* Fairness: the tasklet runs once scheduled, a runnable waiter thread    *)
(* gets the CPU, and a finite timeout's timer fires.  Neither the device, *)
(* nor a user starting a wait or sending a signal, is assumed to act.     *)
(***************************************************************************)
Fairness ==
    /\ WF_vars(ProcessBegin) /\ WF_vars(ProcessEntry) /\ WF_vars(ProcessEnd)
    /\ \A w \in Waiters :
          /\ WF_vars(Enroll(w)) /\ WF_vars(CheckCond(w))
          /\ WF_vars(RemoveEntry(w)) /\ WF_vars(TimeoutExpire(w))

Spec == Init /\ [][Next]_vars /\ Fairness

-----------------------------------------------------------------------------

TypeOK ==
    /\ cell \in [Cells -> 0..MaxVal]
    /\ fenceReg \in 0..MaxVal
    /\ irqPending \in BOOLEAN
    /\ waitList \in Seq(Waiters)
    /\ signaled \in [Waiters -> BOOLEAN]
    /\ wpc \in [Waiters -> {"idle", "enroll", "check", "sleep", "remove", "done"}]
    /\ addr \in [Waiters -> Addrs] /\ val \in [Waiters -> Values]
    /\ forever \in [Waiters -> BOOLEAN]
    /\ ret \in [Waiters -> {"none", "cond", "timeout", "intr"}]
    /\ result \in [Waiters -> {"none", "ok", "etimedout", "erestartsys"}]
    /\ tpc \in {"idle", "scan"} /\ scanIdx \in 1..(Cardinality(Waiters) + 1)
    /\ wake \in BOOLEAN
    /\ seqno \in 0..(SeqnoMod - 1) /\ lastNext \in 0..(SeqnoMod - 1)

(***************************************************************************)
(* The wait list holds exactly the wait entries of the threads still      *)
(* inside wait_event, each once: an on-stack entry is never left on the   *)
(* list after mgpu_wait_fence returns, so the tasklet never touches a     *)
(* dead stack frame.                                                       *)
(***************************************************************************)
WaitListWellFormed ==
    /\ IsInjective(waitList)
    /\ ToSet(waitList) = Enrolled

(***************************************************************************)
(* mgpu_wait_fence returns 0 for a fence in the page only when its cell   *)
(* has reached the awaited value, whichever of the fast path, a wakeup,   *)
(* the timeout or a signal ended the wait.                                 *)
(***************************************************************************)
SuccessOnlyWhenSignaled ==
    \A w \in Waiters :
        result[w] = "ok" /\ addr[w] \in Cells => cell[addr[w]] >= val[w]

(***************************************************************************)
(* A thread waiting on a fence whose cell the device has written is       *)
(* eventually released, also with timeout_ms == 0: the FENCE interrupt    *)
(* and mgpu_fence_process must wake it.                                    *)
(***************************************************************************)
WakeupNotLost ==
    \A w \in Waiters :
        (wpc[w] \in {"check", "sleep"} /\ addr[w] \in Cells
            /\ cell[addr[w]] >= val[w]) ~> (wpc[w] = "done")

=============================================================================
