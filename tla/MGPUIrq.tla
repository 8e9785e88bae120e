------------------------------- MODULE MGPUIrq -------------------------------
(***************************************************************************)
(* The interrupt core of the mgpu driver: the hard-IRQ top half that reads *)
(* IRQ_STATUS, acknowledges it and saves the bits in mdev->irq_status, and *)
(* the tasklet (bottom half) that takes the saved bits and dispatches      *)
(* them (src/unnamed/part_002, mgpu_irq.c).  The top half ORs the bits    *)
(* into irq_status without a lock; the tasklet reads and clears it under   *)
(* irq_lock with local interrupts off.                                     *)
(* SMP = FALSE puts the top half and the tasklet on one CPU, where the     *)
(* top half runs atomically with respect to the tasklet and cannot enter   *)
(* the tasklet's irqsave section; SMP = TRUE lets the top half run on      *)
(* another CPU, between any two memory accesses of the tasklet.            *)
(*                                                                         *)
(* Status words are sets of interrupt bits (model values).  The handlers   *)
(* the tasklet dispatches to are not modelled: a bit is "dispatched" when  *)
(* the tasklet has read it.                                                *)
(***************************************************************************)
EXTENDS Naturals, FiniteSets

CONSTANTS
    Bits,         \* interrupt causes the device raises (CMD_COMPLETE, FENCE, ...)
    SMP,          \* top half may run on another CPU than the tasklet
    MaxRaises     \* bound on device interrupt events

ASSUME SMP \in BOOLEAN /\ MaxRaises \in Nat

VARIABLES
    hw,          \* IRQ_STATUS: bits raised by the device, not yet acknowledged
    accum,       \* mdev->irq_status
    thPc,        \* top half: "idle", "ack", "load", "store"
    thStatus,    \* the top half's local status
    thOld,       \* the value of irq_status the top half's |= loaded
    sched,       \* TASKLET_STATE_SCHED
    tkPc,        \* tasklet: "idle", or "clear" between its read and its clear
    owed,        \* history: bits acknowledged and not dispatched since
    raised       \* number of device interrupt events so far

vars == <<hw, accum, thPc, thStatus, thOld, sched, tkPc, owed, raised>>

-----------------------------------------------------------------------------
(* mgpu_irq_init (part_002 81-113): irq_status = 0, tasklet idle, handler  *)
(* installed and IRQ_ENABLE written (interrupts stay enabled).             *)
Init ==
    /\ hw = {}
    /\ accum = {}
    /\ thPc = "idle"
    /\ thStatus = {}
    /\ thOld = {}
    /\ sched = FALSE
    /\ tkPc = "idle"
    /\ owed = {}
    /\ raised = 0

(* The device latches an interrupt cause in IRQ_STATUS.                    *)
DeviceRaise ==
    /\ raised < MaxRaises
    /\ \E b \in Bits : hw' = hw \cup {b}
    /\ raised' = raised + 1
    /\ UNCHANGED <<accum, thPc, thStatus, thOld, sched, tkPc,
                   owed>>

(* On one CPU the tasklet's irqsave section (tkPc = "clear") keeps the top *)
(* half out, and a running top half is not interrupted by the tasklet.     *)
TopHalfMayRun == SMP \/ tkPc = "idle"
TaskletMayRun == SMP \/ thPc = "idle"

(* Top half, first step: status = read(IRQ_STATUS); line asserted.        *)
ThRead ==
    /\ thPc = "idle"
    /\ TopHalfMayRun
    /\ hw # {}
    /\ thStatus' = hw
    /\ thPc' = "ack"
    /\ UNCHANGED <<hw, accum, thOld, sched, tkPc, owed, raised>>

(* write(IRQ_ACK, status): write-one-to-clear.  From here on the device    *)
(* no longer holds these bits; the driver owes their dispatch.             *)
ThAck ==
    /\ thPc = "ack"
    /\ TopHalfMayRun
    /\ hw' = hw \ thStatus
    /\ owed' = owed \cup thStatus
    /\ thPc' = "load"
    /\ UNCHANGED <<accum, thStatus, thOld, sched, tkPc, raised>>

(* mdev->irq_status |= status: the load of the read-modify-write.          *)
ThLoad ==
    /\ thPc = "load"
    /\ TopHalfMayRun
    /\ thOld' = accum
    /\ thPc' = "store"
    /\ UNCHANGED <<hw, accum, thStatus, sched, tkPc, owed, raised>>

(* A plain store in place of the |= (the mgpu_drv.c top half's form).     *)
ThStoreOverwrite ==
    /\ thPc = "store"
    /\ TopHalfMayRun
    /\ accum' = thStatus
    /\ sched' = TRUE
    /\ thPc' = "idle"
    /\ UNCHANGED <<hw, thStatus, thOld, tkPc, owed, raised>>

(* The store of |= without the tasklet_schedule() that follows it.        *)
ThStoreNoSchedule ==
    /\ thPc = "store"
    /\ TopHalfMayRun
    /\ accum' = thOld \cup thStatus
    /\ thPc' = "idle"
    /\ UNCHANGED <<hw, thStatus, thOld, sched, tkPc, owed, raised>>

(* part_002: the store of irq_status |= status; tasklet_schedule().        *)
ThStore ==
    /\ thPc = "store"
    /\ TopHalfMayRun
    /\ accum' = thOld \cup thStatus
    /\ sched' = TRUE
    /\ thPc' = "idle"
    /\ UNCHANGED <<hw, thStatus, thOld, tkPc, owed,
                   raised>>

TopHalf ==
    \/ ThRead
    \/ ThAck
    \/ ThLoad
    \/ ThStore

(* tasklet_action clears SCHED and runs the function, which reads          *)
(* irq_status under irq_lock; the read bits are dispatched.               *)
TkRead ==
    /\ sched
    /\ tkPc = "idle"
    /\ TaskletMayRun
    /\ sched' = FALSE
    /\ owed' = owed \ accum
    /\ tkPc' = "clear"
    /\ UNCHANGED <<hw, accum, thPc, thStatus, thOld, raised>>

(* part_002: mdev->irq_status = 0; spin_unlock_irqrestore.                 *)
TkClear ==
    /\ tkPc = "clear"
    /\ TaskletMayRun
    /\ accum' = {}
    /\ tkPc' = "idle"
    /\ UNCHANGED <<hw, thPc, thStatus, thOld, sched, owed, raised>>

Tasklet == TkRead \/ TkClear

(* Nothing left to do: the device has raised all its events and every      *)
(* context is idle.                                                        *)
Quiescent == thPc = "idle" /\ tkPc = "idle" /\ ~sched

Terminated ==
    /\ raised = MaxRaises
    /\ Quiescent
    /\ UNCHANGED vars

Next ==
    \/ DeviceRaise
    \/ TopHalf
    \/ Tasklet
    \/ Terminated

(* A hard interrupt is taken as soon as the line is asserted and the top   *)
(* half runs to completion; a scheduled tasklet runs at the next softirq.  *)
Fairness ==
    /\ WF_vars(TopHalf)
    /\ WF_vars(Tasklet)

Spec == Init /\ [][Next]_vars /\ Fairness

-----------------------------------------------------------------------------
(* Every interrupt bit the top half acknowledged has been handed to the    *)
(* tasklet once the top half and the tasklet are idle and no tasklet run   *)
(* is pending: a cause the driver cleared in IRQ_STATUS is never dropped   *)
(* (fence_process and the command-complete handler run for it).            *)
NoLostInterrupt == Quiescent => owed = {}

(* Every acknowledged bit is eventually dispatched by the tasklet.         *)
DispatchEventually == \A b \in Bits : (b \in owed) ~> (b \notin owed)
=============================================================================
