---------------------------- MODULE MGPUPipeline ----------------------------
(***************************************************************************)
(* The pipeline manager, src/kernel/drivers/gpu/mgpu/mgpu_pipeline.c:      *)
(* mgpu_pipeline_init, mgpu_pipeline_draw (sync, or async through          *)
(* pipeline_work), mgpu_pipeline_execute with its stages, the controls     *)
(* mgpu_pipeline_flush, _stall and _resume, and mgpu_pipeline_fini.        *)
(*                                                                         *)
(* mgpu_pipeline_execute holds state_lock while it runs a stage, and drops *)
(* it around cond_resched() between stages; what keeps a second execute    *)
(* out of a running frame is only the check of mgr->state against          *)
(* PIPE_IDLE.  mgpu_pipeline_draw writes the configuration the stages read *)
(* (mgr->vertex_fetch, the shader slots) without the lock.  The CONTROL    *)
(* register is read and rewritten by fetch_vertices under the lock and by  *)
(* flush, stall and resume without it.                                     *)
(*                                                                         *)
(* Return values are names ("OK" for 0, "EBUSY" for -EBUSY, ...).         *)
(* Data abstraction: a configuration field holds the caller whose draw     *)
(* wrote it.  Only the fields a stage reads are kept: the rasterizer,      *)
(* fragment and framebuffer configuration are written and never read.      *)
(* CONTROL is the set of its bits the driver sets; other registers and     *)
(* statistics are left out, and a register poll is a                       *)
(* nondeterministic outcome of the stage.                                  *)
(***************************************************************************)
EXTENDS Naturals, Sequences, FiniteSets

CONSTANTS
    Callers,      \* threads calling mgpu_pipeline_draw, one call each
    Controllers,  \* threads calling flush, stall or resume, one call each
    None

Worker == "worker"                    \* the kworker running pipeline_work
Executors == Callers \cup {Worker}    \* whoever runs mgpu_pipeline_execute

(* enum mgpu_pipeline_state, less PIPE_IDLE and PIPE_DONE: the stages the  *)
(* loop of mgpu_pipeline_execute runs.                                     *)
FrameStages == <<"FETCH_VERTEX", "EXECUTE_SHADER", "RASTERIZE", "FRAGMENT">>

Fields == {"vf", "shaders"}   \* mgr->vertex_fetch; vertex/fragment_shader.slot

VARIABLES
    mgr,      \* mdev->pipeline_mgr: "unprobed", "live", "nomem", "gone"
    pstate,   \* mgr->state
    lock,     \* holder of mgr->state_lock, or None
    cfg,      \* [Fields -> the caller whose draw last wrote the field]
    pending,  \* pipeline_work is queued
    pc,       \* a caller's place in mgpu_pipeline_draw
    async,    \* the caller passed MGPU_DRAW_ASYNC
    ret,      \* what mgpu_pipeline_draw returned
    epc,      \* an executor's place in mgpu_pipeline_execute
    ran,      \* history: the stages the executor's frame completed
    reads,    \* history: the callers whose configuration its frame read
    control,  \* MGPU_REG_CONTROL: a subset of {"ENABLE", "PAUSE", "FLUSH"}
    kpc,      \* a controller's place in its call
    kop,      \* the call a controller makes: "flush", "stall" or "resume"
    saved     \* the CONTROL value an executor or controller read

ctlVars == <<control, kpc, kop, saved>>
vars == <<mgr, pstate, lock, cfg, pending, pc, async, ret, epc, ran, reads, ctlVars>>

-----------------------------------------------------------------------------
(* mgpu_pipeline_init (732-764): kzalloc (may fail: -ENOMEM, no manager),  *)
(* state = PIPE_IDLE, zeroed configuration, work items initialised.        *)
Init ==
    /\ mgr = "unprobed"
    /\ pstate = "IDLE"
    /\ lock = None
    /\ cfg = [f \in Fields |-> None]
    /\ pending = FALSE
    /\ pc = [c \in Callers |-> "idle"]
    /\ async = [c \in Callers |-> FALSE]
    /\ ret = [c \in Callers |-> None]
    /\ epc = [e \in Executors |-> "idle"]
    /\ ran = [e \in Executors |-> <<>>]
    /\ reads = [e \in Executors |-> {}]
    /\ control = {"ENABLE"}          \* mgpu_core_init (mgpu_core.c:71)
    /\ kpc = [k \in Controllers |-> "idle"]
    /\ kop = [k \in Controllers |-> "flush"]
    /\ saved = [t \in Executors \cup Controllers |-> {}]

MgrInit ==
    /\ mgr = "unprobed"
    /\ mgr' \in {"live", "nomem"}
    /\ UNCHANGED <<pstate, lock, cfg, pending, pc, async, ret, epc, ran, reads, ctlVars>>

-----------------------------------------------------------------------------
(* The stages.                                                             *)

(* mgpu_pipeline_fetch_vertices (318-350): nothing to do with a vertex     *)
(* count of 0; otherwise it polls STATUS 100 times for !BUSY and returns   *)
(* -ETIMEDOUT if the device stayed busy.                                   *)
FetchVertices == IF cfg["vf"] = None THEN {"OK"} ELSE {"OK", "ETIMEDOUT"}

(* mgpu_pipeline_execute_shader (352-377): -EIO if STATUS shows HALTED.    *)
ExecuteShader == {"OK", "EIO"}

(* mgpu_pipeline_execute_stage (421-465): the result of the stage's        *)
(* function.  EXECUTE_SHADER runs the vertex shader, and the fragment      *)
(* shader if its slot is below 16: either may fail with -EIO.              *)
(* mgpu_pipeline_rasterize and mgpu_pipeline_process_fragments cannot      *)
(* fail.                                                                   *)
StageOutcomes(s) ==
    CASE s = "FETCH_VERTEX"   -> FetchVertices
      [] s = "EXECUTE_SHADER" -> ExecuteShader
      [] OTHER                -> {"OK"}

(* The configuration each stage reads: fetch_vertices and rasterize read   *)
(* mgr->vertex_fetch.vertex_count, execute_shader the shader slots;        *)
(* process_fragments reads only the rasterizer's output (318-419).         *)
Reads(s) ==
    CASE s = "FETCH_VERTEX"   -> {"vf"}
      [] s = "EXECUTE_SHADER" -> {"shaders"}
      [] s = "RASTERIZE"      -> {"vf"}
      [] OTHER                -> {}

(* The switch of mgpu_pipeline_execute (490-507).                          *)
Successor(s) ==
    CASE s = "FETCH_VERTEX"   -> "EXECUTE_SHADER"
      [] s = "EXECUTE_SHADER" -> "RASTERIZE"
      [] s = "RASTERIZE"      -> "FRAGMENT"
      [] s = "FRAGMENT"       -> "DONE"
      [] OTHER                -> "IDLE"

-----------------------------------------------------------------------------
(* mgpu_pipeline_execute returns r to its caller: mgpu_pipeline_draw       *)
(* passes it on; mgpu_pipeline_work_handler drops it.                      *)
Return(e, r) ==
    /\ epc' = [epc EXCEPT ![e] = "idle"]
    /\ IF e \in Callers
         THEN /\ pc' = [pc EXCEPT ![e] = "done"]
              /\ ret' = [ret EXCEPT ![e] = r]
         ELSE UNCHANGED <<pc, ret>>

(* 519-523, after the loop: frames_rendered++, state = PIPE_IDLE, unlock.  *)
FrameEnd(e, r) ==
    /\ pstate' = "IDLE"
    /\ lock' = None
    /\ Return(e, r)

(* fetch_vertices (324-331) with a vertex count: under state_lock it reads  *)
(* CONTROL, and writes it back with ENABLE set in its next step (ExecStage).*)
FetchTriggers == pstate = "FETCH_VERTEX" /\ cfg["vf"] # None

FetchRead(e) ==
    /\ epc[e] = "stage"
    /\ FetchTriggers
    /\ saved' = [saved EXCEPT ![e] = control]
    /\ epc' = [epc EXCEPT ![e] = "fetch"]
    /\ UNCHANGED <<mgr, pstate, lock, cfg, pending, pc, async, ret, ran, reads,
                   control, kpc, kop>>

(* Mutants of ExecLock: the PIPE_IDLE check dropped; the -EBUSY return   *)
(* without mutex_unlock.                                                   *)
ExecLockNoBusyCheck(e) ==
    /\ epc[e] = "lock"
    /\ lock = None
    /\ lock' = e
    /\ pstate' = "FETCH_VERTEX"
    /\ epc' = [epc EXCEPT ![e] = "stage"]
    /\ ran' = [ran EXCEPT ![e] = <<>>]
    /\ reads' = [reads EXCEPT ![e] = {}]
    /\ UNCHANGED <<pc, ret, mgr, cfg, pending, async, ctlVars>>

ExecLockBusyKeepsLock(e) ==
    /\ epc[e] = "lock"
    /\ lock = None
    /\ IF pstate # "IDLE"
         THEN /\ Return(e, "EBUSY")
              /\ lock' = e
              /\ UNCHANGED <<pstate, ran, reads>>
         ELSE /\ lock' = e
              /\ pstate' = "FETCH_VERTEX"
              /\ epc' = [epc EXCEPT ![e] = "stage"]
              /\ ran' = [ran EXCEPT ![e] = <<>>]
              /\ reads' = [reads EXCEPT ![e] = {}]
              /\ UNCHANGED <<pc, ret>>
    /\ UNCHANGED <<mgr, cfg, pending, async, ctlVars>>

(* Mutant of ExecStage: a failing stage ends the frame but 0 is returned. *)
ExecStageLosesError(e) ==
    /\ epc[e] = IF FetchTriggers THEN "fetch" ELSE "stage"
    /\ pstate \notin {"IDLE", "DONE"}
    /\ control' = IF epc[e] = "fetch" THEN saved[e] \cup {"ENABLE"} ELSE control
    /\ reads' = [reads EXCEPT ![e] = @ \cup ({cfg[f] : f \in Reads(pstate)} \ {None})]
    /\ \E r \in StageOutcomes(pstate) :
         IF r # "OK"
           THEN /\ FrameEnd(e, "OK")
                /\ UNCHANGED ran
           ELSE /\ ran' = [ran EXCEPT ![e] = Append(@, pstate)]
                /\ IF Successor(pstate) = "DONE"
                     THEN FrameEnd(e, "OK")
                     ELSE /\ pstate' = Successor(pstate)
                          /\ lock' = None
                          /\ epc' = [epc EXCEPT ![e] = "relock"]
                          /\ UNCHANGED <<pc, ret>>
    /\ UNCHANGED <<mgr, cfg, pending, async, kpc, kop, saved>>

(* 473-482: mutex_lock; -EBUSY (after unlocking) unless the state is       *)
(* PIPE_IDLE; otherwise state = PIPE_FETCH_VERTEX, still holding the lock. *)
ExecLock(e) ==
    /\ epc[e] = "lock"
    /\ lock = None
    /\ IF pstate # "IDLE"
         THEN /\ Return(e, "EBUSY")
              /\ UNCHANGED <<lock, pstate, ran, reads>>
         ELSE /\ lock' = e
              /\ pstate' = "FETCH_VERTEX"
              /\ epc' = [epc EXCEPT ![e] = "stage"]
              /\ ran' = [ran EXCEPT ![e] = <<>>]
              /\ reads' = [reads EXCEPT ![e] = {}]
              /\ UNCHANGED <<pc, ret>>
    /\ UNCHANGED <<mgr, cfg, pending, async, ctlVars>>

(* One iteration of the loop (484-517), under the lock: run the stage; on  *)
(* an error break out to the epilogue; otherwise advance, and unless the   *)
(* next state is PIPE_DONE drop the lock for cond_resched().  A vertex     *)
(* fetch first writes CONTROL back as FetchRead read it, with ENABLE set.  *)
ExecStage(e) ==
    /\ epc[e] = IF FetchTriggers THEN "fetch" ELSE "stage"
    /\ pstate \notin {"IDLE", "DONE"}
    /\ control' = IF epc[e] = "fetch" THEN saved[e] \cup {"ENABLE"} ELSE control
    /\ reads' = [reads EXCEPT ![e] = @ \cup ({cfg[f] : f \in Reads(pstate)} \ {None})]
    /\ \E r \in StageOutcomes(pstate) :
         IF r # "OK"
           THEN /\ FrameEnd(e, r)
                /\ UNCHANGED ran
           ELSE /\ ran' = [ran EXCEPT ![e] = Append(@, pstate)]
                /\ IF Successor(pstate) = "DONE"
                     THEN FrameEnd(e, "OK")
                     ELSE /\ pstate' = Successor(pstate)
                          /\ lock' = None
                          /\ epc' = [epc EXCEPT ![e] = "relock"]
                          /\ UNCHANGED <<pc, ret>>
    /\ UNCHANGED <<mgr, cfg, pending, async, kpc, kop, saved>>

(* 514-515: mutex_lock again after cond_resched().                         *)
ExecRelock(e) ==
    /\ epc[e] = "relock"
    /\ lock = None
    /\ lock' = e
    /\ epc' = [epc EXCEPT ![e] = "stage"]
    /\ UNCHANGED <<mgr, pstate, cfg, pending, pc, async, ret, ran, reads, ctlVars>>

-----------------------------------------------------------------------------
(* mgpu_pipeline_draw (694-705) with mgpu_pipeline_config_vertex_fetch     *)
(* (226-258): -ENODEV without a manager; -EINVAL for a zero vertex buffer  *)
(* or count; otherwise mgr->vertex_fetch is written, unlocked.             *)
DrawBegin(c) ==
    /\ pc[c] = "idle"
    /\ \E valid, a \in BOOLEAN :
         /\ async' = [async EXCEPT ![c] = a]
         /\ IF mgr # "live"
              THEN /\ pc' = [pc EXCEPT ![c] = "done"]
                   /\ ret' = [ret EXCEPT ![c] = "ENODEV"]
                   /\ UNCHANGED cfg
            ELSE IF ~valid
              THEN /\ pc' = [pc EXCEPT ![c] = "done"]
                   /\ ret' = [ret EXCEPT ![c] = "EINVAL"]
                   /\ UNCHANGED cfg
            ELSE /\ cfg' = [cfg EXCEPT !["vf"] = c]
                 /\ pc' = [pc EXCEPT ![c] = "shaders"]
                 /\ UNCHANGED ret
    /\ UNCHANGED <<mgr, pstate, lock, pending, epc, ran, reads, ctlVars>>

(* 707-711: the shader slots, unlocked.                                    *)
DrawShaders(c) ==
    /\ pc[c] = "shaders"
    /\ cfg' = [cfg EXCEPT !["shaders"] = c]
    /\ pc' = [pc EXCEPT ![c] = "other"]
    /\ UNCHANGED <<mgr, pstate, lock, pending, async, ret, epc, ran, reads, ctlVars>>

(* 713-716: mgpu_pipeline_config_rasterizer, _fragment and _framebuffer    *)
(* (260-316) write mgr->config and mgr->fragment.texture_enabled, which no *)
(* stage reads; they cannot fail.                                          *)
DrawOther(c) ==
    /\ pc[c] = "other"
    /\ pc' = [pc EXCEPT ![c] = "dispatch"]
    /\ UNCHANGED <<mgr, pstate, lock, cfg, pending, async, ret, epc, ran, reads, ctlVars>>

(* 718-729: MGPU_DRAW_ASYNC queues pipeline_work (a no-op if it is already *)
(* queued) and returns 0; otherwise mgpu_pipeline_execute.                 *)
DrawDispatch(c) ==
    /\ pc[c] = "dispatch"
    /\ IF async[c]
         THEN /\ pending' = TRUE
              /\ pc' = [pc EXCEPT ![c] = "done"]
              /\ ret' = [ret EXCEPT ![c] = "OK"]
              /\ UNCHANGED epc
         ELSE /\ pc' = [pc EXCEPT ![c] = "exec"]
              /\ epc' = [epc EXCEPT ![c] = "lock"]
              /\ UNCHANGED <<pending, ret>>
    /\ UNCHANGED <<mgr, pstate, lock, cfg, async, ran, reads, ctlVars>>

(* mgpu_pipeline_work_handler (536-543): the workqueue runs the queued     *)
(* work, one instance at a time, and it calls mgpu_pipeline_execute.       *)
WorkStart ==
    /\ pending
    /\ epc[Worker] = "idle"
    /\ pending' = FALSE
    /\ epc' = [epc EXCEPT ![Worker] = "lock"]
    /\ UNCHANGED <<mgr, pstate, lock, cfg, pc, async, ret, ran, reads, ctlVars>>

-----------------------------------------------------------------------------
(* mgpu_pipeline_flush (581-603), _stall (606-618) and _resume (621-636)   *)
(* each read CONTROL without state_lock ...                                *)
CtlRead(k) ==
    /\ kpc[k] = "idle"
    /\ mgr = "live"
    /\ \E op \in {"flush", "stall", "resume"} : kop' = [kop EXCEPT ![k] = op]
    /\ saved' = [saved EXCEPT ![k] = control]
    /\ kpc' = [kpc EXCEPT ![k] = "write"]
    /\ UNCHANGED <<mgr, pstate, lock, cfg, pending, pc, async, ret, epc, ran, reads,
                   control>>

(* ... and write back what they read with FLUSH_CACHE set, PAUSE set, or   *)
(* PAUSE cleared.  resume's wake_up_all(&stage_wait) wakes nobody: nothing *)
(* in the driver waits on stage_wait.  Stall and resume return 0.          *)
CtlWrite(k) ==
    /\ kpc[k] = "write"
    /\ control' = CASE kop[k] = "flush" -> saved[k] \cup {"FLUSH"}
                     [] kop[k] = "stall" -> saved[k] \cup {"PAUSE"}
                     [] OTHER            -> saved[k] \ {"PAUSE"}
    /\ kpc' = [kpc EXCEPT ![k] = IF kop[k] = "flush" THEN "flushwait" ELSE "done"]
    /\ UNCHANGED <<mgr, pstate, lock, cfg, pending, pc, async, ret, epc, ran, reads,
                   kop, saved>>

(* flush, 594-603: poll STATUS for IDLE up to 1000 times, then write back  *)
(* the value read before the flush, whether or not the poll timed out.     *)
FlushRestore(k) ==
    /\ kpc[k] = "flushwait"
    /\ control' = saved[k]
    /\ kpc' = [kpc EXCEPT ![k] = "done"]
    /\ UNCHANGED <<mgr, pstate, lock, cfg, pending, pc, async, ret, epc, ran, reads,
                   kop, saved>>

(* mgpu_pipeline_fini (766-785), once no draw or control is in progress:   *)
(* cancel_work_sync waits for a running pipeline_work and drops a queued   *)
(* one; mgpu_pipeline_flush if the state is not PIPE_IDLE; kfree, and      *)
(* pipeline_mgr = NULL.                                                    *)
Fini ==
    /\ mgr = "live"
    /\ \A c \in Callers : pc[c] \in {"idle", "done"}
    /\ epc[Worker] = "idle"
    /\ \A k \in Controllers : kpc[k] \in {"idle", "done"}
    /\ pending' = FALSE
    /\ mgr' = "gone"
    /\ UNCHANGED <<pstate, lock, cfg, pc, async, ret, epc, ran, reads, ctlVars>>

-----------------------------------------------------------------------------
ExecStep(e) == ExecLock(e) \/ FetchRead(e) \/ ExecStage(e) \/ ExecRelock(e)

Next ==
    \/ MgrInit
    \/ \E c \in Callers : DrawBegin(c) \/ DrawShaders(c) \/ DrawOther(c) \/ DrawDispatch(c)
    \/ \E e \in Executors : ExecStep(e)
    \/ \E k \in Controllers : CtlRead(k) \/ CtlWrite(k) \/ FlushRestore(k)
    \/ WorkStart
    \/ Fini

(* A thread inside mgpu_pipeline_draw, flush, stall or resume keeps       *)
(* running, and a queued work item is run by the workqueue.  Nothing       *)
(* forces a thread to call, or the driver to initialise the manager or to  *)
(* tear it down.                                                           *)
Fairness ==
    /\ \A c \in Callers : WF_vars(DrawShaders(c) \/ DrawOther(c) \/ DrawDispatch(c))
    /\ \A e \in Executors : WF_vars(ExecStep(e))
    /\ \A k \in Controllers : WF_vars(CtlWrite(k) \/ FlushRestore(k))
    /\ WF_vars(WorkStart)

Spec == Init /\ [][Next]_vars /\ Fairness

-----------------------------------------------------------------------------
InFrame == {e \in Executors : epc[e] \in {"stage", "fetch", "relock"}}

(* mgpu_pipeline_execute drops state_lock between stages, so the lock does *)
(* not keep two frames apart: the PIPE_IDLE check and the reset to         *)
(* PIPE_IDLE after the loop must.  At most one execute is inside a frame,  *)
(* and mgr->state is PIPE_IDLE exactly when none is.  A state left busy    *)
(* would make every later draw fail with -EBUSY.                           *)
OneFrameAtATime ==
    /\ Cardinality(InFrame) <= 1
    /\ (pstate = "IDLE") <=> (InFrame = {})

(* A synchronous mgpu_pipeline_draw that returns 0 ran its own frame: the  *)
(* four stages in order, each succeeding.                                  *)
SyncSuccessRanWholeFrame ==
    \A c \in Callers :
        (pc[c] = "done" /\ ~async[c] /\ ret[c] = "OK") => ran[c] = FrameStages

(* Every call of mgpu_pipeline_draw returns, though the stages' callers    *)
(* share state_lock and a running frame turns the others away.             *)
DrawReturns == \A c \in Callers : pc[c] # "idle" ~> pc[c] = "done"

(* A synchronous draw that returns 0 rendered its own configuration: every *)
(* configuration field its stages read was written by its own call.  The   *)
(* draw writes the configuration without state_lock, so another draw can   *)
(* overwrite it between two stages of a running frame (checked by          *)
(* MGPUPipeline_torn.cfg, where it fails).                                 *)
SyncFrameUsesOwnDraw ==
    \A c \in Callers :
        (pc[c] = "done" /\ ~async[c] /\ ret[c] = "OK") => reads[c] = {c}

(* Once no mgpu_pipeline_flush is in progress, FLUSH_CACHE is clear: flush *)
(* sets the bit and clears it again.  Stall, resume and the vertex fetch   *)
(* read and write CONTROL without a common lock, so one that read CONTROL  *)
(* while the bit was set writes it back set after flush has restored it    *)
(* (checked by MGPUPipeline_control.cfg, where it fails).                  *)
FlushBitCleared ==
    (\A k \in Controllers : ~(kop[k] = "flush" /\ kpc[k] \in {"write", "flushwait"}))
        => "FLUSH" \notin control
=============================================================================
