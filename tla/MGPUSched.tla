------------------------------ MODULE MGPUSched ------------------------------
(***************************************************************************)
(* The job scheduler, src/kernel/drivers/gpu/mgpu/mgpu_sched.c, for one    *)
(* queue (no MGPU_CAP_MULTI_QUEUE).  Nothing else in the tree calls it;    *)
(* the model follows the code as written.                                  *)
(*                                                                         *)
(* The lists are modelled at pointer level: every job's single `list`      *)
(* node and every list head (sched->all_jobs, sched->completed_jobs,       *)
(* queue->pending[0..3]) has a next and a prev pointer; list_add_tail,     *)
(* list_add, list_del (which poisons the node) and list_move_tail are      *)
(* translated from <linux/list.h>.  Dereferencing a poisoned pointer is    *)
(* an oops; a walk that leaves its list through a node that is not a job   *)
(* reads a list head as a job, which is undefined behaviour: both stop     *)
(* the model (`broken`).                                                   *)
(*                                                                         *)
(* Dependencies are not modelled: mgpu_job_add_dependency has no caller    *)
(* (mgpu_sched_submit leaves them as a TODO), so dep_count stays 0.        *)
(***************************************************************************)
EXTENDS Naturals, Sequences, FiniteSets, SequencesExt

CONSTANTS
    Jobs,         \* one job per mgpu_sched_submit call (model values)
    UserPrios,    \* args->priority values the callers pass
    QueueDepth,   \* queue->queue_depth (16 in the code)
    Poison        \* LIST_POISON1/2

ASSUME UserPrios \subseteq 0 .. 3 /\ QueueDepth \in Nat \ {0}

Buckets == <<"pend0", "pend1", "pend2", "pend3">>
Bucket(p) == Buckets[p + 1]
Heads == {"all", "done"} \cup {Bucket(p) : p \in 0 .. 3}
Nodes == Heads \cup Jobs
None == "none"

VARIABLES
    lnk,          \* [nxt |-> .., prv |-> ..]: the list pointers of every node
    state,        \* job->state, or "unalloc" / "freed"
    prio,         \* job->priority
    sync,         \* MGPU_SUBMIT_FLAGS_SYNC of the job's submission
    spc,          \* submitting thread: "idle", "copy", "queue", "wait", "done"
    latch,        \* number of complete(&job->completion) calls
    curJob,       \* queue->current_job
    pendingStarts,\* queue->pending_starts
    cpc,          \* canceller: "idle" or "complete" (between its two sections)
    cjob,         \* the job the canceller found
    broken        \* "no"; "oops" / "ub": the kernel stopped; "fini": freed

vars == <<lnk, state, prio, sync, spc, latch, curJob, pendingStarts, cpc,
          cjob, broken>>

-----------------------------------------------------------------------------
(* <linux/list.h> on the pointer record L.                                 *)

(* __list_add(new, head->prev, head): head->prev = new; new->next = head;  *)
(* new->prev = prev; prev->next = new.                                     *)
ListAddTail(L, n, h) ==
    LET last == L.prv[h] IN
    [nxt |-> [L.nxt EXCEPT ![n] = h, ![last] = n],
     prv |-> [L.prv EXCEPT ![h] = n, ![n] = last]]

(* list_add: __list_add(new, head, head->next).                            *)
ListAdd(L, n, h) ==
    LET first == L.nxt[h] IN
    [nxt |-> [L.nxt EXCEPT ![n] = first, ![h] = n],
     prv |-> [L.prv EXCEPT ![first] = n, ![n] = h]]

(* __list_del_entry: next->prev = prev; prev->next = next.                 *)
ListUnlink(L, n) ==
    LET p == L.prv[n]
        q == L.nxt[n]
    IN [nxt |-> [L.nxt EXCEPT ![p] = q], prv |-> [L.prv EXCEPT ![q] = p]]

(* list_del: unlink, then next = LIST_POISON1, prev = LIST_POISON2.        *)
ListDel(L, n) ==
    LET U == ListUnlink(L, n) IN
    [nxt |-> [U.nxt EXCEPT ![n] = Poison], prv |-> [U.prv EXCEPT ![n] = Poison]]

(* list_move_tail: __list_del_entry, then list_add_tail.                   *)
ListMoveTail(L, n, h) == ListAddTail(ListUnlink(L, n), n, h)

(* Unlinking n dereferences its neighbours: an oops if either is poison.  *)
Poisoned(L, n) == L.prv[n] = Poison \/ L.nxt[n] = Poison

(* The nodes list_for_each_entry visits from head h, in order.  The walk   *)
(* stops at h, or after the first node that is not a job (a poison value   *)
(* or another list's head), or after |Jobs|+1 jobs (it never returns).     *)
RECURSIVE Trace(_, _, _, _)
Trace(L, h, pos, k) ==
    IF pos = h THEN <<>>
    ELSE IF pos \notin Jobs \/ k = 0 THEN <<pos>>
    ELSE <<pos>> \o Trace(L, h, L.nxt[pos], k - 1)

Walk(L, h) == Trace(L, h, L.nxt[h], Cardinality(Jobs))

(* The walk from h stays on jobs and comes back to h.                      *)
WalkClosed(L, h) ==
    LET w == Walk(L, h) IN
    /\ \A i \in 1 .. Len(w) : w[i] \in Jobs
    /\ Len(w) <= Cardinality(Jobs)
    /\ Cardinality(ToSet(w)) = Len(w)

(* The jobs the walk from h meets before it leaves the list.               *)
WalkJobs(L, h) == LET w == Walk(L, h) IN {w[i] : i \in {i \in 1 .. Len(w) : w[i] \in Jobs}}

-----------------------------------------------------------------------------
(* mgpu_sched_init (650-719) for one queue: empty lists (every head points *)
(* to itself), no job.  A job node not yet allocated is not linked.        *)
Init ==
    /\ lnk = [nxt |-> [n \in Nodes |-> n], prv |-> [n \in Nodes |-> n]]
    /\ state = [j \in Jobs |-> "unalloc"]
    /\ prio = [j \in Jobs |-> 1]
    /\ sync = [j \in Jobs |-> FALSE]
    /\ spc = [j \in Jobs |-> "idle"]
    /\ latch = [j \in Jobs |-> 0]
    /\ curJob = None
    /\ pendingStarts = 0
    /\ cpc = "idle"
    /\ cjob = None
    /\ broken = "no"

Running == broken = "no"

(* A poisoned pointer was dereferenced: the kernel oopses.                 *)
Oops ==
    /\ broken' = "oops"
    /\ UNCHANGED <<lnk, state, prio, sync, spc, latch, curJob, pendingStarts, cpc, cjob>>

(* A list walk left its list: it reads a list head as a job, and on the    *)
(* lists the code corrupts it never comes back to its head.                *)
WalkOffList ==
    /\ broken' = "ub"
    /\ UNCHANGED <<lnk, state, prio, sync, spc, latch, curJob, pendingStarts, cpc, cjob>>

(* mgpu_job_free (204-228): list_del under job_lock, then kfree.           *)
JobFree(j) ==
    IF Poisoned(lnk, j) THEN Oops
    ELSE /\ lnk' = ListDel(lnk, j)
         /\ state' = [state EXCEPT ![j] = "freed"]
         /\ spc' = [spc EXCEPT ![j] = "done"]
         /\ UNCHANGED <<prio, sync, latch, curJob, pendingStarts, cpc, cjob, broken>>

(* mgpu_job_complete (323-356): state from the result, complete(), and     *)
(* list_move_tail(&job->list, &sched->completed_jobs).                     *)
(* The caller checks Poisoned(lnk, j) first.                              *)
JobComplete(j, ok) ==
    /\ state' = [state EXCEPT ![j] = IF ok THEN "COMPLETED" ELSE "ABORTED"]
    /\ latch' = [latch EXCEPT ![j] = @ + 1]
    /\ lnk' = ListMoveTail(lnk, j, "done")

-----------------------------------------------------------------------------
(* mgpu_sched_submit 812-815: mgpu_job_alloc (173-201) sets PENDING and    *)
(* list_add_tail(&job->list, &sched->all_jobs).                            *)
SubAlloc(j) ==
    /\ Running
    /\ spc[j] = "idle"
    /\ state' = [state EXCEPT ![j] = "PENDING"]
    /\ lnk' = ListAddTail(lnk, j, "all")
    /\ spc' = [spc EXCEPT ![j] = "copy"]
    /\ UNCHANGED <<prio, sync, latch, curJob, pendingStarts, cpc, cjob, broken>>

(* 817-829: kmemdup of the commands (on failure mgpu_job_free), then the   *)
(* fields from args; priority 0 becomes MGPU_PRIORITY_NORMAL (?:).         *)
SubCopy(j) ==
    /\ Running
    /\ spc[j] = "copy"
    /\ \/ JobFree(j)
       \/ /\ \E p \in UserPrios : prio' = [prio EXCEPT ![j] = IF p = 0 THEN 1 ELSE p]
          /\ \E s \in BOOLEAN : sync' = [sync EXCEPT ![j] = s]
          /\ spc' = [spc EXCEPT ![j] = "queue"]
          /\ UNCHANGED <<lnk, state, latch, curJob, pendingStarts, cpc, cjob, broken>>

(* 855-859 and mgpu_sched_submit_job (473-525): cmd_size == 0 is -EINVAL   *)
(* and the job is freed; otherwise list_add_tail(&job->list,               *)
(* &queue->pending[job->priority]) and state = QUEUED under queue->lock.   *)
SubQueue(j) ==
    /\ Running
    /\ spc[j] = "queue"
    /\ \/ JobFree(j)
       \/ /\ lnk' = ListAddTail(lnk, j, Bucket(prio[j]))
          /\ state' = [state EXCEPT ![j] = "QUEUED"]
          /\ spc' = [spc EXCEPT ![j] = IF sync[j] THEN "wait" ELSE "done"]
          /\ UNCHANGED <<prio, sync, latch, curJob, pendingStarts, cpc, cjob, broken>>

(* 865-867, mgpu_sched_wait_job (528-543): return the result once the      *)
(* completion is signalled; on timeout set state = TIMEOUT.                *)
SubWait(j) ==
    /\ Running
    /\ spc[j] = "wait"
    /\ IF latch[j] > 0
         THEN UNCHANGED state
         ELSE state' = [state EXCEPT ![j] = "TIMEOUT"]
    /\ spc' = [spc EXCEPT ![j] = "done"]
    /\ UNCHANGED <<lnk, prio, sync, latch, curJob, pendingStarts, cpc, cjob, broken>>

-----------------------------------------------------------------------------
(* mgpu_sched_process_queue's scan (447-467): buckets from REALTIME down   *)
(* to LOW, the first job with mgpu_job_is_ready (dep_count 0 and state     *)
(* PENDING).  <<"found", job, priority>>, <<"ub">> when a walk leaves its  *)
(* bucket first, <<"none">> otherwise.                                     *)
RECURSIVE Scan(_)
Scan(p) ==
    IF p < 0 THEN <<"none">>
    ELSE LET w == Walk(lnk, Bucket(p))
             ready == {i \in 1 .. Len(w) : w[i] \in Jobs /\ state[w[i]] = "PENDING"}
         IN IF ready # {} THEN <<"found", w[Min(ready)], p>>
            ELSE IF ~WalkClosed(lnk, Bucket(p)) THEN <<"ub">>
            ELSE Scan(p - 1)

(* mgpu_queue_submit_job (276-320) for job j, just list_del'd from bucket  *)
(* p by the scan (the depth check was made by the caller under the lock):  *)
(* RUNNING and current_job, then mgpu_submit_commands; on success          *)
(* pending_starts++, on failure ABORTED, current_job = NULL, and the       *)
(* caller's list_add back at the bucket's head (458-463).                  *)
QueueSubmitJob(j, p) ==
    \/ /\ lnk' = ListDel(lnk, j)
       /\ state' = [state EXCEPT ![j] = "RUNNING"]
       /\ curJob' = j
       /\ pendingStarts' = pendingStarts + 1
       /\ UNCHANGED <<prio, sync, spc, latch, cpc, cjob, broken>>
    \/ /\ lnk' = ListAdd(ListDel(lnk, j), j, Bucket(p))
       /\ state' = [state EXCEPT ![j] = "ABORTED"]
       /\ UNCHANGED <<prio, sync, spc, latch, curJob, pendingStarts, cpc, cjob, broken>>

(* One pass of mgpu_sched_thread (391-426) over the queue:                 *)
(* mgpu_sched_process_queue (429-470).  Nothing to do while current_job is *)
(* set or pending_starts reached the depth; otherwise the scan's job is    *)
(* list_del'd and submitted.                                               *)
ProcessQueue ==
    /\ Running
    /\ curJob = None
    /\ pendingStarts < QueueDepth
    /\ LET r == Scan(3) IN
       /\ r[1] # "none"
       /\ IF r[1] = "ub" THEN WalkOffList
          ELSE IF Poisoned(lnk, r[2]) THEN Oops
          ELSE QueueSubmitJob(r[2], r[3])

(* mgpu_sched_timeout_work (579-605): under job_lock, walk all_jobs and    *)
(* set TIMEOUT on the RUNNING jobs past their timeout (and schedule a      *)
(* reset, MGPUReset's concern).                                            *)
TimeoutSweep ==
    /\ Running
    /\ IF ~WalkClosed(lnk, "all") THEN WalkOffList
       ELSE \E late \in SUBSET {j \in WalkJobs(lnk, "all") : state[j] = "RUNNING"} :
              /\ late # {}
              /\ state' = [j \in Jobs |-> IF j \in late THEN "TIMEOUT" ELSE state[j]]
              /\ UNCHANGED <<lnk, prio, sync, spc, latch, curJob, pendingStarts,
                             cpc, cjob, broken>>

(* mgpu_sched_cancel_job (546-576), first section: under job_lock, walk    *)
(* all_jobs for the id; a PENDING or QUEUED job is list_del'd and set      *)
(* ABORTED.  A running or finished job gives -EINPROGRESS, a missing id    *)
(* -ENOENT (no state change).                                              *)
CancelFind(j) ==
    /\ Running
    /\ cpc = "idle"
    /\ IF j \in WalkJobs(lnk, "all")
         THEN /\ state[j] \in {"PENDING", "QUEUED"}
              /\ IF Poisoned(lnk, j) THEN Oops
                 ELSE /\ lnk' = ListDel(lnk, j)
                      /\ state' = [state EXCEPT ![j] = "ABORTED"]
                      /\ cpc' = "complete"
                      /\ cjob' = j
                      /\ UNCHANGED <<prio, sync, spc, latch, curJob, pendingStarts, broken>>
         ELSE /\ ~WalkClosed(lnk, "all")
              /\ WalkOffList

(* Second section, after the unlock: mgpu_job_complete(job, -ECANCELED).   *)
CancelComplete ==
    /\ Running
    /\ cpc = "complete"
    /\ IF Poisoned(lnk, cjob) THEN Oops
       ELSE /\ JobComplete(cjob, FALSE)
            /\ cpc' = "idle"
            /\ cjob' = None
            /\ UNCHANGED <<prio, sync, spc, curJob, pendingStarts, broken>>

-----------------------------------------------------------------------------
(* mgpu_queue_destroy (630-647) on buckets `busy`, not all empty: the    *)
(* list_for_each_entry_safe walk starts at the lowest bucket; its first    *)
(* node is list_del'd and passed to mgpu_job_complete, whose               *)
(* list_move_tail unlinks the node list_del just poisoned.  A bucket that  *)
(* leads to another list's head is read as a job.                          *)
QueueDestroy(busy) ==
    LET p == CHOOSE q \in busy : \A r \in busy : q <= r IN
    IF Walk(lnk, Bucket(p))[1] \in Jobs THEN Oops ELSE WalkOffList

(* mgpu_sched_fini (722-765) once no submission or cancel is in progress;  *)
(* stop_sched, cancel_delayed_work_sync and kthread_stop wait for the      *)
(* timeout work and the thread.  Then mgpu_queue_destroy; with the        *)
(* buckets empty, every job on all_jobs and completed_jobs goes through    *)
(* mgpu_job_free (list_for_each_entry_safe) and the scheduler is kfreed.   *)
Fini ==
    /\ Running
    /\ \A j \in Jobs : spc[j] \in {"idle", "done"}
    /\ cpc = "idle"
    /\ LET busy == {p \in 0 .. 3 : Len(Walk(lnk, Bucket(p))) > 0}
           F == WalkJobs(lnk, "all") \cup WalkJobs(lnk, "done")
           Freed(ptr) == [n \in Nodes |-> IF n \in {"all", "done"} THEN n
                                          ELSE IF n \in F THEN Poison ELSE ptr[n]]
       IN IF busy # {}
            THEN QueueDestroy(busy)
          ELSE IF ~WalkClosed(lnk, "all") \/ ~WalkClosed(lnk, "done") THEN WalkOffList
          ELSE IF \E j \in F : Poisoned(lnk, j) THEN Oops
          ELSE /\ lnk' = [nxt |-> Freed(lnk.nxt), prv |-> Freed(lnk.prv)]
               /\ state' = [j \in Jobs |-> IF j \in F THEN "freed" ELSE state[j]]
               /\ broken' = "fini"
               /\ UNCHANGED <<prio, sync, spc, latch, curJob, pendingStarts, cpc, cjob>>

-----------------------------------------------------------------------------
Next ==
    \/ \E j \in Jobs : SubAlloc(j) \/ SubCopy(j) \/ SubQueue(j) \/ SubWait(j)
    \/ ProcessQueue
    \/ TimeoutSweep
    \/ \E j \in Jobs : CancelFind(j)
    \/ CancelComplete
    \/ Fini

Spec == Init /\ [][Next]_vars

-----------------------------------------------------------------------------
(* Every list head, followed through next pointers, is a ring of distinct  *)
(* jobs back to itself whose prev pointers mirror it, and no job is on two *)
(* lists: what list_for_each_entry in mgpu_sched_cancel_job,               *)
(* mgpu_sched_timeout_work and mgpu_sched_process_queue relies on.  The    *)
(* spec (4.E) moves a job from its bucket to running and from the active   *)
(* list to the completed list.                                             *)
ListsWellFormed ==
    /\ \A h \in Heads :
         /\ WalkClosed(lnk, h)
         /\ LET s == <<h>> \o Walk(lnk, h) \o <<h>> IN
            \A i \in 1 .. Len(s) - 1 : lnk.prv[s[i + 1]] = s[i]
    /\ \A h1, h2 \in Heads : h1 # h2 => WalkJobs(lnk, h1) \cap WalkJobs(lnk, h2) = {}
=============================================================================
