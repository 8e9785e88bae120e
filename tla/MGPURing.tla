------------------------------ MODULE MGPURing ------------------------------
(***************************************************************************)
(* The command ring of the mgpu driver (src/unnamed/part_000, mgpu_cmdq.c) *)
(* as driven by mgpu_submit_commands: user threads compete for            *)
(* mdev->cmd_lock, wait for ring space, copy their command dwords (and an *)
(* optional 3-dword FENCE packet) behind the host-private tail, publish   *)
(* the tail through CMD_TAIL and the doorbell, and optionally poll until  *)
(* the device has drained the ring.  The device consumes the ring         *)
(* asynchronously by advancing CMD_HEAD.                                  *)
(*                                                                        *)
(* Data is abstracted to the serial number of each dword: the n-th dword *)
(* ever written carries serial n, and the history `written` records which *)
(* submission wrote it.  What the device fetches is recorded in           *)
(* `executed`, so overwrites, losses and reorderings become visible.      *)
(*                                                                        *)
(* mgpu_dma.c carries mgpu_cmdq.c's first mgpu_ring_space, wait_space,    *)
(* write and kick line for line; the definitions for them are mapped to   *)
(* that copy.  Its mgpu_dma_copy, a second kind of ring writer, waits     *)
(* with that first, byte-sized space whatever SpaceInBytes says: a        *)
(* 5-dword DMA command under the same lock, then optionally               *)
(* mgpu_core_wait_idle.                                                   *)
(***************************************************************************)
EXTENDS Integers, Sequences, SequencesExt

CONSTANTS
    Submitters,     \* user threads inside the SUBMIT ioctl
    RingDw,         \* ring->size / 4 (1024 for MGPU_RING_SIZE_MIN)
    CmdDwords,      \* the values args->cmd_size / 4 may take
    FenceDw,        \* sizeof(struct mgpu_cmd_fence) / 4
    MaxRounds,      \* bound: submissions each submitter makes
    SyncPolls,      \* initial value of `timeout` in the SYNC poll (1000)
    SpaceInBytes,   \* TRUE: the first mgpu_ring_space, which uses ring->size in bytes
    DmaCopiers,     \* the threads among Submitters calling mgpu_dma_copy instead
    DmaDw,          \* sizeof(struct mgpu_cmd_dma) / 4
    NoLock          \* model value: nobody holds mdev->cmd_lock

ASSUME RingDw \in {2, 4, 8, 16}                   \* a power of two
ASSUME CmdDwords \subseteq 1..(RingDw - 1) /\ CmdDwords # {}
ASSUME FenceDw \in 1..(RingDw - 1)
ASSUME MaxRounds \in Nat /\ SyncPolls \in Nat /\ SpaceInBytes \in BOOLEAN
ASSUME NoLock \notin Submitters
ASSUME DmaCopiers \subseteq Submitters /\ DmaDw \in 1..(RingDw - 1)

VARIABLES
    ring,      \* ring->vaddr: the serial held by each slot (0: zeroed memory)
    tail,      \* ring->tail, host-private write index in dwords
    hwTail,    \* CMD_TAIL register, the tail last published by mgpu_ring_kick
    head,      \* CMD_HEAD register, advanced by the device
    lock,      \* holder of mdev->cmd_lock
    pc,        \* where each submitter is in mgpu_submit_commands
    round,     \* submissions each submitter has started
    req,       \* the request of each submission: cmd dwords, FENCE and SYNC flags
               \* (for mgpu_dma_copy: DmaDw dwords, no FENCE, SYNC = `wait`)
    pollCnt,   \* the SYNC poll's `timeout` counter, per submitter
    readHead,  \* the CMD_HEAD value read by the current poll iteration
    result,    \* the value mgpu_submit_commands returned, per submission
    written,   \* history: the submission that wrote each serial, in write order
    kicked,    \* history: submissions whose mgpu_ring_kick ran
    executed   \* history: the serials the device fetched, in fetch order

vars == <<ring, tail, hwTail, head, lock, pc, round, req, pollCnt, readHead,
          result, written, kicked, executed>>

Slots  == 0..(RingDw - 1)
SubIds == Submitters \X (1..MaxRounds)
NoReq  == [dw |-> 0, fence |-> FALSE, sync |-> FALSE]
Requests == [dw : CmdDwords, fence : BOOLEAN, sync : BOOLEAN]
Results  == {"none", "ok", "efault", "etimedout"}
PcValues == {"idle", "lock", "wait_cmd", "wait_fence", "kick",
             "poll_head", "poll_tail", "wait_idle"}
MaxDw == Cardinality(Submitters) * MaxRounds * (Max(CmdDwords \cup {DmaDw}) + FenceDw)
\* The requests mgpu_dma_copy makes: one DMA command, `wait` or not.
DmaRequests == [dw : {DmaDw}, fence : {FALSE}, sync : BOOLEAN]

\* The submission a submitter is currently working on.
Sid(p) == <<p, round[p]>>

(***************************************************************************)
(* mgpu_ring_space, first definition: ring->size is in bytes while head  *)
(* and tail are dword indices.                                             *)
(***************************************************************************)
RingSpaceBytes(h, t) ==
    IF h <= t THEN RingDw * 4 - (t - h) - 1 ELSE h - t - 1

\* Variant of the dword space without the reserved slot.
RingSpaceNoReserve(h, t) ==
    IF h <= t THEN RingDw - (t - h) ELSE h - t

\* mgpu_ring_space, second definition: the size converted to dwords.
RingSpaceDwords(h, t) ==
    IF h <= t THEN RingDw - (t - h) - 1 ELSE h - t - 1

\* The two definitions share a name in mgpu_cmdq.c; the constant picks one.
RingSpace(h, t) ==
    IF SpaceInBytes THEN RingSpaceBytes(h, t) ELSE RingSpaceDwords(h, t)

\* The space a submitter's wait sees.  mgpu_dma.c has only the byte
\* definition (40-53), so mgpu_dma_copy always waits with it.
SpaceFor(p, h, t) ==
    IF p \in DmaCopiers THEN RingSpaceBytes(h, t) ELSE RingSpace(h, t)

(***************************************************************************)
(* mgpu_ring_write: n dwords of submission s go to ring[tail], ring[tail+1] *)
(* ... modulo the ring size; then the new tail is stored.                  *)
(***************************************************************************)
RingWrite(n, s) ==
    /\ ring' = [i \in Slots |->
                  IF (i - tail) % RingDw < n
                  THEN Len(written) + ((i - tail) % RingDw) + 1
                  ELSE ring[i]]
    /\ tail' = (tail + n) % RingDw
    /\ written' = written \o [k \in 1..n |-> s]

\* mgpu_submit_commands returns r to user space.
Return(p, r) ==
    /\ result' = [result EXCEPT ![Sid(p)] = r]
    /\ pc' = [pc EXCEPT ![p] = "idle"]

\* The verdict after the SYNC poll loop: `if (timeout <= 0) return -ETIMEDOUT`.
SyncResult(cnt) == IF cnt <= 0 THEN "etimedout" ELSE "ok"

-----------------------------------------------------------------------------

Init ==
    /\ ring = [i \in Slots |-> 0]
    /\ tail = 0 /\ hwTail = 0 /\ head = 0
    /\ lock = NoLock
    /\ pc = [p \in Submitters |-> "idle"]
    /\ round = [p \in Submitters |-> 0]
    /\ req = [s \in SubIds |-> NoReq]
    /\ pollCnt = [p \in Submitters |-> SyncPolls]
    /\ readHead = [p \in Submitters |-> 0]
    /\ result = [s \in SubIds |-> "none"]
    /\ written = << >>
    /\ kicked = {}
    /\ executed = << >>

(***************************************************************************)
(* A user thread enters mgpu_submit_commands with a request.  The kmalloc *)
(* of the kernel copy and copy_from_user may fail before the lock is      *)
(* taken, returning -ENOMEM / -EFAULT with the ring untouched.            *)
(***************************************************************************)
Begin(p) ==
    /\ p \notin DmaCopiers
    /\ pc[p] = "idle"
    /\ round[p] < MaxRounds
    /\ round' = [round EXCEPT ![p] = @ + 1]
    /\ \E r \in Requests :
          req' = [req EXCEPT ![<<p, round[p] + 1>>] = r]
    /\ \/ /\ pc' = [pc EXCEPT ![p] = "lock"]
          /\ UNCHANGED result
       \/ /\ pc' = [pc EXCEPT ![p] = "idle"]
          /\ result' = [result EXCEPT ![<<p, round[p] + 1>>] = "efault"]
    /\ UNCHANGED <<ring, tail, hwTail, head, lock, pollCnt, readHead,
                   written, kicked, executed>>

(***************************************************************************)
(* mgpu_dma_copy builds the DMA command on its stack (the ring exists, so *)
(* no -ENODEV) and takes cmd_lock; the rest is the submit path without a  *)
(* FENCE packet, and `wait` plays the part of SYNC.                       *)
(***************************************************************************)
DmaCopy(p) ==
    /\ p \in DmaCopiers
    /\ pc[p] = "idle"
    /\ round[p] < MaxRounds
    /\ round' = [round EXCEPT ![p] = @ + 1]
    /\ \E r \in DmaRequests : req' = [req EXCEPT ![<<p, round[p] + 1>>] = r]
    /\ pc' = [pc EXCEPT ![p] = "lock"]
    /\ UNCHANGED <<ring, tail, hwTail, head, lock, pollCnt, readHead, result,
                   written, kicked, executed>>

\* spin_lock(&mdev->cmd_lock).
Lock(p) ==
    /\ pc[p] = "lock"
    /\ lock = NoLock
    /\ lock' = p
    /\ pc' = [pc EXCEPT ![p] = "wait_cmd"]
    /\ UNCHANGED <<ring, tail, hwTail, head, round, req, pollCnt, readHead,
                   result, written, kicked, executed>>

(***************************************************************************)
(* mgpu_ring_wait_space(ring, cmd_dwords) succeeds and mgpu_ring_write   *)
(* copies the commands.  While space is short the thread sleeps, holding *)
(* the lock, and the device may advance head meanwhile.                  *)
(***************************************************************************)
WriteCmds(p) ==
    /\ pc[p] = "wait_cmd"
    /\ SpaceFor(p, head, tail) >= req[Sid(p)].dw
    /\ RingWrite(req[Sid(p)].dw, Sid(p))
    /\ pc' = [pc EXCEPT ![p] = IF req[Sid(p)].fence THEN "wait_fence"
                                                    ELSE "kick"]
    /\ UNCHANGED <<hwTail, head, lock, round, req, pollCnt, readHead,
                   result, kicked, executed>>

\* The 1000 polls of mgpu_ring_wait_space run out: unlock, -ETIMEDOUT.
CmdSpaceTimeout(p) ==
    /\ pc[p] = "wait_cmd"
    /\ SpaceFor(p, head, tail) < req[Sid(p)].dw
    /\ lock' = NoLock
    /\ Return(p, "etimedout")
    /\ UNCHANGED <<ring, tail, hwTail, head, round, req, pollCnt, readHead,
                   written, kicked, executed>>

\* Variant: the FENCE packet is written without waiting for space.
WriteFenceUnchecked(p) ==
    /\ pc[p] = "wait_fence"
    /\ RingWrite(FenceDw, Sid(p))
    /\ pc' = [pc EXCEPT ![p] = "kick"]
    /\ UNCHANGED <<hwTail, head, lock, round, req, pollCnt, readHead,
                   result, kicked, executed>>

\* MGPU_SUBMIT_FLAGS_FENCE: wait for 3 dwords and write the FENCE packet.
WriteFence(p) ==
    /\ pc[p] = "wait_fence"
    /\ RingSpace(head, tail) >= FenceDw
    /\ RingWrite(FenceDw, Sid(p))
    /\ pc' = [pc EXCEPT ![p] = "kick"]
    /\ UNCHANGED <<hwTail, head, lock, round, req, pollCnt, readHead,
                   result, kicked, executed>>

(***************************************************************************)
(* The wait for the fence packet's space times out: unlock and return    *)
(* -ETIMEDOUT.  The command dwords are already behind ring->tail and are *)
(* neither kicked nor withdrawn.                                          *)
(***************************************************************************)
FenceSpaceTimeout(p) ==
    /\ pc[p] = "wait_fence"
    /\ RingSpace(head, tail) < FenceDw
    /\ lock' = NoLock
    /\ Return(p, "etimedout")
    /\ UNCHANGED <<ring, tail, hwTail, head, round, req, pollCnt, readHead,
                   written, kicked, executed>>

(***************************************************************************)
(* mgpu_ring_kick writes ring->tail to CMD_TAIL and rings the doorbell;   *)
(* then the lock is dropped.  Without SYNC the call returns 0; with SYNC *)
(* the poll loop starts with timeout = 1000.  mgpu_dma_copy with `wait`  *)
(* calls mgpu_core_wait_idle instead.                                     *)
(***************************************************************************)
Kick(p) ==
    /\ pc[p] = "kick"
    /\ hwTail' = tail
    /\ kicked' = kicked \cup {Sid(p)}
    /\ lock' = NoLock
    /\ \/ /\ ~req[Sid(p)].sync
          /\ Return(p, "ok")
          /\ UNCHANGED pollCnt
       \/ /\ req[Sid(p)].sync
          /\ p \notin DmaCopiers
          /\ pc' = [pc EXCEPT ![p] = "poll_head"]
          /\ pollCnt' = [pollCnt EXCEPT ![p] = SyncPolls]
          /\ UNCHANGED result
       \/ /\ req[Sid(p)].sync
          /\ p \in DmaCopiers
          /\ pc' = [pc EXCEPT ![p] = "wait_idle"]
          /\ UNCHANGED <<pollCnt, result>>
    /\ UNCHANGED <<ring, tail, head, round, req, readHead, written, executed>>

\* One poll iteration reads CMD_HEAD ...
PollHead(p) ==
    /\ pc[p] = "poll_head"
    /\ readHead' = [readHead EXCEPT ![p] = head]
    /\ pc' = [pc EXCEPT ![p] = "poll_tail"]
    /\ UNCHANGED <<ring, tail, hwTail, head, lock, round, req, pollCnt,
                   result, written, kicked, executed>>

\* ... then CMD_TAIL; head == tail breaks out of the loop.
PollDrained(p) ==
    /\ pc[p] = "poll_tail"
    /\ readHead[p] = hwTail
    /\ Return(p, SyncResult(pollCnt[p]))
    /\ UNCHANGED <<ring, tail, hwTail, head, lock, round, req, pollCnt,
                   readHead, written, kicked, executed>>

\* Variant: the loop condition `while (timeout--)` keeps polling past zero.
PollAgainUnbounded(p) ==
    /\ pc[p] = "poll_tail"
    /\ readHead[p] # hwTail
    /\ pollCnt' = [pollCnt EXCEPT ![p] = @ - 1]
    /\ pc' = [pc EXCEPT ![p] = "poll_head"]
    /\ UNCHANGED <<ring, tail, hwTail, head, lock, round, req, readHead,
                   result, written, kicked, executed>>

\* Not drained: msleep(1) and `while (timeout-- > 0)` decides whether to go on.
PollAgain(p) ==
    /\ pc[p] = "poll_tail"
    /\ readHead[p] # hwTail
    /\ pollCnt[p] > 0
    /\ pollCnt' = [pollCnt EXCEPT ![p] = @ - 1]
    /\ pc' = [pc EXCEPT ![p] = "poll_head"]
    /\ UNCHANGED <<ring, tail, hwTail, head, lock, round, req, readHead,
                   result, written, kicked, executed>>

PollExpired(p) ==
    /\ pc[p] = "poll_tail"
    /\ readHead[p] # hwTail
    /\ pollCnt[p] <= 0
    /\ pollCnt' = [pollCnt EXCEPT ![p] = @ - 1]
    /\ Return(p, SyncResult(pollCnt[p] - 1))
    /\ UNCHANGED <<ring, tail, hwTail, head, lock, round, req, readHead,
                   written, kicked, executed>>

(***************************************************************************)
(* mgpu_core_wait_idle (core.c 182-211), called by mgpu_dma_copy with     *)
(* `wait`: one read of STATUS per iteration; IDLE and not BUSY returns 0, *)
(* and the 1 s deadline returns -ETIMEDOUT.  The device reports IDLE when *)
(* it has fetched up to CMD_TAIL.  STATUS_ERROR (-EIO) is MGPUReset's     *)
(* concern and not raised here.                                           *)
(***************************************************************************)
WaitIdle(p) ==
    /\ pc[p] = "wait_idle"
    /\ head = hwTail
    /\ Return(p, "ok")
    /\ UNCHANGED <<ring, tail, hwTail, head, lock, round, req, pollCnt,
                   readHead, written, kicked, executed>>

WaitIdleTimeout(p) ==
    /\ pc[p] = "wait_idle"
    /\ head # hwTail
    /\ Return(p, "etimedout")
    /\ UNCHANGED <<ring, tail, hwTail, head, lock, round, req, pollCnt,
                   readHead, written, kicked, executed>>

(***************************************************************************)
(* The device fetches the dword at CMD_HEAD while CMD_HEAD # CMD_TAIL and *)
(* advances CMD_HEAD modulo the ring size.                                *)
(***************************************************************************)
DeviceFetch ==
    /\ head # hwTail
    /\ executed' = Append(executed, ring[head])
    /\ head' = (head + 1) % RingDw
    /\ UNCHANGED <<ring, tail, hwTail, lock, pc, round, req, pollCnt,
                   readHead, result, written, kicked>>

\* Every submitter has made its submissions and the device is idle.
Terminated ==
    /\ \A p \in Submitters : pc[p] = "idle" /\ round[p] = MaxRounds
    /\ head = hwTail
    /\ UNCHANGED vars

\* A thread in mgpu_submit_commands.
Submitter(p) ==
    \/ Begin(p) \/ Lock(p)
    \/ WriteCmds(p) \/ CmdSpaceTimeout(p)
    \/ WriteFence(p) \/ FenceSpaceTimeout(p)
    \/ Kick(p)
    \/ PollHead(p) \/ PollDrained(p) \/ PollAgain(p) \/ PollExpired(p)

\* A thread in mgpu_dma_copy.
Copier(p) ==
    \/ DmaCopy(p) \/ Lock(p)
    \/ WriteCmds(p) \/ CmdSpaceTimeout(p)
    \/ Kick(p)
    \/ WaitIdle(p) \/ WaitIdleTimeout(p)

Next ==
    \/ \E p \in Submitters \ DmaCopiers : Submitter(p)
    \/ \E p \in DmaCopiers : Copier(p)
    \/ DeviceFetch
    \/ Terminated

(***************************************************************************)
(* The device is hardware and keeps fetching while there is work.  User  *)
(* threads are not assumed to make progress.                              *)
(***************************************************************************)
Spec == Init /\ [][Next]_vars /\ WF_vars(DeviceFetch)

-----------------------------------------------------------------------------

TypeOK ==
    /\ ring \in [Slots -> 0..MaxDw]
    /\ tail \in Slots /\ hwTail \in Slots /\ head \in Slots
    /\ lock \in Submitters \cup {NoLock}
    /\ pc \in [Submitters -> PcValues]
    /\ round \in [Submitters -> 0..MaxRounds]
    /\ req \in [SubIds -> Requests \cup DmaRequests \cup {NoReq}]
    /\ pollCnt \in [Submitters -> -1..SyncPolls]
    /\ readHead \in [Submitters -> Slots]
    /\ result \in [SubIds -> Results]
    /\ written \in Seq(SubIds) /\ Len(written) <= MaxDw
    /\ kicked \subseteq SubIds
    /\ executed \in Seq(0..MaxDw)

(***************************************************************************)
(* The device fetches exactly the dwords the host wrote, each once and in *)
(* the order they were written: no slot is overwritten before the device  *)
(* read it, none is skipped and none is fetched twice.  This rests on     *)
(* mgpu_ring_space reserving one slot and on the write/kick order.        *)
(***************************************************************************)
FifoExecution ==
    \A i \in 1..Len(executed) : executed[i] = i

(***************************************************************************)
(* The dwords written and not yet fetched are exactly those between       *)
(* CMD_HEAD and ring->tail: the space accounting of mgpu_ring_space never *)
(* lets the ring hold RingDw dwords, which would look empty.              *)
(***************************************************************************)
InFlightAccounting ==
    Len(written) - Len(executed) = (tail - head) % RingDw

(***************************************************************************)
(* A SYNC submission that returned 0 has had every one of its dwords      *)
(* fetched by the device: the head == tail poll of mgpu_submit_commands   *)
(* cannot be satisfied while its commands are still in the ring.          *)
(***************************************************************************)
SyncSuccessMeansExecuted ==
    \A s \in SubIds :
        result[s] = "ok" /\ req[s].sync =>
            \A i \in 1..Len(written) : written[i] = s => i \in ToSet(executed)

(***************************************************************************)
(* Only kicked submissions reach the device: a submission whose call      *)
(* failed before mgpu_ring_kick leaves nothing the device will execute    *)
(* (the spec requires no partial side effects on the ring).               *)
(***************************************************************************)
ExecutedWereKicked ==
    \A i \in 1..Len(executed) :
        executed[i] \in 1..Len(written) => written[executed[i]] \in kicked

(***************************************************************************)
(* A blocking mgpu_dma_copy that returned 0 has had its DMA command       *)
(* fetched by the device: mgpu_core_wait_idle decides from one STATUS     *)
(* read, taken after the kick, even while other threads keep submitting. *)
(***************************************************************************)
WaitedCopyExecuted ==
    \A s \in SubIds :
        s[1] \in DmaCopiers /\ result[s] = "ok" /\ req[s].sync =>
            \A i \in 1..Len(written) : written[i] = s => i \in ToSet(executed)
=============================================================================
