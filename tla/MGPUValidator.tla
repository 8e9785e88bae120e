---------------------------- MODULE MGPUValidator ----------------------------
(***************************************************************************)
(* The command validator of src/kernel/drivers/gpu/mgpu/mgpu_mmio.h:       *)
(* mgpu_submit_validated (575-629) copies a user command buffer into the  *)
(* kernel, walks it with mgpu_validate_commands (477-538) and hands the    *)
(* copy to mgpu_submit_commands.                                           *)
(*                                                                         *)
(* A dword is its 32-bit value.  A header is read through the bitfields of *)
(* struct mgpu_cmd_header (uapi mgpu_drm.h 121-125): opcode in bits 0-7,   *)
(* size in dwords in bits 8-15, flags above.  The payload fields the       *)
(* per-opcode validators read are the dwords after the header, as laid out *)
(* by struct mgpu_cmd_draw / _dma / _fence.  One step of the walk is one   *)
(* iteration of the while loop.                                            *)
(***************************************************************************)
EXTENDS Naturals, Sequences, FiniteSets

CONSTANTS
    Dwords,      \* the dword values a user buffer is made of
    MaxDw,       \* the longest buffer, in dwords
    RingSizeMax  \* MGPU_RING_SIZE_MAX, in bytes

VARIABLES
    in,       \* the user's buffer (history: never written)
    cmdSize,  \* args->cmd_size in bytes
    buf,      \* cmd_copy, the kernel copy the walk reads and rewrites
    ptr,      \* the walk's ptr, as a 1-based index into buf
    vbase,    \* MGPU_REG_VERTEX_BASE is non-zero
    vret,     \* what mgpu_validate_commands returned ("ok" for 0), or "none"
    pc,       \* "entry", "walk", "submit", "done"
    ret       \* what mgpu_submit_validated returns

vars == <<in, cmdSize, buf, ptr, vbase, vret, pc, ret>>

(* struct mgpu_cmd_header bitfields.                                       *)
Opcode(h) == h % 256
HdrSize(h) == (h \div 256) % 256

(* cmd_validators[] (398-407): opcode, min and max size in dwords,         *)
(* privileged, and which validate function it has.                         *)
CmdValidators ==
    { [op |-> 0, min |-> 1, max |-> 1, priv |-> FALSE, check |-> "none"],
      [op |-> 1, min |-> 5, max |-> 8, priv |-> FALSE, check |-> "draw"],
      [op |-> 2, min |-> 4, max |-> 8, priv |-> FALSE, check |-> "none"],
      [op |-> 3, min |-> 4, max |-> 5, priv |-> FALSE, check |-> "dma"],
      [op |-> 4, min |-> 3, max |-> 3, priv |-> FALSE, check |-> "fence"],
      [op |-> 5, min |-> 2, max |-> 3, priv |-> FALSE, check |-> "none"],
      [op |-> 6, min |-> 3, max |-> 3, priv |-> TRUE,  check |-> "none"],
      [op |-> 7, min |-> 2, max |-> 3, priv |-> TRUE,  check |-> "none"] }

(* mgpu_validate_draw_cmd (410-433) on the record at p.                   *)
DrawOK(b, p, vb) ==
    /\ b[p + 1] \in 1 .. 65536      \* vertex_count
    /\ b[p + 2] # 0                 \* instance_count
    /\ vb                           \* mgpu_read(VERTEX_BASE) != 0

(* mgpu_validate_dma_cmd (436-455): size in [1, 16 MiB], src, dst and size *)
(* 4-byte aligned.                                                         *)
DmaOK(b, p) ==
    /\ b[p + 3] \in 1 .. 16 * 1024 * 1024
    /\ \A f \in {1, 2, 3} : b[p + f] % 4 = 0

(* mgpu_validate_fence_cmd (458-474): the address is 4-byte aligned; a     *)
(* zero value is only warned about.                                        *)
FenceOK(b, p) == b[p + 1] % 4 = 0

CheckOK(v, b, p, vb) ==
    CASE v.check = "draw"  -> DrawOK(b, p, vb)
      [] v.check = "dma"   -> DmaOK(b, p)
      [] v.check = "fence" -> FenceOK(b, p)
      [] OTHER             -> TRUE

Lookup(h) == {v \in CmdValidators : v.op = Opcode(h)}

-----------------------------------------------------------------------------
(* The buffers a caller can pass: every sequence of Dwords up to MaxDw.    *)
Buffers == UNION {[1 .. n -> Dwords] : n \in 0 .. MaxDw}

Init ==
    /\ in \in Buffers
    /\ cmdSize \in {4 * Len(in), 4 * Len(in) + 2, RingSizeMax + 4}
    /\ buf = <<>>
    /\ ptr = 1
    /\ vbase \in BOOLEAN
    /\ vret = "none"
    /\ pc = "entry"
    /\ ret = "none"

Return(r) == pc' = "done" /\ ret' = r

(* mgpu_submit_validated 581-604: the sanity checks (no commands, size 0,  *)
(* above MGPU_RING_SIZE_MAX, not dword-aligned), kmalloc, copy_from_user.  *)
(* Any of the last two may fail.                                           *)
Entry ==
    /\ pc = "entry"
    /\ \/ /\ cmdSize = 0 \/ cmdSize > RingSizeMax \/ cmdSize % 4 # 0
          /\ Return("EINVAL")
          /\ UNCHANGED <<buf>>
       \/ /\ cmdSize # 0 /\ cmdSize <= RingSizeMax /\ cmdSize % 4 = 0
          /\ \/ Return("ENOMEM") /\ UNCHANGED buf
             \/ Return("EFAULT") /\ UNCHANGED buf
             \/ buf' = in /\ pc' = "walk" /\ UNCHANGED ret
    /\ UNCHANGED <<in, cmdSize, ptr, vbase, vret>>

(* One iteration of the while loop of mgpu_validate_commands (484-535):   *)
(* look the opcode up, check the size against the table and against the   *)
(* end of the buffer, run the opcode's validate function, rewrite a        *)
(* privileged opcode to MGPU_CMD_NOP (size and flags stay), advance ptr.   *)
(* Every failure returns -EINVAL, and mgpu_submit_validated frees the copy. *)
WalkStep ==
    /\ pc = "walk"
    /\ ptr <= cmdSize \div 4
    /\ LET h == buf[ptr]
           sz == HdrSize(h)
           Fail == /\ vret' = "EINVAL" /\ Return("EINVAL")
                   /\ UNCHANGED <<buf, ptr>>
       IN IF Lookup(h) = {} THEN Fail
          ELSE LET v == CHOOSE x \in Lookup(h) : TRUE IN
               IF sz < v.min \/ sz > v.max THEN Fail
               ELSE IF ptr + sz > cmdSize \div 4 + 1 THEN Fail
               ELSE IF ~CheckOK(v, buf, ptr, vbase) THEN Fail
               ELSE /\ buf' = IF v.priv THEN [buf EXCEPT ![ptr] = h - Opcode(h)]
                                        ELSE buf
                    /\ ptr' = ptr + sz
                    /\ UNCHANGED <<vret, pc, ret>>
    /\ UNCHANGED <<in, cmdSize, vbase>>

(* The loop ends at the end of the buffer: the walk returns 0.             *)
WalkDone ==
    /\ pc = "walk"
    /\ ptr > cmdSize \div 4
    /\ vret' = "ok"
    /\ pc' = "submit"
    /\ UNCHANGED <<in, cmdSize, buf, ptr, vbase, ret>>

(* 615-628: args->commands now points at cmd_copy and                      *)
(* mgpu_submit_commands (part_000 171-276) is called.  Its first act on    *)
(* the buffer is copy_from_user from args->commands as a user pointer: the *)
(* kernel address fails access_ok, so the call returns -EFAULT before it  *)
(* takes cmd_lock: the ring is untouched, submit_count is not counted.    *)
Submit ==
    /\ pc = "submit"
    /\ Return("EFAULT")
    /\ UNCHANGED <<in, cmdSize, buf, ptr, vbase, vret>>

Next == Entry \/ WalkStep \/ WalkDone \/ Submit

Spec == Init /\ [][Next]_vars /\ WF_vars(Next)

-----------------------------------------------------------------------------
(* The reference: the grammar of section 4.G, stated without a walk and   *)
(* without the code's table.  SpecSizes is the spec's size column by       *)
(* opcode (NOP 0 ... REG_READ 7); REG_WRITE and REG_READ are privileged.   *)
(* S is a set of record starts that tiles the buffer: it starts at 1, each *)
(* record ends where the next starts or at the end, and no start lies      *)
(* inside another record.                                                  *)
SpecSizes == [op \in 0 .. 7 |->
                CASE op = 0 -> 1 .. 1 [] op = 1 -> 5 .. 8 [] op = 2 -> 4 .. 8
                  [] op = 3 -> 4 .. 5 [] op = 4 -> 3 .. 3 [] op = 5 -> 2 .. 3
                  [] OTHER  -> 3 .. 3]

SpecPrivileged == {6, 7}

Tiles(b, S) ==
    /\ Len(b) > 0 => 1 \in S
    /\ \A s \in S :
         LET e == s + HdrSize(b[s]) IN
         /\ e = Len(b) + 1 \/ e \in S
         /\ \A t \in S : s < t => t >= e

Aligned(x) == x % 4 = 0

SpecRule(op, b, s, vb) ==
    CASE op = 1 -> b[s + 1] >= 1 /\ b[s + 1] <= 65536 /\ b[s + 2] >= 1 /\ vb
      [] op = 3 -> /\ b[s + 3] >= 1 /\ b[s + 3] <= 2^24
                   /\ Aligned(b[s + 1]) /\ Aligned(b[s + 2]) /\ Aligned(b[s + 3])
      [] op = 4 -> Aligned(b[s + 1])
      [] OTHER  -> TRUE

RecordValid(b, s, vb) ==
    /\ Opcode(b[s]) \in DOMAIN SpecSizes
    /\ HdrSize(b[s]) \in SpecSizes[Opcode(b[s])]
    /\ s + HdrSize(b[s]) <= Len(b) + 1
    /\ SpecRule(Opcode(b[s]), b, s, vb)

WellFormed(b, vb) ==
    \E S \in SUBSET (1 .. Len(b)) : Tiles(b, S) /\ \A s \in S : RecordValid(b, s, vb)

(* b with the opcode of every privileged record in S cleared to NOP.      *)
Disarmed(b, S) ==
    [i \in DOMAIN b |->
        IF i \in S /\ Opcode(b[i]) \in SpecPrivileged THEN b[i] - Opcode(b[i]) ELSE b[i]]

(* mgpu_validate_commands accepts a buffer exactly when section 4.G does:  *)
(* a sequence of records each within its opcode's size bounds, inside the  *)
(* buffer and passing its opcode's rules.  cmd_validators[] gives REG_READ *)
(* 2..3 where 4.G gives 3..3, so a 2-dword REG_READ is accepted by the     *)
(* walk and not by the grammar (MGPUValidator_grammar.cfg, where it fails). *)
ValidationDecidesGrammar ==
    vret # "none" => (vret = "ok" <=> WellFormed(in, vbase))

(* What a successful walk leaves in cmd_copy, the buffer handed to the     *)
(* ring, is the user's buffer with every privileged record disarmed to NOP *)
(* and nothing else changed: no REG_WRITE / REG_READ reaches the device,   *)
(* and the sizes are kept, so the device parses the same records.          *)
CopyDisarmed ==
    vret = "ok" =>
        \E S \in SUBSET (1 .. Len(in)) :
            /\ Tiles(in, S)
            /\ buf = Disarmed(in, S)
            /\ \A s \in S : Opcode(buf[s]) \notin SpecPrivileged

(* Every call returns: the walk advances by at least one dword per record  *)
(* (min_size >= 1), so no header, not even one of size 0, keeps it in     *)
(* place.                                                                  *)
Terminates == <>(pc = "done")
=============================================================================
