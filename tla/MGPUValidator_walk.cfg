\* Buffers of up to 5 dwords (a DRAW record is 5) built from headers of
\* every opcode class the table treats differently and payload values on
\* both sides of every rule:
\*   0          NOP size 0 (below min); a zero count, size or address
\*   256        NOP size 1; an aligned, in-range payload
\*   512        NOP size 2 (above max); aligned payload
\*   519        REG_READ size 2 (privileged); an unaligned payload
\*   772        FENCE size 3
\*   1027       DMA size 4
\*   1281       DRAW size 5
\*   16777224   opcode 8, not in the table; above 65536 and 16 MiB
CONSTANTS
    Dwords = {0, 256, 512, 519, 772, 1027, 1281, 16777224}
    MaxDw = 5
    RingSizeMax = 262144
SPECIFICATION Spec
\* One call of mgpu_submit_validated: it returns and nothing follows.
CHECK_DEADLOCK FALSE
INVARIANT CopyDisarmed
PROPERTY Terminates
