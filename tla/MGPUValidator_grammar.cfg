\* The same buffers as MGPUValidator_walk.cfg, checked against the grammar
\* of section 4.G.  519 is a REG_READ header of size 2: the code's table
\* allows it, 4.G does not.
CONSTANTS
    Dwords = {0, 256, 512, 519, 772, 1027, 1281, 16777224}
    MaxDw = 5
    RingSizeMax = 262144
SPECIFICATION Spec
CHECK_DEADLOCK FALSE
INVARIANT ValidationDecidesGrammar
