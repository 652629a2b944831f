\* 2^16 leaves 16 when divided by 30; 20 leaves 4 when divided by 8.
CONSTANTS
    DMA_NUM_BUFFERS = 8
    CounterMod = 20
    MaxTransfers = 26
SPECIFICATION Spec
PROPERTY ReadsNewBuffer
