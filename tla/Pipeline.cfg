\* Four messages of two buffers, and a fifth begun, through a ring of three.
CONSTANTS
    DMA_NUM_BUFFERS = 5
    CounterMod = 32
    GROUPS = 2
    Adc <- SomeAdc
    Trash <- SomeTrash
    N_MSG_DATA = 3
    DATA_BUFFER_MAX = 2
    MaxBuffers = 9
SPECIFICATION PipelineFairSpec
INVARIANTS
    PipelineTypeOK
    HoldsWholeMessage
    SlotsApart
PROPERTIES
    EndToEnd
    AllOffered
