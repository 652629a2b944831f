\* Six buffers, twenty transfers: three passes over the ring; the counter wraps,
\* out of step with the ring, in the third.
CONSTANTS
    DMA_NUM_BUFFERS = 6
    CounterMod = 16
    MaxTransfers = 20
SPECIFICATION FairSpec
INVARIANTS
    NoOverrun
    ReadsInOrder
    ControllerRuns
    IInv
PROPERTIES
    EmitsInOrder
    RunningUntouched
    AllProcessed
    ImplementsStream
