CONSTANTS
    Capacity <- MCCapacity
    Handles <- MCHandles
SPECIFICATION Spec
INVARIANT TypeOK
INVARIANT RingWellFormed
PROPERTY ImplementsFifo
