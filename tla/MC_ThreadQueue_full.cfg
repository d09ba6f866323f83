CONSTANTS
    Capacity <- MCCapacity
    Handles <- MCHandles
SPECIFICATION Spec
PROPERTY HoldsCapacityHandles
