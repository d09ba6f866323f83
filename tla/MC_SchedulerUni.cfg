CONSTANTS
    NumCPUs <- MCNumCPUs
    NumWorkers <- MCNumWorkers
    Capacity <- MCCapacity
    o1 = o1
    Objects <- MCObjects
SPECIFICATION FairSpec
INVARIANT ThreadsConserved
PROPERTY StarvationFree
