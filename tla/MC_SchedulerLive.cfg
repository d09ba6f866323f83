CONSTANTS
    NumCPUs <- MCNumCPUs
    NumWorkers <- MCNumWorkers
    Capacity <- MCCapacity
    Objects = {}
SPECIFICATION FairSpec
PROPERTY StarvationFree
