CONSTANTS
    NumCPUs <- MCNumCPUs
    NumWorkers <- MCNumWorkers
    Capacity <- MCCapacity
    Objects = {}
    QuantumOf <- MCQuantumOf
SPECIFICATION MCSpec
INVARIANT TypeOK
INVARIANT ThreadsConserved
INVARIANT NoQueueOverflow
PROPERTY RoundRobin
PROPERTY FullQuantumOnDispatch
