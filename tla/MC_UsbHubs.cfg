CONSTANTS
    NumPorts2 <- MCNumPorts2
    MaxEvents2 <- MCMaxEvents2
    NumPorts3 <- MCNumPorts3
    MaxEvents3 <- MCMaxEvents3
SPECIFICATION FairSpec
\* With the events used up both hub tasks rest in read_slice for good.
CHECK_DEADLOCK FALSE
INVARIANT TypeOK
INVARIANT WaitMeansDone
PROPERTY WaitReturns
PROPERTY ChangesAcknowledged
