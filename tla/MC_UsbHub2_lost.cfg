CONSTANTS
    Hub <- MCHub
    NumPorts <- MCNumPorts
    MaxEvents <- MCMaxEvents
SPECIFICATION Spec
CHECK_DEADLOCK FALSE
INVARIANT IdleHubUpToDate
