SPECIFICATION FairSpec
CONSTANTS
    Drainer = {"d1"}
    NumRows = 4
    BusinessOf <- Alternate
    BatchSize = 2
    NumWriters = 1
    MaxFaults = 2
INVARIANT OrderWithoutFaults
PROPERTY ImplementsChannel
