SPECIFICATION Spec
CONSTANTS
    Drainer = {"d1", "d2"}
    NumRows = 3
    BusinessOf <- Alternate
    BatchSize = 2
    NumWriters = 2
    MaxFaults = 2
INVARIANT TypeOK
INVARIANT OneRunPerRow
INVARIANT PublishedInLog
INVARIANT DuplicatesInDoubt
