SPECIFICATION Spec
CONSTANTS
    Partition = {"p0"}
    MaxLog = 2
    MaxRestarts = 0
INVARIANT FailedRedelivered
