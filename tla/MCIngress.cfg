SPECIFICATION Spec
CONSTANTS
    MaxChanges = 3
    MaxPushes = 1
    MaxFaults = 2
INVARIANT TypeOK
INVARIANT Accounted
INVARIANT OncePerSetback
INVARIANT CommitOrder
PROPERTY EventuallyIngested
