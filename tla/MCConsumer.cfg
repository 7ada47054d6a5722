SPECIFICATION FairSpec
CONSTANTS
    Partition = {"p0", "p1"}
    MaxLog = 2
    MaxRestarts = 1
INVARIANT TypeOK
INVARIANT HandedOver
INVARIANT OncePerStart
PROPERTY EventuallyHanded
