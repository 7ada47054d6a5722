SPECIFICATION FairSpec
CONSTANTS
    Event = {1, 2}
    Adapter <- AllAdapters
    Route <- RouteFanOut
    NumTasks = 3
    EventOf <- OneTwice
    Unparseable = {2}
    NumWorkers = 2
    MaxRetries = 1
    Answers <- ShopFails
    Verdicts = {"proceed"}
    Refusing = {"shop"}
    MaxCrashes = 0
    MaxOutages = 0
    MaxDBFaults = 1
INVARIANT DoneIsSettled
PROPERTY EveryTaskEnds
PROPERTY HealthyAdaptersServed
