SPECIFICATION FairSpec
CONSTANTS
    Event = {1}
    Adapter = {"shop"}
    Route <- RouteShop
    NumTasks = 2
    EventOf <- SameEvent
    Unparseable = {}
    NumWorkers = 2
    MaxRetries = 1
    Answers <- OkOr5xx
    Verdicts = {"proceed"}
    Refusing = {}
    MaxCrashes = 1
    MaxOutages = 1
    MaxDBFaults = 0
PROPERTY EveryTaskEnds
