SPECIFICATION Spec
CONSTANTS
    Event = {1}
    Adapter = {"shop"}
    Route <- RouteShop
    NumTasks = 3
    EventOf <- SameEvent
    Unparseable = {}
    NumWorkers = 3
    MaxRetries = 1
    Answers <- OkOr4xx
    Verdicts = {"proceed"}
    Refusing = {}
    MaxCrashes = 0
    MaxOutages = 0
    MaxDBFaults = 1
INVARIANT NXPreventsConcurrentWorkers
