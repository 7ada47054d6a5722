SPECIFICATION Spec
CONSTANTS
    Event = {1}
    Adapter = {"shop"}
    Route <- RouteShop
    NumTasks = 1
    EventOf <- SameEvent
    Unparseable = {}
    NumWorkers = 2
    MaxRetries = 1
    Answers <- OkOr5xx
    Verdicts = {"proceed"}
    Refusing = {}
    MaxCrashes = 0
    MaxOutages = 0
    MaxDBFaults = 0
INVARIANT ExhaustionParked
