SPECIFICATION Spec
CONSTANTS
    Event = {1, 2}
    Adapter = {"shop"}
    Route <- RouteShop
    NumTasks = 2
    EventOf <- InOrder
    Unparseable = {}
    NumWorkers = 1
    MaxRetries = 1
    Answers <- OkOr5xx
    Verdicts = {"proceed"}
    Refusing = {}
    MaxCrashes = 0
    MaxOutages = 0
    MaxDBFaults = 0
PROPERTY StrictOrder
