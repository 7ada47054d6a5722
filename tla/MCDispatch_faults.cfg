SPECIFICATION Spec
CONSTANTS
    Event = {1}
    Adapter = {"shop"}
    Route <- RouteShop
    NumTasks = 2
    EventOf <- SameEvent
    Unparseable = {}
    NumWorkers = 2
    MaxRetries = 1
    Answers <- AnyAnswer
    Verdicts = {"proceed", "loser", "parked"}
    Refusing = {"shop"}
    MaxCrashes = 1
    MaxOutages = 1
    MaxDBFaults = 1
INVARIANT TypeOK
INVARIANT Exclusive
INVARIANT NoFalseCompletion
INVARIANT DuplicatesAccounted
INVARIANT NoLeakedReservation
INVARIANT AuditAccounted
