SPECIFICATION FairSpec
CONSTANTS
    Worker = {"w1", "w2"}
    Threshold = 2
    Window = 1
    MaxClock = 1
    MaxLost = 1
INVARIANT TypeOK
INVARIANT TripAccounted
PROPERTY RecoversForGood
