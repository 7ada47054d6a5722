SPECIFICATION Spec
CONSTANTS
    Event = {e1}
    Demo = {d1}
    Steward = {s1, s2}
    NoJob = NoJob
    NoRow = NoRow
    MaxRows = 2
    MaxRetries = 2
    MaxResets = 1
    MaxFaults = 2
SYMMETRY Symmetry
INVARIANT TypeOK
INVARIANT NothingVanishes
INVARIANT OncePerRetry
INVARIANT WrittenOncePerKey
INVARIANT Fenced
