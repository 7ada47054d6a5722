SPECIFICATION Spec
CONSTANTS
    Departments <- TwoDepartments
    Value = {a, b, c}
    Policies <- Policy
    Worker = {w1,w2}
    MaxBase = 0
    MaxChanges = 3
    MaxFaults = 1
SYMMETRY Symmetry
INVARIANT TypeOK
INVARIANT ConflictNoticed
PROPERTY AuthorityKept
