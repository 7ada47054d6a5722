SPECIFICATION Spec
CONSTANTS
    Departments <- OneDepartment
    Value = {a, b, c}
    Policies = {"SWS_WINS"}
    Worker = {w1}
    MaxBase = 0
    MaxChanges = 2
    MaxFaults = 0
INVARIANT SwsPrevails
