SPECIFICATION Spec
CONSTANTS
    Departments <- TwoDepartments
    Value = {"a", "b"}
    Fields <- AddressOnly
    Editors = {"shop"}
    Apart = FALSE
    KeyNights = 3
    MaxEdits = 2
    MaxLosses = 0
PROPERTY EchoDies
