SPECIFICATION Spec
CONSTANTS
    Departments <- TwoDepartments
    Value = {"a", "A", "b"}
    Fields <- AllFields
    Editors = {"sws", "shop", "factories"}
    Apart = TRUE
    KeyNights = 3
    MaxEdits = 3
    MaxLosses = 1
INVARIANT TypeOK
INVARIANT RestsInAgreement
PROPERTY EchoDies
PROPERTY LastEditArrives
PROPERTY Reconciled
