CONSTANTS
    Kind <- DocOnly
    Attempts = 3
    MaxEdits = 1
    Churning = TRUE
    MirrorCrash = TRUE
    NoView = NoView
    NoIndex = NoIndex
SPECIFICATION Spec
PROPERTY Terminates
