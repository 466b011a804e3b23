CONSTANTS
    Kind <- NotesAndDoc
    Attempts = 1
    MaxEdits = 2
    Churning = FALSE
    MirrorCrash = TRUE
    NoView = NoView
    NoIndex = NoIndex
SPECIFICATION Spec
PROPERTY RemovalStaysAccepted
