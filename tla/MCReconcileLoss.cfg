CONSTANTS
    Kind <- NotesOnly
    Attempts = 1
    MaxEdits = 3
    Churning = FALSE
    MirrorCrash = TRUE
    NoView = NoView
    NoIndex = NoIndex
SPECIFICATION Spec
INVARIANT LossDisclosed
