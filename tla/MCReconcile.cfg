CONSTANTS
    Kind <- NotesAndAdapter
    Attempts = 2
    MaxEdits = 2
    Churning = FALSE
    MirrorCrash = FALSE
    NoView = NoView
    NoIndex = NoIndex
SPECIFICATION Spec
INVARIANTS
    AnswerWasTrue
    LossDisclosed
PROPERTIES
    CommitWasTrue
    EvidenceKept
    RemovalStaysAccepted
