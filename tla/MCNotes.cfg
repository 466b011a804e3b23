CONSTANTS
    Key = {k1}
    Text = {t1, t2}
    Id = {i1, i2}
    Worktree = {w1, w2}
    Gen = {g1, g2}
    Rule <- OneNote
    MaxEdits = 1
    None = None
SPECIFICATION Spec
SYMMETRY Symmetry
INVARIANTS
    RetrySucceeds
    PurgeLeavesNoTemp
PROPERTIES
    OneIdentity
    AuthoredKept
    OnlyWholeNotes
    ErasedStaysErased
