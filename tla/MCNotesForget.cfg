CONSTANTS
    Key = {k1}
    Text = {t1}
    Id = {i1, i2}
    Worktree = {w1}
    Gen = {g1, g2}
    Rule <- AllNotes
    MaxEdits = 0
    None = None
SPECIFICATION Spec
INVARIANT ForgetNeverBlocks
