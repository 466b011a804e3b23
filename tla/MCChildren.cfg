SPECIFICATION ChildrenSpec
CONSTANTS
    Limit = 1
    ErrLimit = 1
    InputSize = 1
    PipeSize = 1
    OutMax = 3
    Url = {u1, u2}
    MinInterval = 1
    MaxNow = 1
    MaxMoves = 1
    MaxTurns = 1
    NoTip = NoTip
    Item = {i1, i2, i3}
    Content = {c1, c2}
    Model = {m1, m2}
    BatchSize = 2
    MaxChanges = 2
    None = None
INVARIANTS
    OutputIsWhole
    NothingLeft
    TipWasUpstream
    VectorsMatch
    ForgottenUnembedded
PROPERTIES
    CallEnds
    EmbedReady
CHECK_DEADLOCK FALSE
