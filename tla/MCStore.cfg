CONSTANTS
    Proc = {p1, p2}
    Gen = {g1, g2, g3}
    Scope = {s1, s2}
    NoProc = NoProc
    NoGen = NoGen
    MaxSeq = 3
SPECIFICATION Spec
SYMMETRY Symmetry
INVARIANTS
    SelectedIsComplete
    ReturnedStaysReadable
    CurrentIsNewest
PROPERTIES
    HistoryNeverGrows
    LogSpec
