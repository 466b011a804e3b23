CONSTANTS
    Item = {i1}
    Time = {"inside", "outside"}
    Gen = {g1, g2}
    Rule <- ItemAndInterval
    None = None
SPECIFICATION Spec
SYMMETRY Symmetry
INVARIANTS
    PurgedEverywhere
    CompleteMeansClean
PROPERTY NoResurrection
