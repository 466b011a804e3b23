SPECIFICATION AdaptersSpec
CONSTANTS
    Kinds = {"omp", "codex"}
    Files <- MCFiles
    Present = {"f"}
    Contents <- MCContents
    Lines <- MCLines
    Cwds = {"c"}
    RuleSets <- MCRuleSets
    MaxLines = 3
    MaxEdits = 2
    None = None
    Sessions = 2
    Parts = 2
    Data = {"d1", "d2"}
    MaxRowEdits = 3
    Nothing = Nothing
INVARIANTS
    IncrementalIsFull
    ScanWasTrue
PROPERTIES
    ProgressIsEvidence
    AppendKeeps
