SPECIFICATION ReadsSpec
CONSTANTS
    Id = {"a", "b", "c"}
    Text <- MCText
    Required = {"a"}
    Seen <- MCSeen
    Branch = {"main", "dev"}
    Task = {"t"}
    Places <- MCPlaces
    Views <- MCViews
    Requests <- MCRequests
    Excerpt = 2
    Limit = 1
    None = None
    Generation = {g1, g2}
    MaxViews = 4
    NoView = NoView
    Unavailable = Unavailable
    Records <- MCRecords
    Accepted = {"accepted"}
    Proposed = {"proposed"}
    Blocked = {"blocked"}
    Approvers = {"ann"}
    RequireAttribution = TRUE
    MaxRecords = 3
    Unset = Unset
INVARIANTS
    OneReading
    ContinuationsHold
    OmissionsDeclared
    HistoryIsTrue
    WalkIsClosure
    OnlyApprovedReplaces
    OrderIrrelevant
PROPERTIES
    NoForgottenText
    PagesAdvance
CHECK_DEADLOCK FALSE
