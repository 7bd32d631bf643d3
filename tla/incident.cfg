SPECIFICATION Spec
CONSTANTS
    r1 = r1
    r2 = r2
    Requests <- MCTwo
    Postures <- MCPostures
    Modes <- MCByReceipt
    Notes <- MCBlankOnly
    StatusWindow = 1
    InspectWindow = 2
    TriageWindow = 3
    Paged <- MCHistories
    PageLimit = 1
    MaxStamp = 5
    MaxTransitions = 2
SYMMETRY RequestSymmetry
INVARIANTS FollowUpsCiteTheirIncident QuietReadsAreTrue PagesAreComplete
CHECK_DEADLOCK FALSE
