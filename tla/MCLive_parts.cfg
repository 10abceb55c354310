SPECIFICATION Spec
CONSTANTS
    Serve = Serve
    r = r
    c = c
PROPERTIES
    GoneIsSettled
    ShowsWhatIsSaved
CHECK_DEADLOCK FALSE
