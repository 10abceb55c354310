SPECIFICATION Spec
CONSTANTS
    Serve = Serve
    ServeRuns = {r}
    CliRuns = {c}
    Kept = 2
    MaxRuns = 2
    MaxRestarts = 0
    MaxFailures = 0
    MayReusePid = FALSE
PROPERTIES
    CliRunsAreUndisturbed
