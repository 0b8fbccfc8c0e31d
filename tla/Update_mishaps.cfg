\* Any sequence of updates under every fault but a failing copy.
SPECIFICATION Spec
CONSTANTS
    good = good
    better = better
    crashing = crashing
    hanging = hanging
    picky = picky
    foreign = foreign
    Torn = Torn
    None = None
    Builds <- MCBuilds
    Runs <- MCRuns
    Accepts <- MCAccepts
    Serves <- MCServes
    Hangs <- MCHangs
    RestartService = TRUE
    Patience = 2
    Faults = {"write", "rename", "systemctl", "kill"}
INVARIANTS
    TypeOK
    InstalledStarts
    PreviousIsAtHand
    ReportIsTrue
    UpdateKeepsServiceUp
PROPERTIES
    CrashingReleaseIsUndone
