SPECIFICATION FairSpec
CONSTANTS
    Assignments = {a, b}
    Empty = empty
    RevertDelay = 2
    HasSystemdRun = TRUE
    Slots = {s1}
    WizardTimeout = 1
    MaxOpens = 1
    MaxLoads = 1
    Failures = {"process"}
    NoSnapshot = noSnapshot
INVARIANTS
    TypeOK
    ApplyRunsGuarded
    CancelledMeansDisarmed
PROPERTIES
    WritesAreRendered
    RevertRestoresFound
    WizardAnswers
    CutOffIsReverted
