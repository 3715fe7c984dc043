SPECIFICATION Spec
CONSTANTS
    Assignments = {a, b}
    Empty = empty
    NoSnapshot = unread
    RevertDelay = 2
    WizardTimeout = 1
    HasSystemdRun = TRUE
    Slots = {s1}
    MaxOpens = 2
    MaxLoads = 1
    Failures = {}
PROPERTY
    WritesAreRendered
