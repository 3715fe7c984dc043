SPECIFICATION Spec
CONSTANTS
    Assignments = {a}
    Empty = empty
    RevertDelay = 2
    HasSystemdRun = TRUE
    Slots = {s1, s2}
    WizardTimeout = 1
    MaxOpens = 2
    MaxLoads = 1
    Failures = {"process", "machine"}
    NoSnapshot = noSnapshot
SYMMETRY Symmetry
INVARIANTS
    RevertNeverRacesApply
    WaitingHasJob
