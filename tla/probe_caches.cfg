SPECIFICATION Spec
CONSTANTS
    Loads = {l1, l2, l3}
    NoLoad = noLoad
    LoadTimeout = 3
    ProbeTimeout <- Timeouts
    Refresh <- Periods
SYMMETRY Symmetry
INVARIANTS
    TypeOK
    LoadsEndInTime
PROPERTIES
    ProbesApart
