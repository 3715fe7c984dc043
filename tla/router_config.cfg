SPECIFICATION Spec
CONSTANTS
    Names = {"eth0", "eth1", "enp1", "enp2", "eth9"}
    Macs = {"aa", "bb", "cc"}
    LowerCase <- MacCase
    KeyLines = {"key"}
    Removed = "removed"
    Noise = noise
    Garbage = garbage
    Keys = {"k1", "k2"}
    Machines <- AllMachines
    MaxEdits = 1
INVARIANTS
    TypeOK
    SavedIsShown
    RerunKeepsAssignment
    DiffShowsTheChange
    OpenedIsExported
    ExportRoundTrips
    RestoreIsFixedPoint
    AbsentPortsWereAgreed
PROPERTIES
    UnchangedIsLeft
